---------------------------- MODULE QueueProofs ----------------------------
(***************************************************************************)
(* What is proved about the queues of queue.c, for every number of nodes   *)
(* and queues: no node is lost or in two places, the redundant fields of   *)
(* nodes and queues agree, and the lists implement AbsQueue.  About        *)
(* kheap.c: blocks tile the memory and neighbours are merged; about        *)
(* kalloc.c: what is handed out is apart from what was before.  And about  *)
(* sio.c, for every size of its buffers: it implements AbsLine.            *)
(***************************************************************************)
EXTENDS Queue, Heap, Lists, SerialLine

QueueSpec == QueueInit /\ [][QueueNext]_queueVars

-----------------------------------------------------------------------------
QTypes ==
  /\ entry \in [Nodes -> Entries \cup {NoEntry}]
  /\ prev \in [Nodes -> Pointers]
  /\ next \in [Nodes -> Pointers]
  /\ avail \in Pointers
  /\ head \in [Queues -> Pointers]
  /\ tail \in [Queues -> Pointers]
  /\ length \in [Queues -> Nat]
  /\ result \in [status : Statuses, entry : Entries \cup {NoEntry}]

\* The nodes are shared out among the queues, M[q] to queue q, and the free list F.
Parts(M, F) ==
  /\ M \in [Queues -> SUBSET Nodes] /\ F \in SUBSET Nodes
  /\ \A n \in Nodes : n \in F \/ \E q \in Queues : n \in M[q]
  /\ \A q \in Queues : M[q] \cap F = {}
  /\ \A q, r \in Queues : q # r => M[q] \cap M[r] = {}

\* Every part is a list, and links back and tails go with the links forward.
Shape(M, F, pv, nx, av, hd, tl, len) ==
  /\ Parts(M, F)
  /\ \E f : IsList(F, f, av, nx, NULL)
  /\ \A q \in Queues :
       /\ IsList(M[q], len[q], hd[q], nx, NULL)
       /\ IF len[q] = 0 THEN tl[q] = NULL ELSE tl[q] \in M[q] /\ nx[tl[q]] = NULL
       /\ hd[q] # NULL => pv[hd[q]] = NULL
       /\ \A n \in M[q] : nx[n] # NULL => pv[nx[n]] = n

QInv == QTypes /\ \E M, F : Shape(M, F, prev, next, avail, head, tail, length)

(***************************************************************************)
(* A traversal that is cut off where a node is found still finds one.      *)
(***************************************************************************)
LEMMA FirstStop ==
  ASSUME NEW N \in Nat, NEW St \in SUBSET (0..N), St # {}
  PROVE  \E i \in 0..N : i \in St /\ \A j \in 0..(i - 1) : j \notin St
  <1>1. St \in SUBSET Nat
    OBVIOUS
  <1>2. PICK i \in St : \A j \in St : i <= j
    BY <1>1, LeastOf
  <1> QED
    BY <1>1, <1>2

(***************************************************************************)
(* A queue is never longer than there are nodes, so that the N_QNODES      *)
(* steps of a walk see all of it.                                          *)
(***************************************************************************)
LEMMA WalkSees ==
  ASSUME NEW M, NEW F, Shape(M, F, prev, next, avail, head, tail, length), NEW q \in Queues
  PROVE  /\ Traversal(Walk(q), N_QNODES, head[q], next, NULL)
         /\ length[q] \in 0..N_QNODES /\ Walk(q)[length[q]] = NULL
         /\ \A i \in 0..N_QNODES : Walk(q)[i] \in M[q] \cup {NULL}
         /\ NodesOf(q) = M[q]
  <1>1. N_QNODES \in Nat
    BY QueueAssumption
  <1>2. Traversal(Walk(q), N_QNODES, head[q], next, NULL)
    <2>1. PICK f : Traversal(f, N_QNODES, head[q], next, NULL)
      BY <1>1, TraversalExists
    <2> DEFINE Is(h) == h = [i \in 0..N_QNODES |-> IF i = 0 THEN head[q]
                               ELSE LET n == h[i - 1] IN IF n = NULL THEN NULL ELSE next[n]]
    <2>2. Is(f)
      BY <2>1 DEF Traversal
    <2>3. Walk(q) = CHOOSE g : Is(g)
      BY DEF Walk
    <2> HIDE DEF Is
    <2>4. Is(Walk(q))
      BY <2>2, <2>3, Zenon
    <2> QED
      BY <2>4 DEF Traversal, Is
  <1>3. IsList(M[q], length[q], head[q], next, NULL) /\ M[q] \in SUBSET Nodes
    BY DEF Shape, Parts
  <1>4. length[q] \in 0..N_QNODES
    <2>1. IsFiniteSet(Nodes) /\ Cardinality(Nodes) = N_QNODES
      BY <1>1, QueueAssumption, FS_Interval DEF Nodes
    <2>2. IsFiniteSet(M[q]) /\ Cardinality(M[q]) = length[q]
      BY <1>3, Counted
    <2>3. Cardinality(M[q]) <= Cardinality(Nodes)
      BY <1>3, <2>1, FS_Subset
    <2>4. length[q] \in Nat
      BY <1>3, ListFacts
    <2> QED
      BY <1>1, <2>1, <2>2, <2>3, <2>4
  <1>5. PICK pos : Numbered(M[q], pos, length[q], head[q], next, NULL)
    BY <1>3 DEF IsList
  <1>6. \A i \in 0..N_QNODES : IF i < length[q] THEN Walk(q)[i] \in M[q] /\ pos[Walk(q)[i]] = i
                               ELSE Walk(q)[i] = NULL
    BY <1>1, <1>2, <1>5, Visits
  <1>7. Walk(q)[length[q]] = NULL
    BY <1>1, <1>4, <1>6
  <1>8. NodesOf(q) = M[q]
    <2>1. length[q] <= N_QNODES
      BY <1>4
    <2>2. {Walk(q)[i] : i \in 0..N_QNODES} \ {NULL} = M[q]
      BY <1>1, <1>2, <1>3, <2>1, Members
    <2> QED
      BY <2>2 DEF NodesOf
  <1> QED
    BY <1>2, <1>4, <1>6, <1>7, <1>8

LEMMA FreeSees ==
  ASSUME NEW M, NEW F, Shape(M, F, prev, next, avail, head, tail, length)
  PROVE  FreeNodes = F
  <1>1. N_QNODES \in Nat
    BY QueueAssumption
  <1>2. PICK f : IsList(F, f, avail, next, NULL)
    BY DEF Shape
  <1> DEFINE Is(at) == at = [i \in 0..N_QNODES |-> IF i = 0 THEN avail
                               ELSE LET n == at[i - 1] IN IF n = NULL THEN NULL ELSE next[n]]
             walk == CHOOSE at : Is(at)
  <1>3. FreeNodes = {walk[i] : i \in 0..N_QNODES} \ {NULL}
    BY DEF FreeNodes
  <1>4. \E at : Is(at)
    <2>1. PICK at : Traversal(at, N_QNODES, avail, next, NULL)
      BY <1>1, TraversalExists
    <2> QED
      BY <2>1 DEF Traversal
  <1>5. Traversal(walk, N_QNODES, avail, next, NULL)
    <2>1. Is(walk)
      <3> HIDE DEF Is
      <3> QED
        BY <1>4, Zenon
    <2> HIDE DEF walk
    <2> QED
      BY <2>1 DEF Traversal
  <1>6. f \in Nat /\ f <= N_QNODES
    <2>1. IsFiniteSet(Nodes) /\ Cardinality(Nodes) = N_QNODES
      BY <1>1, QueueAssumption, FS_Interval DEF Nodes
    <2>2. IsFiniteSet(F) /\ Cardinality(F) = f
      BY <1>2, Counted
    <2>3. F \in SUBSET Nodes
      BY DEF Shape, Parts
    <2>4. Cardinality(F) <= Cardinality(Nodes)
      BY <2>1, <2>3, FS_Subset
    <2>5. f \in Nat
      BY <1>2, ListFacts
    <2> QED
      BY <2>1, <2>2, <2>4, <2>5
  <1> HIDE DEF walk
  <1>7. {walk[i] : i \in 0..N_QNODES} \ {NULL} = F
    BY <1>1, <1>2, <1>5, <1>6, Members
  <1> QED
    BY <1>3, <1>7

-----------------------------------------------------------------------------
LEMMA NodeFacts ==
  /\ NULL \notin Nodes /\ Pointers = Nodes \cup {NULL} /\ N_QNODES \in Nodes /\ N_QNODES \in Nat
  /\ \A s \in Statuses : Status(s) \in [status : Statuses, entry : Entries \cup {NoEntry}]
  /\ \A e \in Entries \cup {NoEntry} : Taken(e) \in [status : Statuses, entry : Entries \cup {NoEntry}]
  BY QueueAssumption DEF NULL, Nodes, Pointers, Status, Taken, Statuses

(***************************************************************************)
(* The pool as _q_init leaves it: all nodes in the free list.              *)
(***************************************************************************)
LEMMA QInitInv == QueueInit => QInv
  <1> SUFFICES ASSUME QueueInit PROVE QInv
    OBVIOUS
  <1>1. N_QNODES \in Nat \ {0}
    BY QueueAssumption
  <1>2. QTypes
    <2>1. \A n \in Nodes : n - 1 \in Pointers
      BY <1>1 DEF Nodes, Pointers, NULL
    <2>2. "none" \in Statuses
      BY DEF Statuses
    <2> QED
      BY <2>1, <2>2, NodeFacts DEF QueueInit, QTypes
  <1> DEFINE M == [q \in Queues |-> {}]
  <1>3. Parts(M, Nodes)
    BY DEF Parts
  <1>4. IsList(Nodes, N_QNODES, avail, next, NULL)
    <2> DEFINE pos == [n \in Nodes |-> N_QNODES - n]
    <2>1. \A i \in 0..(N_QNODES - 1) : N_QNODES - i \in Nodes /\ pos[N_QNODES - i] = i
      BY <1>1 DEF Nodes
    <2>2. Numbered(Nodes, pos, N_QNODES, avail, next, NULL)
      BY <1>1, <2>1 DEF Numbered, QueueInit, Nodes, NULL
    <2> QED
      BY <2>2 DEF IsList
  <1>5. \A q \in Queues : IsList(M[q], length[q], head[q], next, NULL)
    BY EmptyList DEF QueueInit
  <1>6. \A q \in Queues : length[q] = 0 /\ tail[q] = NULL /\ head[q] = NULL /\ M[q] = {}
    BY DEF QueueInit
  <1> HIDE DEF M
  <1>7. Shape(M, Nodes, prev, next, avail, head, tail, length)
    BY <1>3, <1>4, <1>5, <1>6 DEF Shape
  <1> QED
    BY <1>2, <1>7 DEF QInv

(***************************************************************************)
(* What a call that changes no links does to the invariant: nothing.       *)
(***************************************************************************)
LEMMA LinksKept ==
  ASSUME QInv, UNCHANGED <<entry, links>>,
         result' \in [status : Statuses, entry : Entries \cup {NoEntry}]
  PROVE  QInv'
  BY DEF QInv, QTypes, links

(***************************************************************************)
(* A node of the free list becomes the last one of a queue.                *)
(***************************************************************************)
LEMMA AddLastStep ==
  ASSUME QInv, NEW q \in Queues, NEW e \in Entries,
         AddLast(q, e, tail[q]) \/ AddLast(q, e, IF Empty(q) THEN NULL ELSE tail[q])
  PROVE  QInv'
  <1>1. PICK M, F : Shape(M, F, prev, next, avail, head, tail, length)
    BY DEF QInv
  <1>2. PICK f : IsList(F, f, avail, next, NULL)
    BY <1>1 DEF Shape
  <1>3. /\ M \in [Queues -> SUBSET Nodes] /\ F \in SUBSET Nodes
        /\ \A n \in Nodes : n \in F \/ \E r \in Queues : n \in M[r]
        /\ \A r \in Queues : M[r] \cap F = {}
        /\ \A r, s \in Queues : r # s => M[r] \cap M[s] = {}
        /\ \A r \in Queues : IsList(M[r], length[r], head[r], next, NULL)
    BY <1>1 DEF Shape, Parts
  <1>4. Empty(q) <=> length[q] = 0
    BY DEF Empty, QInv, QTypes
  <1>5. IF Empty(q) THEN tail[q] = NULL ELSE tail[q] \in M[q] /\ next[tail[q]] = NULL
    BY <1>1, <1>4 DEF Shape
  <1>6. AddLast(q, e, tail[q])
    BY <1>5
  <1> DEFINE a == avail
             l == tail[q]
  <1>7. /\ a # NULL /\ avail' = next[a] /\ entry' = [entry EXCEPT ![a] = e]
        /\ prev' = [prev EXCEPT ![a] = l] /\ tail' = [tail EXCEPT ![q] = a]
        /\ head' = IF Empty(q) THEN [head EXCEPT ![q] = a] ELSE head
        /\ length' = [length EXCEPT ![q] = @ + 1] /\ result' = Status("E_SUCCESS")
        /\ next' = [Set(next, IF Empty(q) THEN NULL ELSE l, a) EXCEPT ![a] = NULL]
    BY <1>6 DEF AddLast
  <1>8. QTypes /\ a \in F /\ a \in Nodes /\ a \notin M[q]
    <2>1. a \in F
      BY <1>2, <1>7, ListFacts
    <2> QED
      BY <1>3, <2>1 DEF QInv
  <1>9. /\ next' \in [Nodes -> Pointers] /\ next'[a] = NULL
        /\ \A n \in Nodes \ {a} : next'[n] = IF ~ Empty(q) /\ n = l THEN a ELSE next[n]
    <2>1. CASE Empty(q)
      BY <1>7, <1>8, <2>1, NodeFacts DEF QTypes, Set
    <2>2. CASE ~ Empty(q)
      <3>1. l \in Nodes /\ l # NULL /\ l # a
        BY <1>3, <1>5, <1>8, <2>2, NodeFacts
      <3>2. next' = [[next EXCEPT ![l] = a] EXCEPT ![a] = NULL]
        BY <1>7, <2>2, <3>1 DEF Set
      <3> QED
        BY <1>8, <2>2, <3>1, <3>2, NodeFacts DEF QTypes
    <2> QED
      BY <2>1, <2>2
  <1>10. /\ prev' \in [Nodes -> Pointers] /\ prev'[a] = l
         /\ \A n \in Nodes \ {a} : prev'[n] = prev[n]
    BY <1>7, <1>8 DEF QTypes
  <1>11. /\ head'[q] = (IF Empty(q) THEN a ELSE head[q]) /\ tail'[q] = a /\ length'[q] = length[q] + 1
         /\ \A r \in Queues \ {q} : head'[r] = head[r] /\ tail'[r] = tail[r] /\ length'[r] = length[r]
    BY <1>7, <1>8 DEF QTypes
  <1>12. QTypes'
    <2>1. next[a] \in Pointers /\ a \in Pointers /\ "E_SUCCESS" \in Statuses
      BY <1>8, NodeFacts DEF QTypes, Statuses
    <2> QED
      BY <1>7, <1>8, <1>9, <1>10, <2>1, NodeFacts DEF QTypes
  <1> DEFINE G == F \ {a}
             K == [M EXCEPT ![q] = M[q] \cup {a}]
  <1>13. K[q] = M[q] \cup {a} /\ \A r \in Queues \ {q} : K[r] = M[r]
    BY <1>3
  <1>14. Parts(K, G)
    <2>1. K \in [Queues -> SUBSET Nodes] /\ G \in SUBSET Nodes
      BY <1>3, <1>8
    <2>2. \A n \in Nodes : n \in G \/ \E r \in Queues : n \in K[r]
      BY <1>3, <1>13
    <2>3. \A r \in Queues : K[r] \cap G = {}
      BY <1>3, <1>13
    <2>4. \A r, s \in Queues : r # s => K[r] \cap K[s] = {}
      BY <1>3, <1>8, <1>13
    <2> HIDE DEF K, G
    <2> QED
      BY <2>1, <2>2, <2>3, <2>4 DEF Parts
  <1> HIDE DEF K
  <1>15. IsList(G, f - 1, avail', next', NULL)
    <2>1. \A m \in F \ {a} : next[m] # a /\ next'[m] = next[m]
      BY <1>2, <1>3, <1>5, <1>9, ListFacts
    <2>2. a \in F /\ avail' = next[a] /\ IsList(F, f, a, next, NULL)
      BY <1>2, <1>7, <1>8
    <2> HIDE DEF a
    <2> QED
      BY <2>1, <2>2, TakenOut
  <1>16. IsList(K[q], length'[q], head'[q], next', NULL)
    <2>1. \A m \in M[q] : next'[m] = IF next[m] = NULL THEN a ELSE next[m]
      <3>1. \A m, n \in M[q] : next[m] = next[n] => m = n
        BY <1>3, ListFacts
      <3>2. Empty(q) => M[q] = {}
        BY <1>3, <1>4, ListFacts
      <3> QED
        BY <1>3, <1>5, <1>8, <1>9, <3>1, <3>2
    <2>2. head'[q] = IF length[q] = 0 THEN a ELSE head[q]
      BY <1>4, <1>11
    <2>3. IsList(M[q], length[q], head[q], next, NULL) /\ a \notin M[q] /\ a # NULL /\ next'[a] = NULL
      BY <1>3, <1>7, <1>8, <1>9
    <2>4. IsList(M[q] \cup {a}, length'[q], head'[q], next', NULL)
      BY <1>11, <2>1, <2>2, <2>3, PutLast
    <2> QED
      BY <1>11, <1>13, <2>4
  <1>17. ASSUME NEW r \in Queues \ {q}
         PROVE  /\ IsList(K[r], length'[r], head'[r], next', NULL)
                /\ \A n \in M[r] : next'[n] = next[n] /\ n # a /\ n \in Nodes
    <2>1. \A n \in M[r] : next'[n] = next[n] /\ n # a /\ n \in Nodes
      BY <1>3, <1>5, <1>8, <1>9
    <2>2. IsList(M[r], length[r], head[r], next', NULL)
      BY <1>3, <2>1, SameLinks
    <2> QED
      BY <1>11, <1>13, <2>1, <2>2
  <1>18. /\ tail'[q] \in K[q] /\ next'[tail'[q]] = NULL /\ length'[q] # 0
         /\ head'[q] # NULL => prev'[head'[q]] = NULL
         /\ \A n \in K[q] : next'[n] # NULL => prev'[next'[n]] = n
    <2>1. length'[q] # 0
      BY <1>8, <1>11 DEF QTypes
    <2>2. head'[q] # NULL => prev'[head'[q]] = NULL
      <3>1. CASE Empty(q)
        BY <1>5, <1>10, <1>11, <3>1
      <3>2. CASE ~ Empty(q)
        <4>1. head[q] \in M[q] /\ head[q] # NULL /\ prev[head[q]] = NULL
          <5>1. head[q] \in M[q]
            BY <1>3, <1>4, <3>2, ListFacts
          <5> QED
            BY <1>1, <1>3, <5>1, NodeFacts DEF Shape
        <4> QED
          BY <1>3, <1>8, <1>10, <1>11, <3>2, <4>1
      <3> QED
        BY <3>1, <3>2
    <2>3. ASSUME NEW n \in M[q], next'[n] # NULL
          PROVE  prev'[next'[n]] = n
      <3>1. \A m \in M[q] : next[m] \in M[q] \cup {NULL}
        BY <1>3, ListFacts
      <3>2. CASE n = l
        <4>1. ~ Empty(q)
          BY <1>5, <1>3, <3>2, NodeFacts
        <4> QED
          BY <1>3, <1>8, <1>9, <1>10, <3>2, <4>1
      <3>3. CASE n # l
        <4>1. next'[n] = next[n] /\ next[n] \in M[q] /\ prev[next[n]] = n
          BY <1>1, <1>3, <1>8, <1>9, <2>3, <3>1, <3>3 DEF Shape
        <4> QED
          BY <1>3, <1>8, <1>10, <4>1
      <3> QED
        BY <3>2, <3>3
    <2> QED
      BY <1>9, <1>11, <1>13, <2>1, <2>2, <2>3
  <1>19. ASSUME NEW r \in Queues \ {q}
         PROVE  /\ IF length'[r] = 0 THEN tail'[r] = NULL ELSE tail'[r] \in K[r] /\ next'[tail'[r]] = NULL
                /\ head'[r] # NULL => prev'[head'[r]] = NULL
                /\ \A n \in K[r] : next'[n] # NULL => prev'[next'[n]] = n
    <2>1. /\ IF length[r] = 0 THEN tail[r] = NULL ELSE tail[r] \in M[r] /\ next[tail[r]] = NULL
          /\ head[r] # NULL => prev[head[r]] = NULL
          /\ \A n \in M[r] : next[n] # NULL => prev[next[n]] = n
      BY <1>1 DEF Shape
    <2>2. head[r] \in M[r] \cup {NULL} /\ \A n \in M[r] : next[n] \in M[r] \cup {NULL}
      BY <1>3, ListFacts
    <2> QED
      BY <1>10, <1>11, <1>13, <1>17, <2>1, <2>2
  <1> HIDE DEF G, a
  <1>20. Shape(K, G, prev', next', avail', head', tail', length')
    BY <1>14, <1>15, <1>16, <1>17, <1>18, <1>19 DEF Shape
  <1> QED
    BY <1>12, <1>20 DEF QInv

(***************************************************************************)
(* The first node of a queue has no other before it, and any other has one *)
(* that leads to it.                                                       *)
(***************************************************************************)
LEMMA BackLinks ==
  ASSUME NEW M, NEW F, Shape(M, F, prev, next, avail, head, tail, length), NEW q \in Queues, NEW n \in M[q]
  PROVE  /\ prev[n] \in M[q] \cup {NULL}
         /\ prev[n] = NULL <=> n = head[q]
         /\ \A m \in M[q] : next[m] = n <=> m = prev[n]
         /\ next[n] = NULL <=> n = tail[q]
         /\ length[q] # 0
  <1>1. /\ IsList(M[q], length[q], head[q], next, NULL) /\ NULL \notin M[q]
        /\ head[q] # NULL => prev[head[q]] = NULL
        /\ \A m \in M[q] : next[m] # NULL => prev[next[m]] = m
        /\ IF length[q] = 0 THEN tail[q] = NULL ELSE tail[q] \in M[q] /\ next[tail[q]] = NULL
    BY NodeFacts DEF Shape, Parts
  <1>2. /\ length[q] # 0 /\ head[q] \in M[q]
        /\ \A m \in M[q] : next[m] \in M[q] \cup {NULL} /\ next[m] # head[q]
        /\ \A m, k \in M[q] : next[m] = next[k] => m = k
    BY <1>1, ListFacts
  <1>3. \A k \in M[q] : k # head[q] => \E m \in M[q] : next[m] = k
    BY <1>1, ListFacts
  <1>4. next[n] = NULL <=> n = tail[q]
    BY <1>1, <1>2
  <1>5. CASE n = head[q]
    BY <1>1, <1>2, <1>4, <1>5
  <1>6. CASE n # head[q]
    <2>1. PICK m \in M[q] : next[m] = n
      BY <1>3, <1>6
    <2>2. n # NULL /\ prev[n] = m
      BY <1>1, <2>1
    <2> QED
      BY <1>1, <1>2, <1>4, <1>6, <2>1, <2>2
  <1> QED
    BY <1>5, <1>6

(***************************************************************************)
(* A node of the free list is linked in before node c of a queue.          *)
(***************************************************************************)
LEMMA AddBeforeStep ==
  ASSUME QTypes, NEW M, NEW F, Shape(M, F, prev, next, avail, head, tail, length),
         NEW q \in Queues, NEW e \in Entries, NEW c \in M[q], AddBefore(q, e, c)
  PROVE  QInv'
  <1>1. PICK f : IsList(F, f, avail, next, NULL)
    BY DEF Shape
  <1>2. /\ M \in [Queues -> SUBSET Nodes] /\ F \in SUBSET Nodes
        /\ \A n \in Nodes : n \in F \/ \E r \in Queues : n \in M[r]
        /\ \A r \in Queues : M[r] \cap F = {}
        /\ \A r, s \in Queues : r # s => M[r] \cap M[s] = {}
        /\ \A r \in Queues : IsList(M[r], length[r], head[r], next, NULL)
    BY DEF Shape, Parts
  <1> DEFINE a == avail
             b == prev[c]
  <1>3. /\ a # NULL /\ avail' = next[a] /\ entry' = [entry EXCEPT ![a] = e]
        /\ next' = Set([next EXCEPT ![a] = c], b, a)
        /\ prev' = [prev EXCEPT ![a] = b, ![c] = a]
        /\ head' = IF b = NULL THEN [head EXCEPT ![q] = a] ELSE head
        /\ length' = [length EXCEPT ![q] = @ + 1] /\ result' = Status("E_SUCCESS")
        /\ tail' = tail
    BY DEF AddBefore
  <1>4. /\ b \in M[q] \cup {NULL} /\ (b = NULL <=> c = head[q])
        /\ \A m \in M[q] : next[m] = c <=> m = b
        /\ length[q] # 0
    BY BackLinks
  <1>5. a \in F /\ a \in Nodes /\ a \notin M[q] /\ c \in Nodes /\ c # NULL /\ c # a /\ c # b /\ a # b
    <2>1. a \in F
      BY <1>1, <1>3, ListFacts
    <2>2. \A m \in M[q] : next[m] # m
      BY <1>2, ListFacts
    <2> QED
      BY <1>2, <1>3, <1>4, <2>1, <2>2, NodeFacts
  <1>6. /\ next' \in [Nodes -> Pointers] /\ next'[a] = c
        /\ \A n \in Nodes \ {a} : next'[n] = IF n = b THEN a ELSE next[n]
    <2>1. CASE b = NULL
      <3>1. next' = [next EXCEPT ![a] = c]
        BY <1>3, <2>1 DEF Set
      <3> QED
        BY <1>5, <2>1, <3>1, NodeFacts DEF QTypes
    <2>2. CASE b # NULL
      <3>1. next' = [[next EXCEPT ![a] = c] EXCEPT ![b] = a] /\ b \in Nodes
        BY <1>2, <1>3, <1>4, <2>2 DEF Set
      <3> QED
        BY <1>5, <3>1, NodeFacts DEF QTypes
    <2> QED
      BY <2>1, <2>2
  <1>7. /\ prev' \in [Nodes -> Pointers] /\ prev'[a] = b /\ prev'[c] = a
        /\ \A n \in Nodes \ {a, c} : prev'[n] = prev[n]
    <2>1. b \in Pointers
      BY <1>2, <1>4, NodeFacts
    <2> QED
      BY <1>3, <1>5, <2>1, NodeFacts DEF QTypes
  <1>8. /\ head'[q] = (IF b = NULL THEN a ELSE head[q]) /\ length'[q] = length[q] + 1
        /\ \A r \in Queues \ {q} : head'[r] = head[r] /\ length'[r] = length[r]
    BY <1>3 DEF QTypes
  <1>9. QTypes'
    <2>1. next[a] \in Pointers /\ a \in Pointers /\ "E_SUCCESS" \in Statuses
      BY <1>5, NodeFacts DEF QTypes, Statuses
    <2>2. head' \in [Queues -> Pointers] /\ tail' \in [Queues -> Pointers] /\ length' \in [Queues -> Nat]
      BY <1>3, <2>1 DEF QTypes
    <2>3. entry' \in [Nodes -> Entries \cup {NoEntry}]
      BY <1>3, <1>5 DEF QTypes
    <2> HIDE DEF a, b
    <2> QED
      BY <1>3, <1>6, <1>7, <2>1, <2>2, <2>3, NodeFacts DEF QTypes
  <1> DEFINE G == F \ {a}
             K == [M EXCEPT ![q] = M[q] \cup {a}]
  <1>10. K[q] = M[q] \cup {a} /\ \A r \in Queues \ {q} : K[r] = M[r]
    BY <1>2
  <1>11. Parts(K, G)
    <2>1. K \in [Queues -> SUBSET Nodes] /\ G \in SUBSET Nodes
      BY <1>2, <1>5
    <2>2. \A n \in Nodes : n \in G \/ \E r \in Queues : n \in K[r]
      BY <1>2, <1>10
    <2>3. \A r \in Queues : K[r] \cap G = {}
      BY <1>2, <1>10
    <2>4. \A r, s \in Queues : r # s => K[r] \cap K[s] = {}
      BY <1>2, <1>5, <1>10
    <2> HIDE DEF K, G
    <2> QED
      BY <2>1, <2>2, <2>3, <2>4 DEF Parts
  <1> HIDE DEF K
  <1>12. IsList(G, f - 1, avail', next', NULL)
    <2>1. \A m \in F \ {a} : next[m] # a /\ next'[m] = next[m]
      BY <1>1, <1>2, <1>4, <1>6, NodeFacts, ListFacts
    <2>2. a \in F /\ avail' = next[a] /\ IsList(F, f, a, next, NULL)
      BY <1>1, <1>3, <1>5
    <2> HIDE DEF a
    <2> QED
      BY <2>1, <2>2, TakenOut
  <1>13. IsList(K[q], length'[q], head'[q], next', NULL)
    <2>1. \A m \in M[q] : (next[m] = c => next'[m] = a) /\ (next[m] # c => next'[m] = next[m])
      BY <1>2, <1>4, <1>5, <1>6
    <2>2. (head[q] = c => head'[q] = a) /\ (head[q] # c => head'[q] = head[q])
      BY <1>4, <1>8
    <2>3. IsList(M[q], length[q], head[q], next, NULL) /\ a \notin M[q] /\ a # NULL /\ next'[a] = c
      BY <1>2, <1>3, <1>5, <1>6
    <2>4. length'[q] = length[q] + 1
      BY <1>8
    <2>5. IsList(M[q] \cup {a}, length'[q], head'[q], next', NULL)
      <3> HIDE DEF a
      <3> QED
        BY <2>1, <2>2, <2>3, <2>4, PutBefore
    <2> QED
      BY <1>10, <2>5
  <1>14. ASSUME NEW r \in Queues \ {q}
         PROVE  /\ IsList(K[r], length'[r], head'[r], next', NULL)
                /\ \A n \in M[r] : next'[n] = next[n] /\ n # a /\ n # c /\ n \in Nodes
    <2>1. \A n \in M[r] : next'[n] = next[n] /\ n # a /\ n # c /\ n \in Nodes
      BY <1>2, <1>4, <1>5, <1>6, NodeFacts
    <2>2. IsList(M[r], length[r], head[r], next', NULL)
      BY <1>2, <2>1, SameLinks
    <2> QED
      BY <1>8, <1>10, <2>1, <2>2
  <1>15. /\ tail'[q] \in K[q] /\ next'[tail'[q]] = NULL /\ length'[q] # 0
         /\ head'[q] # NULL => prev'[head'[q]] = NULL
         /\ \A n \in K[q] : next'[n] # NULL => prev'[next'[n]] = n
    <2>1. length'[q] # 0
      BY <1>8 DEF QTypes
    <2>2. /\ tail[q] \in M[q] /\ next[tail[q]] = NULL /\ tail[q] # b
          /\ head[q] \in M[q] /\ prev[head[q]] = NULL
          /\ \A n \in M[q] : next[n] # NULL => prev[next[n]] = n
          /\ \A m \in M[q] : next[m] \in M[q] \cup {NULL}
      <3>1. tail[q] \in M[q] /\ next[tail[q]] = NULL
        BY <1>4 DEF Shape
      <3>2. head[q] \in M[q] /\ head[q] # NULL /\ \A m \in M[q] : next[m] \in M[q] \cup {NULL}
        BY <1>2, <1>4, NodeFacts, ListFacts
      <3> QED
        BY <1>4, <1>5, <3>1, <3>2 DEF Shape
    <2>3. tail'[q] \in K[q] /\ next'[tail'[q]] = NULL
      BY <1>2, <1>3, <1>5, <1>6, <1>10, <2>2
    <2>4. head'[q] # NULL => prev'[head'[q]] = NULL
      BY <1>2, <1>4, <1>5, <1>7, <1>8, <2>2
    <2>5. ASSUME NEW n \in M[q], next'[n] # NULL
          PROVE  prev'[next'[n]] = n
      <3>1. CASE n = b
        BY <1>2, <1>5, <1>6, <1>7, <3>1
      <3>2. CASE n # b
        <4>1. next'[n] = next[n] /\ next[n] \in M[q] /\ next[n] # c /\ prev[next[n]] = n
          BY <1>2, <1>4, <1>5, <1>6, <2>2, <2>5, <3>2
        <4> QED
          BY <1>2, <1>5, <1>7, <4>1
      <3> QED
        BY <3>1, <3>2
    <2>6. prev'[next'[a]] = a
      BY <1>6, <1>7
    <2> QED
      BY <1>10, <2>1, <2>3, <2>4, <2>5, <2>6
  <1>16. ASSUME NEW r \in Queues \ {q}
         PROVE  /\ IF length'[r] = 0 THEN tail'[r] = NULL ELSE tail'[r] \in K[r] /\ next'[tail'[r]] = NULL
                /\ head'[r] # NULL => prev'[head'[r]] = NULL
                /\ \A n \in K[r] : next'[n] # NULL => prev'[next'[n]] = n
    <2>1. /\ IF length[r] = 0 THEN tail[r] = NULL ELSE tail[r] \in M[r] /\ next[tail[r]] = NULL
          /\ head[r] # NULL => prev[head[r]] = NULL
          /\ \A n \in M[r] : next[n] # NULL => prev[next[n]] = n
      BY DEF Shape
    <2>2. head[r] \in M[r] \cup {NULL} /\ \A n \in M[r] : next[n] \in M[r] \cup {NULL}
      BY <1>2, ListFacts
    <2>3. \A n \in M[r] : prev'[n] = prev[n]
      BY <1>7, <1>14
    <2>4. tail'[r] = tail[r]
      BY <1>3
    <2> QED
      BY <1>8, <1>10, <1>14, <2>1, <2>2, <2>3, <2>4
  <1> HIDE DEF G, a, b
  <1>17. Shape(K, G, prev', next', avail', head', tail', length')
    BY <1>11, <1>12, <1>13, <1>14, <1>15, <1>16 DEF Shape
  <1> QED
    BY <1>9, <1>17 DEF QInv

(***************************************************************************)
(* Node n is taken out of a queue, wherever it is, and freed.              *)
(***************************************************************************)
LEMMA UnlinkStep ==
  ASSUME QTypes, NEW M, NEW F, Shape(M, F, prev, next, avail, head, tail, length),
         NEW q \in Queues, NEW n \in M[q], Unlink(q, n)
  PROVE  QInv'
  <1>1. PICK f : IsList(F, f, avail, next, NULL)
    BY DEF Shape
  <1>2. /\ M \in [Queues -> SUBSET Nodes] /\ F \in SUBSET Nodes
        /\ \A m \in Nodes : m \in F \/ \E r \in Queues : m \in M[r]
        /\ \A r \in Queues : M[r] \cap F = {}
        /\ \A r, s \in Queues : r # s => M[r] \cap M[s] = {}
        /\ \A r \in Queues : IsList(M[r], length[r], head[r], next, NULL)
    BY DEF Shape, Parts
  <1> DEFINE b == prev[n]
             d == next[n]
  <1>3. /\ head' = IF b = NULL THEN [head EXCEPT ![q] = d] ELSE head
        /\ tail' = IF d = NULL THEN [tail EXCEPT ![q] = b] ELSE tail
        /\ prev' = Set(prev, d, b)
        /\ length' = [length EXCEPT ![q] = @ - 1] /\ result' = Taken(entry[n])
        /\ avail' = n /\ next' = [Set(next, b, d) EXCEPT ![n] = avail]
        /\ entry' = entry
    BY DEF Unlink, Free
  <1>4. /\ b \in M[q] \cup {NULL} /\ (b = NULL <=> n = head[q])
        /\ \A m \in M[q] : next[m] = n <=> m = b
        /\ (d = NULL <=> n = tail[q]) /\ length[q] # 0
    BY BackLinks
  <1>5. /\ n \in Nodes /\ n # NULL /\ n \notin F /\ d \in M[q] \cup {NULL} /\ d # n /\ b # n
        /\ \A m \in M[q] : next[m] \in M[q] \cup {NULL} /\ next[m] # m
        /\ \A m, k \in M[q] : next[m] = next[k] => m = k
    <2>1. /\ \A m \in M[q] : next[m] \in M[q] \cup {NULL} /\ next[m] # m
          /\ \A m, k \in M[q] : next[m] = next[k] => m = k
      BY <1>2, ListFacts
    <2> QED
      BY <1>2, <1>4, <2>1, NodeFacts
  <1>6. /\ next' \in [Nodes -> Pointers] /\ next'[n] = avail
        /\ \A m \in Nodes \ {n} : next'[m] = IF m = b THEN d ELSE next[m]
    <2>1. CASE b = NULL
      <3>1. next' = [next EXCEPT ![n] = avail]
        BY <1>3, <2>1 DEF Set
      <3> QED
        BY <1>5, <2>1, <3>1, NodeFacts DEF QTypes
    <2>2. CASE b # NULL
      <3>1. next' = [[next EXCEPT ![b] = d] EXCEPT ![n] = avail] /\ b \in Nodes /\ d \in Pointers
        BY <1>2, <1>3, <1>4, <1>5, <2>2, NodeFacts DEF Set
      <3> QED
        BY <1>5, <3>1 DEF QTypes
    <2> QED
      BY <2>1, <2>2
  <1>7. /\ prev' \in [Nodes -> Pointers] /\ (d # NULL => prev'[d] = b)
        /\ \A m \in Nodes \ {d} : prev'[m] = prev[m]
    <2>1. CASE d = NULL
      BY <1>3, <2>1 DEF Set, QTypes
    <2>2. CASE d # NULL
      <3>1. prev' = [prev EXCEPT ![d] = b] /\ d \in Nodes /\ b \in Pointers
        BY <1>2, <1>3, <1>4, <1>5, <2>2, NodeFacts DEF Set
      <3> QED
        BY <3>1 DEF QTypes
    <2> QED
      BY <2>1, <2>2
  <1>8. /\ head'[q] = (IF b = NULL THEN d ELSE head[q]) /\ tail'[q] = (IF d = NULL THEN b ELSE tail[q])
        /\ length'[q] = length[q] - 1
        /\ \A r \in Queues \ {q} : head'[r] = head[r] /\ tail'[r] = tail[r] /\ length'[r] = length[r]
    BY <1>3 DEF QTypes
  <1>9. QTypes'
    <2>1. n \in Pointers /\ b \in Pointers /\ d \in Pointers /\ entry[n] \in Entries \cup {NoEntry}
      BY <1>2, <1>4, <1>5, NodeFacts DEF QTypes
    <2>2. length[q] - 1 \in Nat
      BY <1>4 DEF QTypes
    <2>3. length' \in [Queues -> Nat]
      BY <1>3, <2>2 DEF QTypes
    <2>4. head' \in [Queues -> Pointers] /\ tail' \in [Queues -> Pointers]
      BY <1>3, <2>1 DEF QTypes
    <2>5. Taken(entry[n]) \in [status : Statuses, entry : Entries \cup {NoEntry}]
      BY <2>1, NodeFacts
    <2> QED
      BY <1>3, <1>6, <1>7, <2>1, <2>3, <2>4, <2>5 DEF QTypes
  <1> DEFINE G == F \cup {n}
             K == [M EXCEPT ![q] = M[q] \ {n}]
  <1>10. K[q] = M[q] \ {n} /\ \A r \in Queues \ {q} : K[r] = M[r]
    BY <1>2
  <1>11. Parts(K, G)
    <2>1. K \in [Queues -> SUBSET Nodes] /\ G \in SUBSET Nodes
      BY <1>2, <1>5
    <2>2. \A m \in Nodes : m \in G \/ \E r \in Queues : m \in K[r]
      BY <1>2, <1>10
    <2>3. \A r \in Queues : K[r] \cap G = {}
      BY <1>2, <1>10
    <2>4. \A r, s \in Queues : r # s => K[r] \cap K[s] = {}
      BY <1>2, <1>10
    <2> HIDE DEF K, G
    <2> QED
      BY <2>1, <2>2, <2>3, <2>4 DEF Parts
  <1> HIDE DEF K
  <1>12. IsList(G, f + 1, avail', next', NULL)
    <2>1. \A m \in F : next'[m] = next[m]
      BY <1>2, <1>4, <1>5, <1>6, NodeFacts
    <2>2. IsList(F, f, avail, next, NULL) /\ n \notin F /\ n # NULL /\ next'[n] = avail
      BY <1>1, <1>5, <1>6
    <2>3. IsList(F \cup {n}, f + 1, n, next', NULL)
      BY <2>1, <2>2, PutFirst
    <2> QED
      BY <1>3, <2>3
  <1>13. IsList(K[q], length'[q], head'[q], next', NULL)
    <2>1. \A m \in M[q] \ {n} : (next[m] = n => next'[m] = next[n]) /\ (next[m] # n => next'[m] = next[m])
      BY <1>2, <1>4, <1>6
    <2>2. (head[q] = n => head'[q] = next[n]) /\ (head[q] # n => head'[q] = head[q])
      BY <1>4, <1>8
    <2>3. IsList(M[q] \ {n}, length'[q], head'[q], next', NULL)
      BY <1>2, <1>8, <2>1, <2>2, TakenOut
    <2> QED
      BY <1>10, <2>3
  <1>14. ASSUME NEW r \in Queues \ {q}
         PROVE  /\ IsList(K[r], length'[r], head'[r], next', NULL)
                /\ \A m \in M[r] : next'[m] = next[m] /\ prev'[m] = prev[m]
    <2>1. \A m \in M[r] : next'[m] = next[m] /\ prev'[m] = prev[m]
      BY <1>2, <1>4, <1>5, <1>6, <1>7, NodeFacts
    <2>2. IsList(M[r], length[r], head[r], next', NULL)
      BY <1>2, <2>1, SameLinks
    <2> QED
      BY <1>8, <1>10, <2>1, <2>2
  <1>15. /\ IF length'[q] = 0 THEN tail'[q] = NULL ELSE tail'[q] \in K[q] /\ next'[tail'[q]] = NULL
         /\ head'[q] # NULL => prev'[head'[q]] = NULL
         /\ \A m \in K[q] : next'[m] # NULL => prev'[next'[m]] = m
    <2>1. /\ tail[q] \in M[q] /\ next[tail[q]] = NULL /\ head[q] \in M[q] /\ prev[head[q]] = NULL
          /\ \A m \in M[q] : next[m] # NULL => prev[next[m]] = m
      <3>1. tail[q] \in M[q] /\ next[tail[q]] = NULL
        BY <1>4 DEF Shape
      <3>2. head[q] \in M[q] /\ head[q] # NULL
        BY <1>2, <1>4, NodeFacts, ListFacts
      <3> QED
        BY <3>1, <3>2 DEF Shape
    <2>2. IF length'[q] = 0 THEN K[q] = {} ELSE head'[q] \in K[q]
      BY <1>13, ListFacts
    <2>3. ASSUME length'[q] = 0
          PROVE  tail'[q] = NULL
      <3>1. M[q] = {n}
        BY <1>10, <2>2, <2>3
      <3> QED
        BY <1>4, <1>5, <1>8, <2>1, <3>1
    <2>4. ASSUME length'[q] # 0
          PROVE  tail'[q] \in K[q] /\ next'[tail'[q]] = NULL
      <3>1. CASE d = NULL
        <4>1. b # NULL
          <5>1. ASSUME b = NULL PROVE FALSE
            <6>1. head'[q] = NULL
              BY <1>8, <3>1, <5>1
            <6> QED
              BY <1>2, <1>10, <2>2, <2>4, <6>1, NodeFacts
          <5> QED
            BY <5>1
        <4> QED
          BY <1>2, <1>4, <1>5, <1>6, <1>8, <1>10, <3>1, <4>1
      <3>2. CASE d # NULL
        <4>1. tail[q] # n /\ tail[q] # b
          BY <1>4, <1>5, <2>1, <3>2
        <4> QED
          BY <1>2, <1>6, <1>8, <1>10, <2>1, <3>2, <4>1
      <3> QED
        BY <3>1, <3>2
    <2>5. head'[q] # NULL => prev'[head'[q]] = NULL
      <3>1. CASE b = NULL
        BY <1>7, <1>8, <3>1
      <3>2. CASE b # NULL
        <4>1. head[q] # d
          <5>1. \A m \in M[q] : next[m] # head[q]
            BY <1>2, ListFacts
          <5> QED
            BY <5>1
        <4> QED
          BY <1>2, <1>7, <1>8, <2>1, <3>2, <4>1
      <3> QED
        BY <3>1, <3>2
    <2>6. ASSUME NEW m \in M[q] \ {n}, next'[m] # NULL
          PROVE  prev'[next'[m]] = m
      <3>1. CASE m = b
        BY <1>2, <1>6, <1>7, <2>6, <3>1
      <3>2. CASE m # b
        <4>1. next'[m] = next[m] /\ next[m] \in M[q] /\ next[m] # d /\ prev[next[m]] = m
          BY <1>2, <1>5, <1>6, <2>1, <2>6, <3>2
        <4> QED
          BY <1>2, <1>7, <4>1
      <3> QED
        BY <3>1, <3>2
    <2> QED
      BY <1>10, <2>3, <2>4, <2>5, <2>6
  <1>16. ASSUME NEW r \in Queues \ {q}
         PROVE  /\ IF length'[r] = 0 THEN tail'[r] = NULL ELSE tail'[r] \in K[r] /\ next'[tail'[r]] = NULL
                /\ head'[r] # NULL => prev'[head'[r]] = NULL
                /\ \A m \in K[r] : next'[m] # NULL => prev'[next'[m]] = m
    <2>1. /\ IF length[r] = 0 THEN tail[r] = NULL ELSE tail[r] \in M[r] /\ next[tail[r]] = NULL
          /\ head[r] # NULL => prev[head[r]] = NULL
          /\ \A m \in M[r] : next[m] # NULL => prev[next[m]] = m
      BY DEF Shape
    <2>2. head[r] \in M[r] \cup {NULL} /\ \A m \in M[r] : next[m] \in M[r] \cup {NULL}
      BY <1>2, ListFacts
    <2> QED
      BY <1>8, <1>10, <1>14, <2>1, <2>2
  <1> HIDE DEF G, b, d
  <1>17. Shape(K, G, prev', next', avail', head', tail', length')
    BY <1>11, <1>12, <1>13, <1>14, <1>15, <1>16 DEF Shape
  <1> QED
    BY <1>9, <1>17 DEF QInv

-----------------------------------------------------------------------------
(***************************************************************************)
(* Where _q_insert inserts, and what _q_remove_by_key finds, is a node of  *)
(* the queue or none.                                                      *)
(***************************************************************************)
LEMMA PlaceIn ==
  ASSUME NEW M, NEW F, Shape(M, F, prev, next, avail, head, tail, length), NEW q \in Queues, NEW e
  PROVE  Place(q, e) \in M[q] \cup {NULL}
  <1> DEFINE Stops(i) == IF Walk(q)[i] = NULL THEN TRUE ELSE entry[Walk(q)[i]].key > e.key
             First(i) == Stops(i) /\ \A j \in 0..(i - 1) : ~ Stops(j)
             St == {i \in 0..N_QNODES : Stops(i)}
  <1>1. CASE Empty(q) \/ Discipline[q] = "fifo"
    BY <1>1 DEF Place
  <1>2. CASE ~ (Empty(q) \/ Discipline[q] = "fifo")
    <2>1. Place(q, e) = Walk(q)[CHOOSE i \in 0..N_QNODES : First(i)]
      BY <1>2 DEF Place, Search
    <2>2. length[q] \in St /\ St \in SUBSET (0..N_QNODES) /\ N_QNODES \in Nat
      BY WalkSees, NodeFacts
    <2>3. PICK i \in 0..N_QNODES : i \in St /\ \A j \in 0..(i - 1) : j \notin St
      <3> HIDE DEF St
      <3> QED
        BY <2>2, FirstStop
    <2>4. First(i)
      BY <2>2, <2>3
    <2>5. (CHOOSE k \in 0..N_QNODES : First(k)) \in 0..N_QNODES
      <3> HIDE DEF First
      <3> QED
        BY <2>4
    <2> QED
      BY <2>1, <2>5, WalkSees
  <1> QED
    BY <1>1, <1>2

\* The node of a key, for the calls that take one by its key.
Found(q, k) == Search(q, LAMBDA m : Matches(q, m, k))

(***************************************************************************)
(* A node found by its key is one of the queue, if any is found.           *)
(***************************************************************************)
LEMMA FoundIn ==
  ASSUME NEW M, NEW F, Shape(M, F, prev, next, avail, head, tail, length), NEW q \in Queues, NEW k
  PROVE  Found(q, k) \in M[q] \cup {NULL}
  <1> DEFINE Stops(i) == IF Walk(q)[i] = NULL THEN TRUE ELSE Matches(q, Walk(q)[i], k)
             First(i) == Stops(i) /\ \A j \in 0..(i - 1) : ~ Stops(j)
             St == {i \in 0..N_QNODES : Stops(i)}
  <1>1. Found(q, k) = Walk(q)[CHOOSE i \in 0..N_QNODES : First(i)]
    BY DEF Found, Search
  <1>2. length[q] \in St /\ St \in SUBSET (0..N_QNODES) /\ N_QNODES \in Nat
    BY WalkSees, NodeFacts
  <1>3. PICK i \in 0..N_QNODES : i \in St /\ \A j \in 0..(i - 1) : j \notin St
    <2> HIDE DEF St
    <2> QED
      BY <1>2, FirstStop
  <1>4. First(i)
    BY <1>2, <1>3
  <1>5. (CHOOSE j \in 0..N_QNODES : First(j)) \in 0..N_QNODES
    <2> HIDE DEF First
    <2> QED
      BY <1>4
  <1> QED
    BY <1>1, <1>5, WalkSees

(***************************************************************************)
(* The first node of a queue goes the way any other does.                  *)
(***************************************************************************)
LEMMA UnlinkFirstStep ==
  ASSUME QInv, NEW q \in Queues, UnlinkFirst(q)
  PROVE  QInv'
  <1>1. PICK M, F : Shape(M, F, prev, next, avail, head, tail, length)
    BY DEF QInv
  <1> DEFINE n == head[q]
  <1>2. n \in M[q] /\ prev[n] = NULL
    <2>1. IsList(M[q], length[q], head[q], next, NULL) /\ NULL \notin M[q]
      BY <1>1, NodeFacts DEF Shape, Parts
    <2>2. length[q] # 0
      BY DEF UnlinkFirst, Empty
    <2>3. n \in M[q]
      BY <2>1, <2>2, ListFacts
    <2> QED
      BY <1>1, <2>1, <2>3 DEF Shape
  <1>3. Unlink(q, n)
    BY <1>2 DEF UnlinkFirst, Unlink, Free, Set
  <1> QED
    BY <1>1, <1>2, <1>3, UnlinkStep DEF QInv

(***************************************************************************)
(* Every call keeps the invariant.                                         *)
(***************************************************************************)
LEMMA QStep == QInv /\ [QueueNext]_queueVars => QInv'
  <1> SUFFICES ASSUME QInv, [QueueNext]_queueVars PROVE QInv'
    OBVIOUS
  <1>1. PICK M, F : Shape(M, F, prev, next, avail, head, tail, length)
    BY DEF QInv
  <1>2. "E_NO_QNODES" \in Statuses /\ "E_EMPTY" \in Statuses /\ "E_NOT_FOUND" \in Statuses
    BY DEF Statuses
  <1>3. NoNodes => QInv'
    BY <1>2, LinksKept, NodeFacts DEF NoNodes
  <1>4. \A q \in Queues : FoundEmpty(q) => QInv'
    BY <1>2, LinksKept, NodeFacts DEF FoundEmpty
  <1>5. ASSUME NEW q \in Queues, NEW e \in Entries, QAppend(q, e) \/ Insert(q, e)
        PROVE  QInv'
    <2>1. CASE QAppend(q, e)
      BY <1>3, <2>1, AddLastStep DEF QAppend
    <2>2. CASE Insert(q, e) /\ Place(q, e) = NULL
      BY <1>3, <2>2, AddLastStep DEF Insert
    <2>3. CASE Insert(q, e) /\ Place(q, e) # NULL
      <3>1. Place(q, e) \in M[q]
        BY <1>1, <2>3, PlaceIn
      <3>2. AddBefore(q, e, Place(q, e)) => QInv'
        BY <1>1, <3>1, AddBeforeStep DEF QInv
      <3> QED
        BY <1>3, <2>3, <3>2 DEF Insert
    <2> QED
      BY <1>5, <2>1, <2>2, <2>3
  <1>6. ASSUME NEW q \in Queues, Remove(q)
        PROVE  QInv'
    BY <1>4, <1>6, UnlinkFirstStep DEF Remove
  <1>7. ASSUME NEW q \in Queues, NEW k \in Keys, RemoveByKey(q, k)
        PROVE  QInv'
    <2> DEFINE n == Found(q, k)
    <2>1. n \in M[q] \cup {NULL}
      BY <1>1, FoundIn
    <2>2. \/ FoundEmpty(q)
          \/ UnlinkFirst(q)
          \/ result' = Status("E_NOT_FOUND") /\ UNCHANGED <<entry, links>>
          \/ n # NULL /\ Unlink(q, n)
      BY <1>7 DEF RemoveByKey, Found
    <2> HIDE DEF n
    <2>3. n # NULL /\ Unlink(q, n) => QInv'
      BY <1>1, <2>1, UnlinkStep DEF QInv
    <2>4. result' = Status("E_NOT_FOUND") /\ UNCHANGED <<entry, links>> => QInv'
      BY <1>2, LinksKept, NodeFacts
    <2> QED
      BY <1>4, <2>2, <2>3, <2>4, UnlinkFirstStep
  <1>8. CASE UNCHANGED queueVars
    BY <1>8 DEF QInv, QTypes, queueVars, links
  <1> QED
    BY <1>5, <1>6, <1>7, <1>8 DEF QueueNext

LEMMA QAlways == QueueSpec => []QInv
  BY QInitInv, QStep, PTL DEF QueueSpec

(***************************************************************************)
(* A node of the pool is in one queue or in the free list, always, for any *)
(* number of nodes and queues: _qnode_alloc, _qnode_free and the calls     *)
(* that link lose none, and no call leaves one in two places.              *)
(***************************************************************************)
THEOREM NoNodeLost == QueueSpec => []NodesConserved
  <1>1. QInv => NodesConserved
    <2> SUFFICES ASSUME QInv PROVE NodesConserved
      OBVIOUS
    <2>1. PICK M, F : Shape(M, F, prev, next, avail, head, tail, length)
      BY DEF QInv
    <2>2. FreeNodes = F /\ \A q \in Queues : NodesOf(q) = M[q]
      BY <2>1, FreeSees, WalkSees
    <2>3. Parts(M, F)
      BY <2>1 DEF Shape
    <2> QED
      BY <2>2, <2>3 DEF NodesConserved, Parts
  <1> QED
    BY <1>1, QAlways, PTL

(***************************************************************************)
(* The length, the tail and the links back agree with the links forward,   *)
(* after any calls: of _q_insert in the middle, of _q_remove_by_key at     *)
(* either end, of _q_append to a queue that was emptied.                   *)
(***************************************************************************)
THEOREM LinksAgree == QueueSpec => []Linked
  <1>1. QInv => Linked
    <2> SUFFICES ASSUME QInv, NEW q \in Queues
                 PROVE  /\ length[q] = Cardinality(NodesOf(q))
                        /\ Empty(q) => head[q] = NULL /\ tail[q] = NULL
                        /\ ~ Empty(q) => /\ tail[q] \in NodesOf(q) /\ next[tail[q]] = NULL
                                         /\ prev[head[q]] = NULL
                        /\ \A n \in NodesOf(q) : next[n] # NULL => prev[next[n]] = n
      BY DEF Linked
    <2>1. PICK M, F : Shape(M, F, prev, next, avail, head, tail, length)
      BY DEF QInv
    <2>2. NodesOf(q) = M[q]
      BY <2>1, WalkSees
    <2>3. IsList(M[q], length[q], head[q], next, NULL) /\ NULL \notin M[q]
      BY <2>1, NodeFacts DEF Shape, Parts
    <2>4. length[q] = Cardinality(M[q])
      BY <2>3, Counted
    <2>5. IF length[q] = 0 THEN head[q] = NULL ELSE head[q] \in M[q]
      BY <2>3, ListFacts
    <2>6. Empty(q) <=> length[q] = 0
      BY DEF Empty, QInv, QTypes
    <2> QED
      BY <2>1, <2>2, <2>3, <2>4, <2>5, <2>6 DEF Shape
  <1> QED
    BY <1>1, QAlways, PTL

-----------------------------------------------------------------------------
(* queue.c: the sequences that the lists are *)

\* The nodes s[1], ..., s[len] are linked in this order, from the first one on.
Row(s, len, first, nx) ==
  /\ len \in Nat /\ s \in [1..len -> Nodes]
  /\ \A i, j \in 1..len : s[i] = s[j] => i = j
  /\ IF len = 0 THEN first = NULL ELSE first = s[1] /\ nx[s[len]] = NULL
  /\ \A i \in 1..len : i # len => nx[s[i]] = s[i + 1]

\* x put in before place k; the one at place k left out.
Put(s, len, k, x) == [i \in 1..(len + 1) |-> IF i < k THEN s[i] ELSE IF i = k THEN x ELSE s[i - 1]]
Drop(s, len, k) == [i \in 1..(len - 1) |-> IF i < k THEN s[i] ELSE s[i + 1]]

(***************************************************************************)
(* A node linked in before place k of a row, or behind its last, makes the *)
(* longer row.                                                             *)
(***************************************************************************)
LEMMA RowPut ==
  ASSUME NEW s, NEW len, NEW first, NEW nx, Row(s, len, first, nx),
         NEW n \in Nodes, \A i \in 1..len : s[i] # n,
         NEW k \in 1..(len + 1),
         NEW head1, k = 1 => head1 = n, k # 1 => head1 = first,
         NEW to, k = len + 1 => to[n] = NULL, k # len + 1 => to[n] = s[k],
         \A i \in 1..len : IF i = k - 1 THEN to[s[i]] = n ELSE to[s[i]] = nx[s[i]]
  PROVE  Row(Put(s, len, k, n), len + 1, head1, to)
  <1> DEFINE t == Put(s, len, k, n)
             l == len + 1
  <1>0. len \in Nat /\ k \in Nat /\ l \in Nat /\ l # 0 /\ l - 1 = len /\ 1 \in 1..l /\ l \in 1..l
          /\ k \in 1..l
    BY DEF Row
  <1>1. \A i \in 1..l : t[i] = IF i < k THEN s[i] ELSE IF i = k THEN n ELSE s[i - 1]
    BY DEF Put
  <1>2. \A i \in 1..l : (i < k => i \in 1..len) /\ (i > k => i - 1 \in 1..len) /\ (i < k \/ i = k \/ i > k)
    BY <1>0
  <1>3. t \in [1..l -> Nodes]
    <2>1. t = [i \in 1..l |-> t[i]]
      BY DEF Put
    <2>2. \A i \in 1..l : t[i] \in Nodes
      BY <1>0, <1>1, <1>2 DEF Row
    <2> QED
      BY <2>1, <2>2
  <1>4. \A i, j \in 1..l : t[i] = t[j] => i = j
    <2> SUFFICES ASSUME NEW i \in 1..l, NEW j \in 1..l, t[i] = t[j] PROVE i = j
      OBVIOUS
    <2>1. \A a, b \in 1..len : s[a] = s[b] => a = b
      BY DEF Row
    <2>2. CASE i < k
      BY <1>0, <1>1, <1>2, <2>1, <2>2
    <2>3. CASE i = k
      BY <1>0, <1>1, <1>2, <2>1, <2>3
    <2>4. CASE i > k
      BY <1>0, <1>1, <1>2, <2>1, <2>4
    <2> QED
      BY <1>2, <2>2, <2>3, <2>4
  <1>5. head1 = t[1]
    <2>1. CASE k = 1
      BY <1>0, <1>1, <2>1
    <2>2. CASE k # 1
      <3>1. len # 0 /\ 1 < k
        BY <1>0, <2>2
      <3> QED
        BY <1>0, <1>1, <2>2, <3>1 DEF Row
    <2> QED
      BY <2>1, <2>2
  <1>6. to[t[l]] = NULL
    <2>1. CASE k = l
      BY <1>0, <1>1, <2>1
    <2>2. CASE k # l
      <3>1. len # 0 /\ k < l /\ len \in 1..len /\ len # k - 1
        BY <1>0, <2>2
      <3>2. t[l] = s[len]
        BY <1>0, <1>1, <3>1
      <3> QED
        BY <3>1, <3>2 DEF Row
    <2> QED
      BY <2>1, <2>2
  <1>7. \A i \in 1..l : i # l => to[t[i]] = t[i + 1]
    <2> SUFFICES ASSUME NEW i \in 1..l, i # l PROVE to[t[i]] = t[i + 1]
      OBVIOUS
    <2>1. i \in Nat /\ i + 1 \in 1..l
      BY <1>0
    <2>2. CASE i < k
      <3>1. i \in 1..len /\ t[i] = s[i]
        BY <1>1, <1>2, <2>2
      <3>2. CASE i = k - 1
        <4>1. t[i + 1] = n
          BY <1>0, <1>1, <2>1, <3>2
        <4> QED
          BY <3>1, <3>2, <4>1
      <3>3. CASE i # k - 1
        <4>1. i + 1 < k /\ i # len
          BY <1>0, <2>1, <2>2, <3>3
        <4>2. t[i + 1] = s[i + 1]
          BY <1>1, <2>1, <4>1
        <4> QED
          BY <3>1, <3>3, <4>1, <4>2 DEF Row
      <3> QED
        BY <3>2, <3>3
    <2>3. CASE i = k
      <3>1. k # len + 1 /\ ~ (i + 1 < k) /\ i + 1 # k /\ (i + 1) - 1 = k
        BY <1>0, <2>3
      <3>2. t[i] = n /\ t[i + 1] = s[k]
        BY <1>1, <2>1, <2>3, <3>1
      <3> QED
        BY <3>1, <3>2
    <2>4. CASE i > k
      <3>1. /\ i - 1 \in 1..len /\ i - 1 # k - 1 /\ ~ (i < k) /\ i # k /\ i - 1 # len
            /\ ~ (i + 1 < k) /\ i + 1 # k /\ (i + 1) - 1 = i /\ (i - 1) + 1 = i
        BY <1>0, <2>1, <2>4
      <3>2. t[i] = s[i - 1] /\ t[i + 1] = s[i]
        BY <1>1, <2>1, <3>1
      <3>3. to[s[i - 1]] = nx[s[i - 1]]
        BY <3>1
      <3>4. nx[s[i - 1]] = s[i]
        <4>1. \A j \in 1..len : j # len => nx[s[j]] = s[j + 1]
          BY DEF Row
        <4>2. nx[s[i - 1]] = s[(i - 1) + 1]
          BY <4>1, <3>1
        <4> QED
          BY <4>2, <3>1
      <3> QED
        BY <3>2, <3>3, <3>4
    <2> QED
      BY <1>2, <2>2, <2>3, <2>4
  <1> HIDE DEF t
  <1>8. Row(t, l, head1, to)
    BY <1>0, <1>3, <1>4, <1>5, <1>6, <1>7 DEF Row
  <1> QED
    BY <1>8 DEF t

(***************************************************************************)
(* The link past place k makes the shorter row.                            *)
(***************************************************************************)
LEMMA RowDrop ==
  ASSUME NEW s, NEW len, NEW first, NEW nx, Row(s, len, first, nx),
         NEW k \in 1..len,
         NEW head1, k = 1 => head1 = nx[s[k]], k # 1 => head1 = first,
         NEW to,
         \A i \in 1..len : i # k => IF i = k - 1 THEN to[s[i]] = nx[s[k]] ELSE to[s[i]] = nx[s[i]]
  PROVE  Row(Drop(s, len, k), len - 1, head1, to)
  <1> DEFINE t == Drop(s, len, k)
             l == len - 1
  <1>0. len \in Nat /\ k \in Nat /\ l \in Nat /\ l + 1 = len /\ k <= len /\ 1 <= k
    BY DEF Row
  <1>1. \A i \in 1..l : t[i] = IF i < k THEN s[i] ELSE s[i + 1]
    BY DEF Drop
  <1>2. \A i \in 1..l : i \in Nat /\ i \in 1..len /\ i + 1 \in 1..len
    BY <1>0
  <1>3. t \in [1..l -> Nodes]
    <2>1. t = [i \in 1..l |-> t[i]]
      BY DEF Drop
    <2>2. \A i \in 1..l : t[i] \in Nodes
      BY <1>1, <1>2 DEF Row
    <2> QED
      BY <2>1, <2>2
  <1>4. \A i, j \in 1..l : t[i] = t[j] => i = j
    <2> SUFFICES ASSUME NEW i \in 1..l, NEW j \in 1..l, t[i] = t[j] PROVE i = j
      OBVIOUS
    <2>1. \A a, b \in 1..len : s[a] = s[b] => a = b
      BY DEF Row
    <2>2. CASE i < k
      BY <1>0, <1>1, <1>2, <2>1, <2>2
    <2>3. CASE ~ (i < k)
      BY <1>0, <1>1, <1>2, <2>1, <2>3
    <2> QED
      BY <2>2, <2>3
  <1>a. \A i \in 1..len : i # len => nx[s[i]] = s[i + 1]
    BY DEF Row
  <1>5. IF l = 0 THEN head1 = NULL ELSE head1 = t[1]
    <2>1. CASE k = 1
      <3>1. CASE l = 0
        <4>1. k = len
          BY <1>0, <2>1, <3>1
        <4> QED
          BY <1>0, <2>1, <3>1, <4>1 DEF Row
      <3>2. CASE l # 0
        <4>1. k # len /\ 1 \in 1..l /\ ~ (1 < k)
          BY <1>0, <2>1, <3>2
        <4>2. head1 = s[1 + 1] /\ t[1] = s[1 + 1]
          BY <1>1, <1>a, <2>1, <4>1
        <4> QED
          BY <3>2, <4>2
      <3> QED
        BY <3>1, <3>2
    <2>2. CASE k # 1
      <3>1. l # 0 /\ 1 \in 1..l /\ 1 < k /\ len # 0
        BY <1>0, <2>2
      <3>2. t[1] = s[1]
        BY <1>1, <3>1
      <3> QED
        BY <2>2, <3>1, <3>2 DEF Row
    <2> QED
      BY <2>1, <2>2
  <1>6. l # 0 => to[t[l]] = NULL
    <2> SUFFICES ASSUME l # 0 PROVE to[t[l]] = NULL
      OBVIOUS
    <2>1. l \in 1..l /\ l \in 1..len /\ len \in 1..len /\ len # 0 /\ l # len
      BY <1>0
    <2>0. nx[s[len]] = NULL
      BY <2>1 DEF Row
    <2>2. CASE k = len
      <3>1. l < k /\ l = k - 1 /\ l # k
        BY <1>0, <2>2
      <3>2. t[l] = s[l]
        BY <1>1, <2>1, <3>1
      <3>3. to[s[l]] = nx[s[k]]
        BY <2>1, <3>1
      <3> QED
        BY <2>0, <2>2, <3>2, <3>3
    <2>3. CASE k # len
      <3>1. ~ (l < k) /\ len # k - 1
        BY <1>0, <2>3
      <3>2. t[l] = s[len]
        BY <1>0, <1>1, <2>1, <3>1
      <3>3. to[s[len]] = nx[s[len]]
        BY <2>1, <2>3, <3>1
      <3> QED
        BY <2>0, <3>2, <3>3
    <2> QED
      BY <2>2, <2>3
  <1>7. \A i \in 1..l : i # l => to[t[i]] = t[i + 1]
    <2> SUFFICES ASSUME NEW i \in 1..l, i # l PROVE to[t[i]] = t[i + 1]
      OBVIOUS
    <2>1. i \in Nat /\ i + 1 \in 1..l /\ i \in 1..len /\ i + 1 \in 1..len /\ i # len /\ i + 1 # len
      BY <1>0
    <2>2. nx[s[i]] = s[i + 1] /\ nx[s[i + 1]] = s[(i + 1) + 1]
      BY <1>a, <2>1
    <2>3. CASE i < k /\ i # k - 1
      <3>1. i + 1 < k /\ i # k
        BY <1>0, <2>1, <2>3
      <3>2. t[i] = s[i] /\ t[i + 1] = s[i + 1]
        BY <1>1, <2>1, <2>3, <3>1
      <3>3. to[s[i]] = nx[s[i]]
        BY <2>1, <2>3, <3>1
      <3> QED
        BY <2>2, <3>2, <3>3
    <2>4. CASE i < k /\ i = k - 1
      <3>1. ~ (i + 1 < k) /\ i # k /\ k = i + 1
        BY <1>0, <2>1, <2>4
      <3>2. t[i] = s[i] /\ t[i + 1] = s[(i + 1) + 1]
        BY <1>1, <2>1, <2>4, <3>1
      <3>3. to[s[i]] = nx[s[k]]
        BY <2>1, <2>4, <3>1
      <3> QED
        BY <2>2, <3>1, <3>2, <3>3
    <2>5. CASE ~ (i < k)
      <3>1. ~ (i + 1 < k) /\ i + 1 # k /\ i + 1 # k - 1
        BY <1>0, <2>1, <2>5
      <3>2. t[i] = s[i + 1] /\ t[i + 1] = s[(i + 1) + 1]
        BY <1>1, <2>1, <2>5, <3>1
      <3>3. to[s[i + 1]] = nx[s[i + 1]]
        BY <2>1, <3>1
      <3> QED
        BY <2>2, <3>2, <3>3
    <2> QED
      BY <2>3, <2>4, <2>5
  <1> HIDE DEF t
  <1>8. Row(t, l, head1, to)
    BY <1>0, <1>3, <1>4, <1>5, <1>6, <1>7 DEF Row
  <1> QED
    BY <1>8 DEF t

\* Where a traversal is after each of its steps.
Steps(first, nx) ==
  LET at[i \in 0..N_QNODES] ==
        IF i = 0 THEN first
        ELSE LET n == at[i - 1] IN IF n = NULL THEN NULL ELSE nx[n]
  IN  at

(***************************************************************************)
(* The recursive function that Steps chooses is one.                       *)
(***************************************************************************)
LEMMA StepsThere ==
  ASSUME NEW first, NEW nx
  PROVE  Traversal(Steps(first, nx), N_QNODES, first, nx, NULL)
  <1>1. PICK f : Traversal(f, N_QNODES, first, nx, NULL)
    BY NodeFacts, TraversalExists
  <1> DEFINE Is(h) == h = [i \in 0..N_QNODES |-> IF i = 0 THEN first
                             ELSE LET n == h[i - 1] IN IF n = NULL THEN NULL ELSE nx[n]]
  <1>2. Is(f)
    BY <1>1 DEF Traversal
  <1>3. Steps(first, nx) = CHOOSE g : Is(g)
    BY DEF Steps
  <1> HIDE DEF Is
  <1>4. Is(Steps(first, nx))
    BY <1>2, <1>3, Zenon
  <1> QED
    BY <1>4 DEF Traversal, Is

(***************************************************************************)
(* No row is longer than there are nodes.                                  *)
(***************************************************************************)
LEMMA RowShort ==
  ASSUME NEW s, NEW len, NEW first, NEW nx, Row(s, len, first, nx)
  PROVE  len \in Nat /\ len <= N_QNODES
  <1>1. len \in Nat /\ s \in Injection(1..len, Nodes)
    BY DEF Row, Injection, IsInjective
  <1>2. IsFiniteSet(Nodes) /\ Cardinality(Nodes) = N_QNODES
    BY NodeFacts, FS_Interval DEF Nodes
  <1>3. Cardinality(1..len) = len
    BY <1>1, FS_Interval
  <1>4. Cardinality(1..len) <= Cardinality(Nodes)
    BY <1>1, <1>2, FS_Injection
  <1> QED
    BY <1>1, <1>2, <1>3, <1>4

(***************************************************************************)
(* A traversal meets the nodes of a row in their order.                    *)
(***************************************************************************)
LEMMA RowSteps ==
  ASSUME NEW s, NEW len, NEW first, NEW nx, Row(s, len, first, nx)
  PROVE  \A i \in 1..len : Steps(first, nx)[i - 1] = s[i]
  <1> DEFINE at == Steps(first, nx)
             T == {i \in Nat : i < len => at[i] = s[i + 1]}
  <1>1. Traversal(at, N_QNODES, first, nx, NULL) /\ N_QNODES \in Nat
    BY StepsThere, NodeFacts
  <1>2. len \in Nat /\ len <= N_QNODES
    BY RowShort
  <1>3. at = [i \in 0..N_QNODES |-> IF i = 0 THEN first ELSE IF at[i - 1] = NULL THEN NULL ELSE nx[at[i - 1]]]
    BY <1>1 DEF Traversal
  <1> HIDE DEF at
  <1>4. 0 \in T
    <2>1. at[0] = first
      BY <1>1, <1>3
    <2> QED
      BY <1>2, <2>1 DEF Row
  <1>5. ASSUME NEW i \in T PROVE i + 1 \in T
    <2> SUFFICES ASSUME i + 1 < len PROVE at[i + 1] = s[(i + 1) + 1]
      OBVIOUS
    <2>1. /\ i \in Nat /\ i < len /\ i + 1 \in 0..N_QNODES /\ i + 1 # 0 /\ (i + 1) - 1 = i
          /\ i + 1 \in 1..len /\ i + 1 # len
      BY <1>1, <1>2
    <2>2. at[i] = s[i + 1]
      BY <1>5, <2>1
    <2>3. s[i + 1] \in Nodes /\ nx[s[i + 1]] = s[(i + 1) + 1]
      BY <2>1 DEF Row
    <2>4. at[i + 1] = IF at[i] = NULL THEN NULL ELSE nx[at[i]]
      BY <1>3, <2>1
    <2> QED
      BY <2>2, <2>3, <2>4, NodeFacts
  <1>6. T = Nat
    <2> HIDE DEF T
    <2>1. T \in SUBSET Nat
      BY DEF T
    <2> QED
      BY <2>1, <1>4, <1>5, SetInduction
  <1>7. ASSUME NEW i \in 1..len PROVE at[i - 1] = s[i]
    <2>1. i - 1 \in Nat /\ i - 1 < len /\ (i - 1) + 1 = i
      BY <1>2
    <2>2. i - 1 \in T
      BY <1>6, <2>1
    <2> QED
      BY <2>1, <2>2
  <1> QED
    BY <1>7 DEF at

\* The nodes of a queue, in their order.
InRow(q) == [i \in 1..length[q] |-> Walk(q)[i - 1]]

(***************************************************************************)
(* The nodes of a queue in the order a walk meets them, each once and all  *)
(* of them.                                                                *)
(***************************************************************************)
LEMMA RowOf ==
  ASSUME NEW M, NEW F, Shape(M, F, prev, next, avail, head, tail, length), NEW q \in Queues
  PROVE  /\ Row(InRow(q), length[q], head[q], next)
         /\ \A i \in 1..length[q] : InRow(q)[i] \in M[q]
         /\ \A n \in M[q] : \E i \in 1..length[q] : InRow(q)[i] = n
  <1> DEFINE s == InRow(q)
             l == length[q]
             w == Walk(q)
  <1>1. N_QNODES \in Nat /\ l \in 0..N_QNODES /\ l \in Nat /\ Traversal(w, N_QNODES, head[q], next, NULL)
          /\ w[l] = NULL
    BY WalkSees, NodeFacts
  <1>2. IsList(M[q], l, head[q], next, NULL) /\ M[q] \in SUBSET Nodes
    BY DEF Shape, Parts
  <1>3. PICK pos : Numbered(M[q], pos, l, head[q], next, NULL)
    BY <1>2 DEF IsList
  <1>4. \A i \in 0..N_QNODES : IF i < l THEN w[i] \in M[q] /\ pos[w[i]] = i ELSE w[i] = NULL
    BY <1>1, <1>3, Visits
  <1> HIDE DEF w, l
  <1>5. \A i \in 1..l : i - 1 \in 0..N_QNODES /\ i - 1 < l /\ i \in 0..N_QNODES /\ i # 0
    BY <1>1
  <1>6. \A i \in 1..l : s[i] = w[i - 1] /\ s[i] \in M[q] /\ pos[s[i]] = i - 1
    BY <1>4, <1>5 DEF InRow, l, w
  <1>7. s = [i \in 1..l |-> s[i]]
    BY DEF InRow, l
  <1>8. \A i \in 1..l : w[i] = next[s[i]]
    <2> SUFFICES ASSUME NEW i \in 1..l PROVE w[i] = next[s[i]]
      OBVIOUS
    <2>1. w[i] = IF w[i - 1] = NULL THEN NULL ELSE next[w[i - 1]]
      BY <1>1, <1>5 DEF Traversal
    <2> QED
      BY <1>2, <1>6, <2>1, NodeFacts
  <1>9. l # 0 => head[q] = s[1]
    <2> SUFFICES ASSUME l # 0 PROVE head[q] = s[1]
      OBVIOUS
    <2>1. 1 \in 1..l /\ 1 - 1 = 0 /\ 0 \in 0..N_QNODES
      BY <1>1
    <2>2. w[0] = head[q]
      BY <1>1, <2>1 DEF Traversal
    <2> QED
      BY <1>6, <2>1, <2>2
  <1>10. l = 0 => head[q] = NULL
    BY <1>2, ListFacts
  <1>11. \A i \in 1..l : i # l => next[s[i]] = s[i + 1]
    <2> SUFFICES ASSUME NEW i \in 1..l, i # l PROVE next[s[i]] = s[i + 1]
      OBVIOUS
    <2>1. i + 1 \in 1..l /\ (i + 1) - 1 = i
      BY <1>1
    <2> QED
      BY <1>6, <1>8, <2>1
  <1>12. l # 0 => next[s[l]] = NULL
    BY <1>1, <1>8
  <1>13. \A i, j \in 1..l : s[i] = s[j] => i = j
    BY <1>1, <1>6
  <1>14. s \in [1..l -> Nodes]
    <2>1. \A i \in 1..l : s[i] \in Nodes
      BY <1>2, <1>6
    <2> QED
      BY <1>7, <2>1
  <1>15. Row(s, l, head[q], next)
    BY <1>1, <1>9, <1>10, <1>11, <1>12, <1>13, <1>14 DEF Row
  <1>16. ASSUME NEW n \in M[q] PROVE \E i \in 1..l : s[i] = n
    <2>1. pos[n] \in 0..(l - 1)
      BY <1>3 DEF Numbered
    <2>2. pos[n] + 1 \in 1..l /\ (pos[n] + 1) - 1 = pos[n]
      BY <1>1, <2>1
    <2>3. s[pos[n] + 1] \in M[q] /\ pos[s[pos[n] + 1]] = pos[n]
      BY <1>6, <2>2
    <2>4. s[pos[n] + 1] = n
      BY <1>3, <2>3 DEF Numbered
    <2> QED
      BY <2>2, <2>4
  <1> QED
    BY <1>6, <1>15, <1>16 DEF l

\* What the queues hold: entries in the order of their nodes.
Cells == [q \in Queues |-> LET walk == Walk(q) IN [i \in 1..length[q] |-> entry[walk[i - 1]]]]

(***************************************************************************)
(* What a queue holds, by its row.                                         *)
(***************************************************************************)
LEMMA CellsNow ==
  ASSUME NEW q \in Queues
  PROVE  Cells[q] = [i \in 1..length[q] |-> entry[InRow(q)[i]]]
  BY DEF Cells, InRow

(***************************************************************************)
(* The same of the state after a step, of which a row is known.            *)
(***************************************************************************)
LEMMA CellsThen ==
  ASSUME NEW q \in Queues, NEW s, Row(s, length'[q], head'[q], next')
  PROVE  Cells'[q] = [i \in 1..length'[q] |-> entry'[s[i]]]
  <1>1. \A i \in 1..length'[q] : Steps(head'[q], next')[i - 1] = s[i]
    BY RowSteps
  <1>2. Walk(q)' = Steps(head'[q], next')
    BY DEF Walk, Steps
  <1>3. Cells'[q] = [i \in 1..length'[q] |-> entry'[Walk(q)'[i - 1]]]
    BY DEF Cells
  <1> QED
    BY <1>1, <1>2, <1>3

(***************************************************************************)
(* A queue whose nodes keep their links and entries holds what it held.    *)
(***************************************************************************)
LEMMA Elsewhere ==
  ASSUME NEW M, NEW F, Shape(M, F, prev, next, avail, head, tail, length), NEW q \in Queues,
         length'[q] = length[q], head'[q] = head[q],
         \A n \in M[q] : next'[n] = next[n] /\ entry'[n] = entry[n]
  PROVE  Cells'[q] = Cells[q]
  <1>1. /\ Row(InRow(q), length[q], head[q], next)
        /\ \A i \in 1..length[q] : InRow(q)[i] \in M[q]
    BY RowOf
  <1>2. Row(InRow(q), length'[q], head'[q], next')
    <2> DEFINE s == InRow(q)
               l == length[q]
    <2>1. Row(s, l, head[q], next) /\ \A i \in 1..l : next'[s[i]] = next[s[i]]
      BY <1>1
    <2>2. l # 0 => l \in 1..l
      BY <2>1 DEF Row
    <2> HIDE DEF s, l
    <2>3. Row(s, l, head[q], next')
      BY <2>1, <2>2 DEF Row
    <2> QED
      BY <2>3 DEF s, l
  <1>3. Cells'[q] = [i \in 1..length'[q] |-> entry'[InRow(q)[i]]]
    BY <1>2, CellsThen
  <1> QED
    BY <1>1, <1>3, CellsNow

(***************************************************************************)
(* The links back, the tail and the head, by places.                       *)
(***************************************************************************)
LEMMA RowEnds ==
  ASSUME NEW M, NEW F, Shape(M, F, prev, next, avail, head, tail, length), NEW q \in Queues
  PROVE  /\ \A k \in 1..length[q] : prev[InRow(q)[k]] = IF k = 1 THEN NULL ELSE InRow(q)[k - 1]
         /\ tail[q] = IF length[q] = 0 THEN NULL ELSE InRow(q)[length[q]]
         /\ head[q] = IF length[q] = 0 THEN NULL ELSE InRow(q)[1]
  <1> DEFINE s == InRow(q)
             l == length[q]
  <1>1. /\ Row(s, l, head[q], next)
        /\ \A i \in 1..l : s[i] \in M[q]
        /\ \A n \in M[q] : \E i \in 1..l : s[i] = n
    BY RowOf
  <1>2. /\ IF l = 0 THEN tail[q] = NULL ELSE tail[q] \in M[q] /\ next[tail[q]] = NULL
        /\ head[q] # NULL => prev[head[q]] = NULL
        /\ \A n \in M[q] : next[n] # NULL => prev[next[n]] = n
        /\ M[q] \in SUBSET Nodes
    BY DEF Shape, Parts
  <1> HIDE DEF s, l
  <1>3. l \in Nat /\ (l # 0 => head[q] = s[1]) /\ (l = 0 => head[q] = NULL)
    BY <1>1 DEF Row
  <1>4. \A i \in 1..l : i # l => next[s[i]] = s[i + 1]
    BY <1>1 DEF Row
  <1>5. \A i \in 1..l : s[i] \in Nodes /\ s[i] # NULL
    BY <1>1, <1>2, NodeFacts
  <1>6. ASSUME NEW k \in 1..l PROVE prev[s[k]] = IF k = 1 THEN NULL ELSE s[k - 1]
    <2>1. CASE k = 1
      <3>1. l # 0 /\ head[q] # NULL
        BY <1>3, <1>5, <2>1
      <3> QED
        BY <1>2, <1>3, <2>1, <3>1
    <2>2. CASE k # 1
      <3>1. k - 1 \in 1..l /\ k - 1 # l /\ (k - 1) + 1 = k
        BY <1>3, <2>2
      <3>2. next[s[k - 1]] = s[k]
        BY <1>4, <3>1
      <3> QED
        BY <1>1, <1>2, <1>5, <2>2, <3>1, <3>2
    <2> QED
      BY <2>1, <2>2
  <1>7. ASSUME l # 0 PROVE tail[q] = s[l]
    <2>1. PICK i \in 1..l : s[i] = tail[q]
      BY <1>1, <1>2, <1>7
    <2>2. i # l => next[s[i]] = s[i + 1] /\ i + 1 \in 1..l
      BY <1>3, <1>4
    <2> QED
      BY <1>2, <1>5, <1>7, <2>1, <2>2
  <1> QED
    BY <1>2, <1>3, <1>6, <1>7 DEF s, l

\* A call that adds e to q in place k, and one that takes out what is there.
PutIn(q, k, e) == Cells' = [Cells EXCEPT ![q] = Put(@, length[q], k, e)]
DroppedFrom(q, k) == Cells' = [Cells EXCEPT ![q] = Drop(@, length[q], k)]

\* A node a of the free list is linked in at place k of q.
PutLinks(q, k, a) ==
  /\ length'[q] = length[q] + 1
  /\ head'[q] = IF k = 1 THEN a ELSE head[q]
  /\ \A r \in Queues : r # q => length'[r] = length[r] /\ head'[r] = head[r]
  /\ next'[a] = IF k = length[q] + 1 THEN NULL ELSE InRow(q)[k]
  /\ \A i \in 1..length[q] : i = k - 1 => next'[InRow(q)[i]] = a
  /\ \A n \in Nodes \ {a} : (\A i \in 1..length[q] : i = k - 1 => n # InRow(q)[i]) => next'[n] = next[n]

(***************************************************************************)
(* What linking in a node does to what the queues hold.                    *)
(***************************************************************************)
LEMMA PutCells ==
  ASSUME NEW M, NEW F, Shape(M, F, prev, next, avail, head, tail, length), NEW q \in Queues, NEW e,
         NEW a \in F, entry \in [Nodes -> Entries \cup {NoEntry}], entry' = [entry EXCEPT ![a] = e],
         NEW k \in 1..(length[q] + 1), PutLinks(q, k, a)
  PROVE  PutIn(q, k, e)
  <1> DEFINE s == InRow(q)
             l == length[q]
             t == Put(s, l, k, a)
  <1>0. /\ length'[q] = l + 1 /\ head'[q] = (IF k = 1 THEN a ELSE head[q])
        /\ next'[a] = (IF k = l + 1 THEN NULL ELSE s[k])
        /\ \A i \in 1..l : i = k - 1 => next'[s[i]] = a
        /\ \A n \in Nodes \ {a} : (\A i \in 1..l : i = k - 1 => n # s[i]) => next'[n] = next[n]
        /\ \A r \in Queues : r # q => length'[r] = length[r] /\ head'[r] = head[r]
    BY DEF PutLinks
  <1>1. /\ Row(s, l, head[q], next)
        /\ \A i \in 1..l : s[i] \in M[q]
    BY RowOf
  <1>2. /\ M \in [Queues -> SUBSET Nodes] /\ F \in SUBSET Nodes
        /\ \A r \in Queues : M[r] \cap F = {}
        /\ \A r, u \in Queues : r # u => M[r] \cap M[u] = {}
    BY DEF Shape, Parts
  <1>3. a \in Nodes /\ \A r \in Queues : a \notin M[r]
    BY <1>2
  <1>4. \A i \in 1..l : s[i] # a /\ s[i] \in Nodes
    BY <1>1, <1>2, <1>3
  <1>5. \A i, j \in 1..l : s[i] = s[j] => i = j
    BY <1>1 DEF Row
  <1>6. \A i \in 1..l : IF i = k - 1 THEN next'[s[i]] = a ELSE next'[s[i]] = next[s[i]]
    BY <1>0, <1>4, <1>5
  <1>7. Row(t, l + 1, head'[q], next')
    <2> HIDE DEF s, l, t
    <2>1. k \in 1..(l + 1) /\ (k = 1 => head'[q] = a) /\ (k # 1 => head'[q] = head[q])
      BY <1>0 DEF l
    <2>2. (k = l + 1 => next'[a] = NULL) /\ (k # l + 1 => next'[a] = s[k])
      BY <1>0 DEF s, l
    <2> QED
      BY <1>1, <1>3, <1>4, <1>6, <2>1, <2>2, RowPut DEF t
  <1>8. Cells'[q] = [i \in 1..(l + 1) |-> entry'[t[i]]]
    <2> HIDE DEF t
    <2>1. length'[q] = l + 1
      BY <1>0
    <2> HIDE DEF l
    <2>2. Row(t, length'[q], head'[q], next')
      BY <1>7, <2>1
    <2>3. Cells'[q] = [i \in 1..length'[q] |-> entry'[t[i]]]
      BY <2>2, CellsThen
    <2> QED
      BY <2>1, <2>3
  <1>9. Cells[q] = [i \in 1..l |-> entry[s[i]]]
    BY CellsNow
  <1>10. Cells'[q] = Put(Cells[q], l, k, e)
    <2>1. l \in Nat /\ k \in Nat /\ k \in 1..(l + 1)
      BY <1>1 DEF Row
    <2> HIDE DEF s, l
    <2>2. \A i \in 1..(l + 1) : (i < k => i \in 1..l) /\ (~ (i < k) /\ i # k => i - 1 \in 1..l)
      BY <2>1
    <2>3. \A n \in Nodes : entry'[n] = IF n = a THEN e ELSE entry[n]
      BY <1>3
    <2>4. \A i \in 1..(l + 1) : t[i] = IF i < k THEN s[i] ELSE IF i = k THEN a ELSE s[i - 1]
      BY DEF Put
    <2>5. \A i \in 1..(l + 1) :
            entry'[t[i]] = IF i < k THEN Cells[q][i] ELSE IF i = k THEN e ELSE Cells[q][i - 1]
      <3> HIDE DEF t
      <3>1. ASSUME NEW i \in 1..(l + 1), i < k PROVE entry'[t[i]] = Cells[q][i]
        BY <1>4, <1>9, <2>2, <2>3, <2>4, <3>1
      <3>2. ASSUME NEW i \in 1..(l + 1), i = k PROVE entry'[t[i]] = e
        BY <1>3, <2>3, <2>4, <2>1, <3>2
      <3>3. ASSUME NEW i \in 1..(l + 1), ~ (i < k), i # k PROVE entry'[t[i]] = Cells[q][i - 1]
        BY <1>4, <1>9, <2>2, <2>3, <2>4, <3>3
      <3> QED
        BY <2>1, <3>1, <3>2, <3>3
    <2> HIDE DEF t
    <2> QED
      BY <1>8, <2>5 DEF Put
  <1>11. \A r \in Queues : r # q => Cells'[r] = Cells[r]
    <2> SUFFICES ASSUME NEW r \in Queues, r # q PROVE Cells'[r] = Cells[r]
      OBVIOUS
    <2>1. \A n \in M[r] : n \in Nodes /\ n # a /\ \A i \in 1..l : n # s[i]
      BY <1>1, <1>2, <1>3
    <2>2. \A n \in M[r] : next'[n] = next[n] /\ entry'[n] = entry[n]
      BY <1>0, <1>3, <2>1
    <2> QED
      BY <1>0, <2>2, Elsewhere
  <1> HIDE DEF l
  <1>12. Cells' = [r \in Queues |-> Cells'[r]] /\ Cells = [r \in Queues |-> Cells[r]]
    BY DEF Cells
  <1>13. Cells' = [Cells EXCEPT ![q] = Put(@, l, k, e)]
    <2> HIDE DEF s, t
    <2> QED
      BY <1>10, <1>11, <1>12
  <1> QED
    BY <1>13 DEF PutIn, l

(***************************************************************************)
(* What linking past a node does to what the queues hold.                  *)
(***************************************************************************)
LEMMA DropCells ==
  ASSUME NEW M, NEW F, Shape(M, F, prev, next, avail, head, tail, length), NEW q \in Queues,
         entry' = entry, NEW k \in 1..length[q],
         k = 1 => head'[q] = next[InRow(q)[k]], k # 1 => head'[q] = head[q],
         length'[q] = length[q] - 1,
         \A r \in Queues : r # q => length'[r] = length[r] /\ head'[r] = head[r],
         \A i \in 1..length[q] : i = k - 1 => next'[InRow(q)[i]] = next[InRow(q)[k]],
         \A n \in Nodes \ {InRow(q)[k]} :
            (\A i \in 1..length[q] : i = k - 1 => n # InRow(q)[i]) => next'[n] = next[n]
  PROVE  DroppedFrom(q, k)
  <1> DEFINE s == InRow(q)
             l == length[q]
             t == Drop(s, l, k)
  <1>1. /\ Row(s, l, head[q], next)
        /\ \A i \in 1..l : s[i] \in M[q]
    BY RowOf
  <1>2. /\ M \in [Queues -> SUBSET Nodes] /\ F \in SUBSET Nodes
        /\ \A r, u \in Queues : r # u => M[r] \cap M[u] = {}
    BY DEF Shape, Parts
  <1>4. \A i \in 1..l : s[i] \in Nodes
    BY <1>1, <1>2
  <1>5. \A i, j \in 1..l : s[i] = s[j] => i = j
    BY <1>1 DEF Row
  <1>6. \A i \in 1..l : i # k => IF i = k - 1 THEN next'[s[i]] = next[s[k]] ELSE next'[s[i]] = next[s[i]]
    BY <1>4, <1>5
  <1>7. Row(t, l - 1, head'[q], next')
    <2> HIDE DEF s, l, t
    <2>1. k \in 1..l /\ (k = 1 => head'[q] = next[s[k]]) /\ (k # 1 => head'[q] = head[q])
      BY DEF l, s
    <2> QED
      BY <1>1, <1>6, <2>1, RowDrop DEF t
  <1>8. Cells'[q] = [i \in 1..(l - 1) |-> entry[t[i]]]
    <2> HIDE DEF t
    <2>1. length'[q] = l - 1
      OBVIOUS
    <2> HIDE DEF l
    <2>2. Row(t, length'[q], head'[q], next')
      BY <1>7, <2>1
    <2>3. Cells'[q] = [i \in 1..length'[q] |-> entry'[t[i]]]
      BY <2>2, CellsThen
    <2> QED
      BY <2>1, <2>3
  <1>9. Cells[q] = [i \in 1..l |-> entry[s[i]]]
    BY CellsNow
  <1>10. Cells'[q] = Drop(Cells[q], l, k)
    <2>1. l \in Nat /\ k \in Nat
      BY <1>1 DEF Row
    <2> HIDE DEF s, l
    <2>2. \A i \in 1..(l - 1) : i \in 1..l /\ i + 1 \in 1..l
      BY <2>1
    <2>4. \A i \in 1..(l - 1) : t[i] = IF i < k THEN s[i] ELSE s[i + 1]
      BY DEF Drop
    <2>5. \A i \in 1..(l - 1) : entry[t[i]] = IF i < k THEN Cells[q][i] ELSE Cells[q][i + 1]
      <3> HIDE DEF t
      <3> QED
        BY <1>9, <2>2, <2>4
    <2> HIDE DEF t
    <2> QED
      BY <1>8, <2>5 DEF Drop
  <1>11. \A r \in Queues : r # q => Cells'[r] = Cells[r]
    <2> SUFFICES ASSUME NEW r \in Queues, r # q PROVE Cells'[r] = Cells[r]
      OBVIOUS
    <2>1. \A n \in M[r] : n \in Nodes /\ \A i \in 1..l : n # s[i]
      BY <1>1, <1>2
    <2>2. \A n \in M[r] : next'[n] = next[n] /\ entry'[n] = entry[n]
      BY <2>1
    <2> QED
      BY <2>2, Elsewhere
  <1> HIDE DEF l
  <1>12. Cells' = [r \in Queues |-> Cells'[r]] /\ Cells = [r \in Queues |-> Cells[r]]
    BY DEF Cells
  <1>13. Cells' = [Cells EXCEPT ![q] = Drop(@, l, k)]
    <2> HIDE DEF s, t
    <2> QED
      BY <1>10, <1>11, <1>12
  <1> QED
    BY <1>13 DEF DroppedFrom, l

(***************************************************************************)
(* The free list begins with a free node, if there is any.                 *)
(***************************************************************************)
LEMMA FreeNode ==
  ASSUME NEW M, NEW F, Shape(M, F, prev, next, avail, head, tail, length)
  PROVE  IF avail = NULL THEN F = {} ELSE avail \in F
  <1>1. PICK f : IsList(F, f, avail, next, NULL)
    BY DEF Shape
  <1>2. NULL \notin F
    BY NodeFacts DEF Shape, Parts
  <1> QED
    BY <1>1, <1>2, ListFacts

(***************************************************************************)
(* The links that are set when a node becomes the last one put its entry   *)
(* behind the others.                                                      *)
(***************************************************************************)
LEMMA AddLastPuts ==
  ASSUME NEW M, NEW F, Shape(M, F, prev, next, avail, head, tail, length), QTypes,
         NEW q \in Queues, NEW e, NEW back, AddLast(q, e, back)
  PROVE  PutIn(q, length[q] + 1, e) /\ avail # NULL /\ result' = Status("E_SUCCESS")
  <1> DEFINE a == avail
             l == length[q]
             s == InRow(q)
  <1>1. /\ a # NULL /\ entry' = [entry EXCEPT ![a] = e] /\ result' = Status("E_SUCCESS")
        /\ head' = IF Empty(q) THEN [head EXCEPT ![q] = a] ELSE head
        /\ length' = [length EXCEPT ![q] = @ + 1]
        /\ next' = [Set(next, IF Empty(q) THEN NULL ELSE tail[q], a) EXCEPT ![a] = NULL]
    BY DEF AddLast
  <1>2. a \in F /\ F \in SUBSET Nodes
    BY <1>1, FreeNode DEF Shape, Parts
  <1>3. l \in Nat /\ (Empty(q) <=> l = 0)
    BY DEF Empty, QTypes
  <1>4. Row(s, l, head[q], next) /\ \A i \in 1..l : s[i] \in Nodes /\ s[i] # a
    <2>1. Row(s, l, head[q], next) /\ \A i \in 1..l : s[i] \in M[q]
      BY RowOf
    <2>2. M[q] \in SUBSET Nodes /\ M[q] \cap F = {}
      BY DEF Shape, Parts
    <2> QED
      BY <1>2, <2>1, <2>2
  <1>5. l # 0 => tail[q] = s[l] /\ l \in 1..l
    BY <1>3, RowEnds
  <1>6. next \in [Nodes -> Pointers] /\ head \in [Queues -> Pointers] /\ length \in [Queues -> Nat]
    BY DEF QTypes
  <1>7. /\ next'[a] = NULL
        /\ \A n \in Nodes \ {a} : next'[n] = IF l # 0 /\ n = s[l] THEN a ELSE next[n]
    <2>1. CASE l = 0
      BY <1>1, <1>2, <1>3, <1>6, <2>1 DEF Set
    <2>2. CASE l # 0
      <3>1. next' = [[next EXCEPT ![s[l]] = a] EXCEPT ![a] = NULL]
        BY <1>1, <1>3, <1>4, <1>5, <2>2, NodeFacts DEF Set
      <3>2. s[l] \in Nodes /\ a \in Nodes
        BY <1>2, <1>4, <1>5, <2>2
      <3> HIDE DEF s
      <3> QED
        BY <1>6, <2>2, <3>1, <3>2
    <2> QED
      BY <2>1, <2>2
  <1>8. /\ \A r \in Queues : r # q => length'[r] = length[r] /\ head'[r] = head[r]
        /\ length'[q] = l + 1
        /\ head'[q] = IF l = 0 THEN a ELSE head[q]
    BY <1>1, <1>3, <1>6
  <1> DEFINE k == l + 1
  <1>9. k \in 1..(l + 1) /\ k - 1 = l /\ (k = 1 <=> l = 0)
    BY <1>3
  <1> HIDE DEF s, k
  <1>10. \A i \in 1..l : i = k - 1 => next'[s[i]] = a
    BY <1>3, <1>4, <1>7, <1>9
  <1>11. \A n \in Nodes \ {a} : (\A i \in 1..l : i = k - 1 => n # s[i]) => next'[n] = next[n]
    BY <1>3, <1>5, <1>7, <1>9
  <1>12. (k = 1 => head'[q] = a) /\ (k # 1 => head'[q] = head[q])
    BY <1>8, <1>9
  <1>13. (k = l + 1 => next'[a] = NULL) /\ (k # l + 1 => next'[a] = s[k])
    BY <1>7 DEF k
  <1>14. entry \in [Nodes -> Entries \cup {NoEntry}]
    BY DEF QTypes
  <1>15. PutLinks(q, k, a)
    BY <1>8, <1>10, <1>11, <1>12, <1>13 DEF PutLinks, s
  <1>16. PutIn(q, k, e)
    BY <1>1, <1>2, <1>9, <1>14, <1>15, PutCells
  <1> QED
    BY <1>1, <1>16 DEF k

(***************************************************************************)
(* The links that are set when a node goes before another put its entry in *)
(* front of that one's.                                                    *)
(***************************************************************************)
LEMMA AddBeforePuts ==
  ASSUME NEW M, NEW F, Shape(M, F, prev, next, avail, head, tail, length), QTypes,
         NEW q \in Queues, NEW e, NEW k \in 1..length[q], AddBefore(q, e, InRow(q)[k])
  PROVE  PutIn(q, k, e) /\ avail # NULL /\ result' = Status("E_SUCCESS")
  <1> DEFINE a == avail
             l == length[q]
             s == InRow(q)
             c == s[k]
             p == prev[c]
  <1>1. /\ a # NULL /\ entry' = [entry EXCEPT ![a] = e] /\ result' = Status("E_SUCCESS")
        /\ head' = IF p = NULL THEN [head EXCEPT ![q] = a] ELSE head
        /\ length' = [length EXCEPT ![q] = @ + 1]
        /\ next' = Set([next EXCEPT ![a] = c], p, a)
    BY DEF AddBefore
  <1>2. a \in F /\ F \in SUBSET Nodes /\ a \in Nodes
    BY <1>1, FreeNode DEF Shape, Parts
  <1>3. l \in Nat /\ k \in 1..l /\ k \in 1..(l + 1) /\ k # l + 1
    BY DEF QTypes
  <1>4. Row(s, l, head[q], next) /\ \A i \in 1..l : s[i] \in Nodes /\ s[i] # a
    <2>1. Row(s, l, head[q], next) /\ \A i \in 1..l : s[i] \in M[q]
      BY RowOf
    <2>2. M[q] \in SUBSET Nodes /\ M[q] \cap F = {}
      BY DEF Shape, Parts
    <2> QED
      BY <1>2, <2>1, <2>2
  <1>5. p = IF k = 1 THEN NULL ELSE s[k - 1]
    BY RowEnds
  <1>6. next \in [Nodes -> Pointers] /\ head \in [Queues -> Pointers] /\ length \in [Queues -> Nat]
        /\ entry \in [Nodes -> Entries \cup {NoEntry}]
    BY DEF QTypes
  <1>7. k # 1 => k - 1 \in 1..l /\ p \in Nodes /\ p # NULL /\ p # a
    <2>1. k # 1 => k - 1 \in 1..l
      BY <1>3
    <2> QED
      BY <1>4, <1>5, <2>1, NodeFacts
  <1>8. \A i \in 1..l : ~ (k = 1 /\ i = k - 1)
    BY <1>3
  <1> HIDE DEF s, c, p
  <1>9. /\ next'[a] = c
        /\ \A n \in Nodes \ {a} : next'[n] = IF k # 1 /\ n = p THEN a ELSE next[n]
    <2>1. CASE k = 1
      BY <1>1, <1>2, <1>5, <1>6, <2>1 DEF Set
    <2>2. CASE k # 1
      <3>1. next' = [[next EXCEPT ![a] = c] EXCEPT ![p] = a]
        BY <1>1, <1>7, <2>2 DEF Set
      <3> QED
        BY <1>2, <1>6, <1>7, <2>2, <3>1
    <2> QED
      BY <2>1, <2>2
  <1>10. /\ \A r \in Queues : r # q => length'[r] = length[r] /\ head'[r] = head[r]
         /\ length'[q] = l + 1
         /\ head'[q] = IF k = 1 THEN a ELSE head[q]
    BY <1>1, <1>5, <1>6, <1>7
  <1>11. \A i \in 1..l : i = k - 1 => next'[s[i]] = a
    BY <1>4, <1>5, <1>8, <1>9
  <1>12. \A n \in Nodes \ {a} : (\A i \in 1..l : i = k - 1 => n # s[i]) => next'[n] = next[n]
    BY <1>5, <1>7, <1>9
  <1>13. next'[a] = s[k]
    BY <1>9 DEF c
  <1>14. PutLinks(q, k, a)
    BY <1>3, <1>10, <1>11, <1>12, <1>13 DEF PutLinks, s
  <1>15. PutIn(q, k, e)
    BY <1>1, <1>2, <1>3, <1>6, <1>14, PutCells
  <1> QED
    BY <1>1, <1>15

(***************************************************************************)
(* The links that are set when a node is taken out, wherever it is, take   *)
(* out its entry alone.                                                    *)
(***************************************************************************)
LEMMA UnlinkDrops ==
  ASSUME NEW M, NEW F, Shape(M, F, prev, next, avail, head, tail, length), QTypes,
         NEW q \in Queues, NEW k \in 1..length[q], Unlink(q, InRow(q)[k])
  PROVE  DroppedFrom(q, k) /\ result' = Taken(Cells[q][k])
  <1> DEFINE l == length[q]
             s == InRow(q)
             c == s[k]
             p == prev[c]
  <1>1. /\ entry' = entry /\ result' = Taken(entry[c])
        /\ head' = IF p = NULL THEN [head EXCEPT ![q] = next[c]] ELSE head
        /\ length' = [length EXCEPT ![q] = @ - 1]
        /\ next' = [Set(next, p, next[c]) EXCEPT ![c] = avail]
    BY DEF Unlink, Free
  <1>3. l \in Nat /\ k \in 1..l
    BY DEF QTypes
  <1>4. Row(s, l, head[q], next) /\ \A i \in 1..l : s[i] \in Nodes
    BY RowOf, ZenonT(40) DEF Shape, Parts
  <1>5. p = IF k = 1 THEN NULL ELSE s[k - 1]
    BY RowEnds
  <1>6. next \in [Nodes -> Pointers] /\ head \in [Queues -> Pointers] /\ length \in [Queues -> Nat]
    BY DEF QTypes
  <1>7. k # 1 => k - 1 \in 1..l /\ p \in Nodes /\ p # NULL /\ p # c
    <2>1. k # 1 => k - 1 \in 1..l /\ k - 1 # k
      BY <1>3
    <2>2. k # 1 => s[k - 1] # s[k]
      BY <1>3, <1>4, <2>1 DEF Row
    <2> QED
      BY <1>4, <1>5, <2>1, <2>2, NodeFacts
  <1>8. \A i \in 1..l : ~ (k = 1 /\ i = k - 1)
    BY <1>3
  <1>14. Cells[q][k] = entry[c]
    <2>1. Cells[q] = [i \in 1..l |-> entry[s[i]]]
      BY CellsNow
    <2> HIDE DEF s, l
    <2> QED
      BY <1>3, <2>1
  <1>2. c \in Nodes
    BY <1>3, <1>4
  <1> HIDE DEF s, c, p
  <1>9. \A n \in Nodes \ {c} : next'[n] = IF k # 1 /\ n = p THEN next[c] ELSE next[n]
    <2>1. CASE k = 1
      BY <1>1, <1>2, <1>5, <1>6, <2>1 DEF Set
    <2>2. CASE k # 1
      <3>1. next' = [[next EXCEPT ![p] = next[c]] EXCEPT ![c] = avail]
        BY <1>1, <1>7, <2>2 DEF Set
      <3> QED
        BY <1>2, <1>6, <1>7, <2>2, <3>1
    <2> QED
      BY <2>1, <2>2
  <1>10. /\ \A r \in Queues : r # q => length'[r] = length[r] /\ head'[r] = head[r]
         /\ length'[q] = l - 1
         /\ head'[q] = IF k = 1 THEN next[c] ELSE head[q]
    BY <1>1, <1>5, <1>6, <1>7
  <1>11. \A i \in 1..l : i = k - 1 => next'[s[i]] = next[c]
    BY <1>4, <1>5, <1>7, <1>8, <1>9
  <1>12. \A n \in Nodes \ {c} : (\A i \in 1..l : i = k - 1 => n # s[i]) => next'[n] = next[n]
    BY <1>5, <1>7, <1>9
  <1>13. DroppedFrom(q, k)
    BY <1>1, <1>3, <1>10, <1>11, <1>12, DropCells DEF s, c
  <1> QED
    BY <1>1, <1>13, <1>14

(***************************************************************************)
(* What a queue holds is a sequence of its length.                         *)
(***************************************************************************)
LEMMA CellTypes ==
  ASSUME NEW M, NEW F, Shape(M, F, prev, next, avail, head, tail, length), QTypes, NEW q \in Queues
  PROVE  /\ Cells[q] \in [1..length[q] -> Entries \cup {NoEntry}]
         /\ Cells[q] \in Seq(Entries \cup {NoEntry}) /\ Len(Cells[q]) = length[q]
         /\ DOMAIN Cells[q] = 1..length[q]
         /\ \A i \in 1..length[q] : Cells[q][i].key \in Nat /\ Cells[q][i] = entry[InRow(q)[i]]
         /\ \A i \in 1..length[q] : InRow(q)[i] = Walk(q)[i - 1] /\ InRow(q)[i] \in Nodes
  <1> DEFINE s == InRow(q)
             l == length[q]
             T == Entries \cup {NoEntry}
  <1>1. Cells[q] = [i \in 1..l |-> entry[s[i]]]
    BY CellsNow
  <1>2. l \in Nat /\ entry \in [Nodes -> T]
    BY DEF QTypes
  <1>3. \A i \in 1..l : s[i] \in Nodes
    BY RowOf, ZenonT(40) DEF Shape, Parts
  <1>4. \A x \in T : x.key \in Nat
    BY QueueAssumption DEF NoEntry
  <1>8. \A i \in 1..l : s[i] = Walk(q)[i - 1]
    BY DEF InRow
  <1> HIDE DEF s, l, T
  <1>5. Cells[q] \in [1..l -> T] /\ \A i \in 1..l : Cells[q][i] = entry[s[i]]
    BY <1>1, <1>2, <1>3
  <1>6. Cells[q] \in Seq(T) /\ Len(Cells[q]) = l
    BY <1>2, <1>5
  <1>7. \A i \in 1..l : Cells[q][i].key \in Nat
    BY <1>4, <1>5
  <1> QED
    BY <1>3, <1>5, <1>6, <1>7, <1>8 DEF s, l, T

(***************************************************************************)
(* _q_insert stops at the first entry with a greater key, or at the end.   *)
(***************************************************************************)
LEMMA PlaceAt ==
  ASSUME NEW M, NEW F, Shape(M, F, prev, next, avail, head, tail, length), QTypes, NEW q \in Queues,
         ~ Empty(q), Discipline[q] # "fifo", NEW e
  PROVE  \E k \in 1..(length[q] + 1) :
           /\ \A i \in 1..length[q] : i < k => ~ (Cells[q][i].key > e.key)
           /\ IF k = length[q] + 1 THEN Place(q, e) = NULL
              ELSE Place(q, e) = InRow(q)[k] /\ Cells[q][k].key > e.key
  <1> DEFINE Stops(i) == IF Walk(q)[i] = NULL THEN TRUE ELSE entry[Walk(q)[i]].key > e.key
             First(i) == Stops(i) /\ \A j \in 0..(i - 1) : ~ Stops(j)
             St == {i \in 0..N_QNODES : Stops(i)}
             c == CHOOSE i \in 0..N_QNODES : First(i)
             l == length[q]
             s == InRow(q)
  <1>1. Place(q, e) = Walk(q)[c]
    BY DEF Place, Search
  <1>2. l \in St /\ St \in SUBSET (0..N_QNODES) /\ N_QNODES \in Nat /\ l \in Nat /\ l \in 0..N_QNODES
    BY WalkSees, NodeFacts
  <1>3. PICK i \in 0..N_QNODES : i \in St /\ \A j \in 0..(i - 1) : j \notin St
    <2> HIDE DEF St
    <2> QED
      BY <1>2, FirstStop
  <1>4. First(i)
    BY <1>2, <1>3
  <1>5. c \in 0..N_QNODES /\ First(c)
    <2> HIDE DEF First
    <2> QED
      BY <1>4
  <1>6. \A j \in 1..l : Walk(q)[j - 1] = s[j] /\ s[j] \in Nodes /\ Cells[q][j] = entry[s[j]]
    BY CellTypes
  <1>7. Walk(q)[l] = NULL
    BY WalkSees
  <1> HIDE DEF c, l, s
  <1>8. c <= l
    <2>1. c > l => l \in 0..(c - 1)
      BY <1>2, <1>5
    <2> QED
      BY <1>2, <1>5, <1>7, <2>1
  <1>9. \A j \in 1..l : j < c + 1 => ~ (Cells[q][j].key > e.key)
    <2> SUFFICES ASSUME NEW j \in 1..l, j < c + 1 PROVE ~ (Cells[q][j].key > e.key)
      OBVIOUS
    <2>1. j - 1 \in 0..(c - 1)
      BY <1>2, <1>5
    <2>2. ~ Stops(j - 1)
      BY <1>5, <2>1
    <2>3. Walk(q)[j - 1] = s[j]
      BY <1>6
    <2> QED
      BY <1>6, <2>2, <2>3
  <1>10. c = l => Place(q, e) = NULL
    BY <1>1, <1>7
  <1>11. c # l => Place(q, e) = s[c + 1] /\ Cells[q][c + 1].key > e.key
    <2> SUFFICES ASSUME c # l PROVE Place(q, e) = s[c + 1] /\ Cells[q][c + 1].key > e.key
      OBVIOUS
    <2>1. c + 1 \in 1..l /\ (c + 1) - 1 = c
      BY <1>2, <1>5, <1>8
    <2>2. Walk(q)[c] = s[c + 1] /\ s[c + 1] \in Nodes /\ Cells[q][c + 1] = entry[s[c + 1]]
      BY <1>6, <2>1
    <2>3. Walk(q)[c] # NULL
      BY <2>2, NodeFacts
    <2>4. Stops(c)
      BY <1>5
    <2> QED
      BY <1>1, <2>2, <2>3, <2>4
  <1>12. c + 1 \in 1..(l + 1) /\ (c + 1 = l + 1 <=> c = l)
    BY <1>2, <1>5, <1>8
  <1> QED
    BY <1>9, <1>10, <1>11, <1>12 DEF l, s

\* What a call with key k takes from q.
Picks(q, i, k) ==
  \/ Discipline[q] = "equal" /\ Cells[q][i].key = k
  \/ Discipline[q] = "le" /\ Cells[q][i].key <= k

(***************************************************************************)
(* _q_remove_by_key finds the first entry that its routine accepts, if     *)
(* there is any.                                                           *)
(***************************************************************************)
LEMMA FoundAt ==
  ASSUME NEW M, NEW F, Shape(M, F, prev, next, avail, head, tail, length), QTypes, NEW q \in Queues, NEW k
  PROVE  \/ Found(q, k) = NULL /\ \A i \in 1..length[q] : ~ Picks(q, i, k)
         \/ \E i \in 1..length[q] :
              /\ Found(q, k) = InRow(q)[i] /\ Found(q, k) # NULL
              /\ Picks(q, i, k) /\ \A j \in 1..length[q] : j < i => ~ Picks(q, j, k)
  <1> DEFINE Stops(i) == IF Walk(q)[i] = NULL THEN TRUE ELSE Matches(q, Walk(q)[i], k)
             First(i) == Stops(i) /\ \A j \in 0..(i - 1) : ~ Stops(j)
             St == {i \in 0..N_QNODES : Stops(i)}
             c == CHOOSE i \in 0..N_QNODES : First(i)
             l == length[q]
             s == InRow(q)
  <1>1. Found(q, k) = Walk(q)[c]
    BY DEF Found, Search
  <1>2. l \in St /\ St \in SUBSET (0..N_QNODES) /\ N_QNODES \in Nat /\ l \in Nat /\ l \in 0..N_QNODES
    BY WalkSees, NodeFacts
  <1>3. PICK i \in 0..N_QNODES : i \in St /\ \A j \in 0..(i - 1) : j \notin St
    <2> HIDE DEF St
    <2> QED
      BY <1>2, FirstStop
  <1>4. First(i)
    BY <1>2, <1>3
  <1>5. c \in 0..N_QNODES /\ First(c)
    <2> HIDE DEF First
    <2> QED
      BY <1>4
  <1>6. \A j \in 1..l : Walk(q)[j - 1] = s[j] /\ s[j] \in Nodes /\ Cells[q][j] = entry[s[j]]
    BY CellTypes
  <1>7. Walk(q)[l] = NULL
    BY WalkSees
  <1>8. \A j \in 1..l : Matches(q, s[j], k) <=> Picks(q, j, k)
    BY <1>6 DEF Matches, Picks
  <1> HIDE DEF c, l, s
  <1>9. c <= l
    <2>1. c > l => l \in 0..(c - 1)
      BY <1>2, <1>5
    <2> QED
      BY <1>2, <1>5, <1>7, <2>1
  <1>10. \A j \in 1..l : j < c + 1 => ~ Picks(q, j, k)
    <2> SUFFICES ASSUME NEW j \in 1..l, j < c + 1 PROVE ~ Picks(q, j, k)
      OBVIOUS
    <2>1. j - 1 \in 0..(c - 1)
      BY <1>2, <1>5
    <2>2. ~ Stops(j - 1)
      BY <1>5, <2>1
    <2> QED
      BY <1>6, <1>8, <2>2
  <1>11. CASE c = l
    <2>1. \A j \in 1..l : j < c + 1
      BY <1>2, <1>11
    <2> QED
      BY <1>1, <1>7, <1>10, <1>11, <2>1 DEF l
  <1>12. CASE c # l
    <2>1. c + 1 \in 1..l /\ (c + 1) - 1 = c
      BY <1>2, <1>5, <1>9, <1>12
    <2>2. Walk(q)[c] = s[c + 1] /\ s[c + 1] \in Nodes
      BY <1>6, <2>1
    <2>3. Walk(q)[c] # NULL
      BY <2>2, NodeFacts
    <2>4. Picks(q, c + 1, k)
      <3>1. Stops(c)
        BY <1>5
      <3> QED
        BY <1>8, <2>1, <2>2, <2>3, <3>1
    <2> QED
      BY <1>1, <1>10, <2>1, <2>2, <2>3, <2>4 DEF l, s
  <1> QED
    BY <1>11, <1>12

(***************************************************************************)
(* The places that are used number the nodes just when none is free.       *)
(***************************************************************************)
LEMMA FullWhen ==
  ASSUME NEW M, NEW F, Shape(M, F, prev, next, avail, head, tail, length), QTypes
  PROVE  Abs!Full <=> avail = NULL
  <1> DEFINE U == {at \in Queues \X (1..N_QNODES) : at[2] <= Len(Cells[at[1]])}
             f == [at \in U |-> InRow(at[1])[at[2]]]
  <1>1. Abs!Full <=> Cardinality(U) = N_QNODES
    <2>1. Abs!Used = U
      BY DEF Abs!Used, Cells
    <2>2. Abs!Cardinality(U) = Cardinality(U)
      BY DEF Abs!Cardinality, Cardinality
    <2> HIDE DEF U
    <2> QED
      BY <2>1, <2>2 DEF Abs!Full
  <1>2. /\ M \in [Queues -> SUBSET Nodes] /\ F \in SUBSET Nodes
        /\ \A n \in Nodes : n \in F \/ \E q \in Queues : n \in M[q]
        /\ \A q \in Queues : M[q] \cap F = {}
        /\ \A q, r \in Queues : q # r => M[q] \cap M[r] = {}
    BY DEF Shape, Parts
  <1>3. \A q \in Queues : Len(Cells[q]) = length[q] /\ length[q] \in 0..N_QNODES
    BY CellTypes, WalkSees
  <1>4. N_QNODES \in Nat
    BY NodeFacts
  <1>5. ASSUME NEW at \in U PROVE at[1] \in Queues /\ at[2] \in 1..length[at[1]] /\ at = <<at[1], at[2]>>
    BY <1>3, <1>4
  <1>6. ASSUME NEW q \in Queues, NEW i \in 1..length[q] PROVE <<q, i>> \in U
    BY <1>3, <1>4
  <1>7. \A q \in Queues : \A i \in 1..length[q] : InRow(q)[i] \in M[q]
    BY RowOf
  <1>8. \A q \in Queues : \A n \in M[q] : \E i \in 1..length[q] : InRow(q)[i] = n
    BY RowOf
  <1>9. \A q \in Queues : \A i, j \in 1..length[q] : InRow(q)[i] = InRow(q)[j] => i = j
    BY RowOf DEF Row
  <1> HIDE DEF U
  <1>10. f \in Injection(U, Nodes)
    <2>1. \A at \in U : f[at] = InRow(at[1])[at[2]] /\ f[at] \in M[at[1]]
      BY <1>5, <1>7
    <2>2. f \in [U -> Nodes]
      <3>1. \A at \in U : f[at] \in Nodes
        BY <1>2, <1>5, <2>1
      <3>2. f = [at \in U |-> f[at]]
        BY <2>1
      <3> HIDE DEF f
      <3> QED
        BY <3>1, <3>2
    <2>3. ASSUME NEW a \in U, NEW b \in U, f[a] = f[b] PROVE a = b
      <3> HIDE DEF f
      <3>1. a[1] = b[1]
        BY <1>2, <1>5, <2>1, <2>3
      <3>2. a[2] = b[2]
        BY <1>5, <1>9, <2>1, <2>3, <3>1
      <3> QED
        BY <1>5, <3>1, <3>2
    <2> HIDE DEF f
    <2> QED
      BY <2>2, <2>3 DEF Injection, IsInjective
  <1>11. IsFiniteSet(Nodes) /\ Cardinality(Nodes) = N_QNODES
    BY <1>4, FS_Interval DEF Nodes
  <1>12. Cardinality(U) = N_QNODES <=> f \in Surjection(U, Nodes)
    <2> HIDE DEF f
    <2> QED
      BY <1>10, <1>11, FS_Injection
  <1>13. f \in [U -> Nodes]
    BY <1>10 DEF Injection
  <1>14. ASSUME avail = NULL PROVE f \in Surjection(U, Nodes)
    <2>1. F = {}
      BY <1>14, FreeNode
    <2>2. \A n \in Nodes : \E at \in U : f[at] = n
      <3> SUFFICES ASSUME NEW n \in Nodes PROVE \E at \in U : f[at] = n
        OBVIOUS
      <3>1. PICK q \in Queues : n \in M[q]
        BY <1>2, <2>1
      <3>2. PICK i \in 1..length[q] : InRow(q)[i] = n
        BY <1>8, <3>1
      <3>3. f[<<q, i>>] = n
        BY <1>6, <3>2
      <3> QED
        BY <1>6, <3>3
    <2> HIDE DEF f
    <2> QED
      BY <1>13, <2>2 DEF Surjection
  <1>15. ASSUME avail # NULL PROVE f \notin Surjection(U, Nodes)
    <2>1. avail \in F /\ avail \in Nodes
      BY <1>2, <1>15, FreeNode
    <2>2. \A at \in U : f[at] # avail
      BY <1>2, <1>5, <1>7, <2>1
    <2> HIDE DEF f
    <2> QED
      BY <2>1, <2>2 DEF Surjection
  <1> HIDE DEF f
  <1> QED
    BY <1>1, <1>12, <1>14, <1>15

\* Keys do not descend.
Sorted(c, l) == \A i, j \in 1..l : i <= j => c[i].key <= c[j].key

Ordered == \A q \in Queues : Discipline[q] # "fifo" => Sorted(Cells[q], length[q])

\* The places in q before k are those of the entries that stay ahead of e.
Belongs(q, k, e) == \A i \in 1..length[q] : i < k <=> Discipline[q] = "fifo" \/ Cells[q][i].key <= e.key

\* What a call does to what the queues hold, and what it returns.
Adds(q) ==
  /\ avail # NULL /\ result' = Status("E_SUCCESS") /\ length' = [length EXCEPT ![q] = @ + 1]
  /\ \E e \in Entries : \E k \in 1..(length[q] + 1) : Belongs(q, k, e) /\ PutIn(q, k, e)

Shorter(q) == length' = [length EXCEPT ![q] = @ - 1]

Same == Cells' = Cells /\ length' = length

QueueEffect ==
  \E q \in Queues :
    \/ Entries # {} /\ avail = NULL /\ result' = Status("E_NO_QNODES") /\ Same
    \/ Adds(q)
    \/ length[q] = 0 /\ result' = Status("E_EMPTY") /\ Same
    \/ length[q] # 0 /\ DroppedFrom(q, 1) /\ result' = Taken(Cells[q][1]) /\ Shorter(q)
    \/ \E k \in Keys :
         /\ length[q] # 0 /\ Discipline[q] # "fifo" /\ result' = Status("E_NOT_FOUND") /\ Same
         /\ \A i \in 1..length[q] : ~ Picks(q, i, k)
    \/ \E k \in Keys : \E i \in 1..length[q] :
         /\ Picks(q, i, k) /\ \A j \in 1..length[q] : j < i => ~ Picks(q, j, k)
         /\ DroppedFrom(q, i) /\ result' = Taken(Cells[q][i]) /\ Shorter(q)

(***************************************************************************)
(* An entry among those of its key, behind them, leaves the keys           *)
(* ascending.                                                              *)
(***************************************************************************)
LEMMA SortedPut ==
  ASSUME NEW c, NEW l \in Nat, NEW e, e.key \in Nat, \A i \in 1..l : c[i].key \in Nat,
         Sorted(c, l), NEW k \in 1..(l + 1), \A i \in 1..l : i < k <=> c[i].key <= e.key
  PROVE  Sorted(Put(c, l, k, e), l + 1)
  <1> DEFINE d == Put(c, l, k, e)
  <1>1. \A i \in 1..(l + 1) : d[i] = IF i < k THEN c[i] ELSE IF i = k THEN e ELSE c[i - 1]
    BY DEF Put
  <1>2. k \in Nat
    OBVIOUS
  <1>3. \A i \in 1..(l + 1) :
          i \in Nat /\ (i < k => i \in 1..l)
            /\ (~ (i < k) /\ i # k => i - 1 \in 1..l /\ ~ (i - 1 < k) /\ i > k)
    OBVIOUS
  <1> HIDE DEF d
  <1>4. ASSUME NEW i \in 1..(l + 1), NEW j \in 1..(l + 1), i <= j PROVE d[i].key <= d[j].key
    <2>0. \A a, b \in 1..l : a <= b => c[a].key <= c[b].key
      BY DEF Sorted
    <2>1. CASE i < k /\ j < k
      BY <1>1, <1>3, <1>4, <2>0, <2>1
    <2>2. CASE i < k /\ j = k
      <3>1. d[i] = c[i] /\ d[j] = e /\ i \in 1..l
        BY <1>1, <1>3, <2>2
      <3> QED
        BY <2>2, <3>1
    <2>3. CASE i < k /\ ~ (j < k) /\ j # k
      <3>1. d[i] = c[i] /\ d[j] = c[j - 1] /\ i \in 1..l /\ j - 1 \in 1..l
        BY <1>1, <1>3, <2>3
      <3>2. i <= j - 1
        BY <1>2, <1>3, <1>4, <2>3
      <3> QED
        BY <2>0, <3>1, <3>2
    <2>4. CASE i = k /\ j = k
      <3>1. d[i] = e /\ d[j] = e
        BY <1>1, <1>2, <2>4
      <3> QED
        BY <3>1
    <2>5. CASE i = k /\ ~ (j < k) /\ j # k
      <3>1. d[i] = e /\ d[j] = c[j - 1] /\ j - 1 \in 1..l /\ ~ (j - 1 < k)
        BY <1>1, <1>2, <1>3, <2>5
      <3> QED
        BY <3>1
    <2>6. CASE ~ (i < k) /\ i # k
      <3>1. ~ (j < k) /\ j # k
        BY <1>2, <1>3, <1>4, <2>6
      <3>2. d[i] = c[i - 1] /\ d[j] = c[j - 1] /\ i - 1 \in 1..l /\ j - 1 \in 1..l /\ i - 1 <= j - 1
        BY <1>1, <1>3, <1>4, <2>6, <3>1
      <3> QED
        BY <2>0, <3>2
    <2> QED
      BY <1>2, <1>3, <1>4, <2>1, <2>2, <2>3, <2>4, <2>5, <2>6
  <1> QED
    BY <1>4 DEF Sorted, d

(***************************************************************************)
(* So does an entry less.                                                  *)
(***************************************************************************)
LEMMA SortedDrop ==
  ASSUME NEW c, NEW l \in Nat, Sorted(c, l), NEW k \in 1..l
  PROVE  Sorted(Drop(c, l, k), l - 1)
  <1> DEFINE d == Drop(c, l, k)
  <1>1. \A i \in 1..(l - 1) : d[i] = IF i < k THEN c[i] ELSE c[i + 1]
    BY DEF Drop
  <1>2. \A i \in 1..(l - 1) : i \in Nat /\ i \in 1..l /\ i + 1 \in 1..l
    OBVIOUS
  <1>3. k \in Nat
    OBVIOUS
  <1> HIDE DEF d
  <1>4. ASSUME NEW i \in 1..(l - 1), NEW j \in 1..(l - 1), i <= j PROVE d[i].key <= d[j].key
    <2>0. \A a, b \in 1..l : a <= b => c[a].key <= c[b].key
      BY DEF Sorted
    <2>1. \E a, b \in 1..l : a <= b /\ d[i] = c[a] /\ d[j] = c[b]
      <3>1. CASE i < k /\ j < k
        BY <1>1, <1>2, <1>4, <3>1
      <3>2. CASE i < k /\ ~ (j < k)
        <4>1. i <= j + 1
          BY <1>2, <1>4
        <4> QED
          BY <1>1, <1>2, <3>2, <4>1
      <3>3. CASE ~ (i < k)
        <4>1. ~ (j < k) /\ i + 1 <= j + 1
          BY <1>2, <1>3, <1>4, <3>3
        <4> QED
          BY <1>1, <1>2, <3>3, <4>1
      <3> QED
        BY <3>1, <3>2, <3>3
    <2> QED
      BY <2>0, <2>1
  <1> QED
    BY <1>4 DEF Sorted, d

(***************************************************************************)
(* A call that changes no links and no entries.                            *)
(***************************************************************************)
LEMMA NothingMoved ==
  ASSUME UNCHANGED <<entry, links>>
  PROVE  Same
  BY DEF Same, Cells, Walk, links

(***************************************************************************)
(* What append and insert do, if there is a node.                          *)
(***************************************************************************)
LEMMA AddEffect ==
  ASSUME NEW M, NEW F, Shape(M, F, prev, next, avail, head, tail, length), QTypes, Ordered,
         NEW q \in Queues, NEW e \in Entries, QAppend(q, e) \/ Insert(q, e), ~ NoNodes
  PROVE  Adds(q)
  <1> DEFINE l == length[q]
  <1>1. l \in Nat /\ (Empty(q) <=> l = 0) /\ l + 1 \in 1..(l + 1) /\ length \in [Queues -> Nat]
    BY DEF Empty, QTypes
  <1>2. \A i \in 1..l : Cells[q][i].key \in Nat
    BY CellTypes
  <1>3. e.key \in Nat
    BY QueueAssumption
  <1>4. ASSUME NEW back, AddLast(q, e, back), Belongs(q, l + 1, e) PROVE Adds(q)
    <2>1. PutIn(q, l + 1, e) /\ avail # NULL /\ result' = Status("E_SUCCESS")
      BY <1>4, AddLastPuts
    <2>2. length' = [length EXCEPT ![q] = @ + 1]
      BY <1>1, <1>4 DEF AddLast
    <2> QED
      BY <1>1, <1>4, <2>1, <2>2 DEF Adds
  <1>5. ASSUME Discipline[q] = "fifo" \/ l = 0 PROVE Belongs(q, l + 1, e)
    BY <1>1, <1>5 DEF Belongs
  <1>6. ASSUME Discipline[q] = "fifo" \/ l = 0, Insert(q, e)
        PROVE  AddLast(q, e, IF Empty(q) THEN NULL ELSE tail[q])
    <2>1. Place(q, e) = NULL
      BY <1>1, <1>6 DEF Place
    <2> QED
      BY <1>6, <2>1 DEF Insert
  <1>7. ASSUME Discipline[q] # "fifo", l # 0, Insert(q, e) PROVE Adds(q)
    <2>1. PICK k \in 1..(l + 1) :
            /\ \A i \in 1..l : i < k => ~ (Cells[q][i].key > e.key)
            /\ IF k = l + 1 THEN Place(q, e) = NULL
               ELSE Place(q, e) = InRow(q)[k] /\ Cells[q][k].key > e.key
      BY <1>1, <1>7, PlaceAt
    <2>2. \A i \in 1..l : i < k => Cells[q][i].key <= e.key
      BY <1>2, <1>3, <2>1
    <2>3. CASE k = l + 1
      <3>1. \A i \in 1..l : i < k
        BY <1>1, <2>3
      <3>2. Belongs(q, l + 1, e)
        BY <2>2, <2>3, <3>1 DEF Belongs
      <3>3. AddLast(q, e, IF Empty(q) THEN NULL ELSE tail[q])
        BY <1>7, <2>1, <2>3 DEF Insert
      <3> QED
        BY <1>4, <3>2, <3>3
    <2>4. CASE k # l + 1
      <3>1. k \in 1..l
        BY <1>1, <2>4
      <3>2. \A i \in 1..l : ~ (i < k) => ~ (Cells[q][i].key <= e.key)
        <4> SUFFICES ASSUME NEW i \in 1..l, ~ (i < k) PROVE ~ (Cells[q][i].key <= e.key)
          OBVIOUS
        <4>1. k <= i
          BY <3>1
        <4>2. Cells[q][k].key <= Cells[q][i].key
          BY <1>7, <3>1, <4>1 DEF Ordered, Sorted
        <4>3. Cells[q][k].key > e.key
          BY <2>1, <2>4
        <4> QED
          BY <1>2, <1>3, <3>1, <4>2, <4>3
      <3>3. Belongs(q, k, e)
        BY <1>7, <2>2, <3>2 DEF Belongs
      <3>4. InRow(q)[k] # NULL
        BY <3>1, CellTypes, NodeFacts
      <3>5. AddBefore(q, e, InRow(q)[k])
        BY <1>7, <2>1, <2>4, <3>4 DEF Insert
      <3>6. PutIn(q, k, e) /\ avail # NULL /\ result' = Status("E_SUCCESS")
        BY <3>1, <3>5, AddBeforePuts
      <3>7. length' = [length EXCEPT ![q] = @ + 1]
        BY <1>1, <3>5 DEF AddBefore
      <3> QED
        BY <3>3, <3>6, <3>7 DEF Adds
    <2> QED
      BY <2>3, <2>4
  <1>8. CASE QAppend(q, e)
    BY <1>4, <1>5, <1>8 DEF QAppend
  <1>9. CASE Insert(q, e)
    BY <1>4, <1>5, <1>6, <1>7, <1>9
  <1> QED
    BY <1>8, <1>9

(***************************************************************************)
(* What _q_remove does.                                                    *)
(***************************************************************************)
LEMMA FirstDrops ==
  ASSUME NEW M, NEW F, Shape(M, F, prev, next, avail, head, tail, length), QTypes,
         NEW q \in Queues, UnlinkFirst(q)
  PROVE  /\ length[q] # 0 /\ DroppedFrom(q, 1) /\ result' = Taken(Cells[q][1])
         /\ Shorter(q)
  <1>1. length[q] \in Nat /\ length[q] # 0 /\ 1 \in 1..length[q] /\ length \in [Queues -> Nat]
    BY DEF UnlinkFirst, Empty, QTypes
  <1>2. head[q] = InRow(q)[1] /\ prev[InRow(q)[1]] = NULL
    BY <1>1, RowEnds
  <1>3. Unlink(q, InRow(q)[1])
    BY <1>2 DEF UnlinkFirst, Unlink, Free, Set
  <1>4. Shorter(q)
    BY DEF UnlinkFirst, Shorter
  <1> QED
    BY <1>1, <1>3, <1>4, UnlinkDrops

(***************************************************************************)
(* What _q_remove_by_key does where it does not take the first node.       *)
(***************************************************************************)
LEMMA RemoveEffect ==
  ASSUME NEW M, NEW F, Shape(M, F, prev, next, avail, head, tail, length), QTypes,
         NEW q \in Queues, NEW k \in Keys, RemoveByKey(q, k), ~ FoundEmpty(q), ~ UnlinkFirst(q)
  PROVE  /\ length[q] # 0 /\ Discipline[q] # "fifo"
         /\ \/ /\ result' = Status("E_NOT_FOUND") /\ UNCHANGED <<entry, links>>
               /\ \A i \in 1..length[q] : ~ Picks(q, i, k)
            \/ \E i \in 1..length[q] :
                 /\ Picks(q, i, k) /\ \A j \in 1..length[q] : j < i => ~ Picks(q, j, k)
                 /\ DroppedFrom(q, i) /\ result' = Taken(Cells[q][i]) /\ Shorter(q)
  <1>1. length[q] \in Nat /\ (Empty(q) <=> length[q] = 0) /\ length \in [Queues -> Nat]
    BY DEF Empty, QTypes
  <1> DEFINE n == Found(q, k)
  <1>2. /\ ~ Empty(q) /\ Discipline[q] # "fifo"
        /\ \/ n = NULL /\ result' = Status("E_NOT_FOUND") /\ UNCHANGED <<entry, links>>
           \/ n # NULL /\ Unlink(q, n)
    BY DEF RemoveByKey, Found
  <1>3. \/ n = NULL /\ \A i \in 1..length[q] : ~ Picks(q, i, k)
        \/ \E i \in 1..length[q] :
              /\ n = InRow(q)[i] /\ n # NULL
              /\ Picks(q, i, k) /\ \A j \in 1..length[q] : j < i => ~ Picks(q, j, k)
    BY FoundAt
  <1> HIDE DEF n
  <1>4. CASE n = NULL
    BY <1>1, <1>2, <1>3, <1>4
  <1>5. CASE n # NULL
    <2>1. PICK i \in 1..length[q] :
              n = InRow(q)[i] /\ Picks(q, i, k) /\ \A j \in 1..length[q] : j < i => ~ Picks(q, j, k)
      BY <1>3, <1>5
    <2>2. Unlink(q, InRow(q)[i])
      BY <1>2, <1>5, <2>1
    <2>3. DroppedFrom(q, i) /\ result' = Taken(Cells[q][i])
      BY <2>2, UnlinkDrops
    <2>4. Shorter(q)
      BY <2>2 DEF Unlink, Shorter
    <2> QED
      BY <1>1, <1>2, <2>1, <2>3, <2>4
  <1> QED
    BY <1>4, <1>5

(***************************************************************************)
(* The keys of every queue with a comparison routine stay ascending, with  *)
(* an entry more.                                                          *)
(***************************************************************************)
LEMMA OrderedPut ==
  ASSUME QTypes, Ordered, NEW q \in Queues, NEW k \in 1..(length[q] + 1), NEW e, e.key \in Nat,
         \A i \in 1..length[q] : Cells[q][i].key \in Nat,
         Belongs(q, k, e), PutIn(q, k, e), length' = [length EXCEPT ![q] = @ + 1]
  PROVE  Ordered'
  <1> SUFFICES ASSUME NEW r \in Queues, Discipline[r] # "fifo" PROVE Sorted(Cells'[r], length'[r])
    BY DEF Ordered
  <1>1. length \in [Queues -> Nat] /\ DOMAIN Cells = Queues
    BY DEF QTypes, Cells
  <1>2. Sorted(Cells[r], length[r])
    BY DEF Ordered
  <1>3. CASE r = q
    <2>1. Cells'[q] = Put(Cells[q], length[q], k, e) /\ length'[q] = length[q] + 1
      BY <1>1 DEF PutIn
    <2>2. \A i \in 1..length[q] : i < k <=> Cells[q][i].key <= e.key
      BY <1>3 DEF Belongs
    <2> QED
      BY <1>1, <1>2, <1>3, <2>1, <2>2, SortedPut
  <1>4. CASE r # q
    <2>1. Cells'[r] = Cells[r] /\ length'[r] = length[r]
      BY <1>1, <1>4 DEF PutIn
    <2> QED
      BY <1>2, <2>1
  <1> QED
    BY <1>3, <1>4

(***************************************************************************)
(* And with one less.                                                      *)
(***************************************************************************)
LEMMA OrderedDrop ==
  ASSUME QTypes, Ordered, NEW q \in Queues, NEW k \in 1..length[q],
         DroppedFrom(q, k), Shorter(q)
  PROVE  Ordered'
  <1> SUFFICES ASSUME NEW r \in Queues, Discipline[r] # "fifo" PROVE Sorted(Cells'[r], length'[r])
    BY DEF Ordered
  <1>1. length \in [Queues -> Nat] /\ DOMAIN Cells = Queues
    BY DEF QTypes, Cells
  <1>2. Sorted(Cells[r], length[r])
    BY DEF Ordered
  <1>3. CASE r = q
    <2>1. Cells'[q] = Drop(Cells[q], length[q], k) /\ length'[q] = length[q] - 1
      BY <1>1 DEF DroppedFrom, Shorter
    <2> QED
      BY <1>1, <1>2, <1>3, <2>1, SortedDrop
  <1>4. CASE r # q
    <2>1. Cells'[r] = Cells[r] /\ length'[r] = length[r]
      BY <1>1, <1>4 DEF DroppedFrom, Shorter
    <2> QED
      BY <1>2, <2>1
  <1> QED
    BY <1>3, <1>4

(***************************************************************************)
(* Every call has one of the effects, and keeps the keys ascending.        *)
(***************************************************************************)
LEMMA QueueStep ==
  ASSUME QInv, Ordered, QueueNext
  PROVE  QueueEffect /\ Ordered'
  <1>1. PICK M, F : Shape(M, F, prev, next, avail, head, tail, length)
    BY DEF QInv
  <1>2. QTypes
    BY DEF QInv
  <1>3. ASSUME Same PROVE Ordered'
    BY <1>3 DEF Same, Ordered
  <1>4. \A q \in Queues : Empty(q) => length[q] = 0
    BY <1>2 DEF Empty, QTypes
  <1>5. ASSUME NEW q \in Queues, NEW e \in Entries, QAppend(q, e) \/ Insert(q, e)
        PROVE  QueueEffect /\ Ordered'
    <2>1. CASE NoNodes
      <3>1. Same
        BY <2>1, NothingMoved DEF NoNodes
      <3>2. Entries # {}
        OBVIOUS
      <3> QED
        BY <1>3, <2>1, <3>1, <3>2 DEF NoNodes, QueueEffect
    <2>2. CASE ~ NoNodes
      <3>1. Adds(q)
        BY <1>1, <1>2, <1>5, <2>2, AddEffect
      <3>2. QueueEffect
        BY <3>1 DEF QueueEffect
      <3>3. PICK x \in Entries, k \in 1..(length[q] + 1) : Belongs(q, k, x) /\ PutIn(q, k, x)
        BY <3>1 DEF Adds
      <3>4. x.key \in Nat /\ \A i \in 1..length[q] : Cells[q][i].key \in Nat
        BY <1>1, <1>2, CellTypes, QueueAssumption
      <3>5. length' = [length EXCEPT ![q] = @ + 1]
        BY <3>1 DEF Adds
      <3>6. Ordered'
        BY <1>2, <3>3, <3>4, <3>5, OrderedPut
      <3> QED
        BY <3>2, <3>6
    <2> QED
      BY <2>1, <2>2
  <1>6. ASSUME NEW q \in Queues, FoundEmpty(q) PROVE QueueEffect /\ Ordered'
    <2>1. Same
      BY <1>6, NothingMoved DEF FoundEmpty
    <2> QED
      BY <1>3, <1>4, <1>6, <2>1 DEF FoundEmpty, QueueEffect
  <1>7. ASSUME NEW q \in Queues, UnlinkFirst(q) PROVE QueueEffect /\ Ordered'
    <2>1. length[q] # 0 /\ DroppedFrom(q, 1) /\ result' = Taken(Cells[q][1]) /\ Shorter(q)
      BY <1>1, <1>2, <1>7, FirstDrops
    <2>2. 1 \in 1..length[q]
      BY <1>2, <2>1 DEF QTypes
    <2>3. Ordered'
      BY <1>2, <2>1, <2>2, OrderedDrop
    <2> QED
      BY <2>1, <2>3 DEF QueueEffect
  <1>8. ASSUME NEW q \in Queues, NEW k \in Keys, RemoveByKey(q, k), ~ FoundEmpty(q), ~ UnlinkFirst(q)
        PROVE  QueueEffect /\ Ordered'
    <2>1. /\ length[q] # 0 /\ Discipline[q] # "fifo"
          /\ \/ /\ result' = Status("E_NOT_FOUND") /\ UNCHANGED <<entry, links>>
                /\ \A i \in 1..length[q] : ~ Picks(q, i, k)
             \/ \E i \in 1..length[q] :
                  /\ Picks(q, i, k) /\ \A j \in 1..length[q] : j < i => ~ Picks(q, j, k)
                  /\ DroppedFrom(q, i) /\ result' = Taken(Cells[q][i]) /\ Shorter(q)
      BY <1>1, <1>2, <1>8, RemoveEffect
    <2>2. CASE result' = Status("E_NOT_FOUND") /\ UNCHANGED <<entry, links>> /\ \A i \in 1..length[q] :
            ~ Picks(q, i, k)
      <3>1. Same
        BY <2>2, NothingMoved
      <3> QED
        BY <1>3, <2>1, <2>2, <3>1 DEF QueueEffect
    <2>3. ASSUME NEW i \in 1..length[q], Picks(q, i, k), \A j \in 1..length[q] : j < i => ~ Picks(q, j, k),
                 DroppedFrom(q, i), result' = Taken(Cells[q][i]), Shorter(q)
          PROVE  QueueEffect /\ Ordered'
      <3>1. Ordered'
        BY <1>2, <2>3, OrderedDrop
      <3> QED
        BY <2>3, <3>1 DEF QueueEffect
    <2> QED
      BY <2>1, <2>2, <2>3
  <1> QED
    BY <1>5, <1>6, <1>7, <1>8 DEF QueueNext, Remove

(***************************************************************************)
(* Put, said with subsequences.                                            *)
(***************************************************************************)
LEMMA PutSeq ==
  ASSUME NEW T, NEW c \in Seq(T), NEW e \in T, NEW k \in 1..(Len(c) + 1)
  PROVE  Put(c, Len(c), k, e) = SubSeq(c, 1, k - 1) \o <<e>> \o SubSeq(c, k, Len(c))
  <1> DEFINE l == Len(c)
             a == SubSeq(c, 1, k - 1)
             b == a \o <<e>>
             d == SubSeq(c, k, l)
  <1>1. l \in Nat /\ k \in Nat /\ k - 1 \in 0..l /\ k \in 1..(l + 1)
    OBVIOUS
  <1>2. a \in Seq(T) /\ Len(a) = k - 1 /\ \A i \in 1..(k - 1) : a[i] = c[i]
    BY <1>1
  <1>3. d \in Seq(T) /\ Len(d) = l - k + 1 /\ \A i \in 1..(l - k + 1) : d[i] = c[k + i - 1]
    BY <1>1
  <1> HIDE DEF a, d, l
  <1>4. b \in Seq(T) /\ Len(b) = k /\ b[k] = e /\ \A i \in 1..(k - 1) : b[i] = c[i]
    BY <1>1, <1>2
  <1> HIDE DEF b
  <1>5. b \o d \in Seq(T) /\ Len(b \o d) = l + 1
    <2>0. b \in Seq(T) /\ d \in Seq(T)
      BY <1>3, <1>4
    <2>1. b \o d \in Seq(T) /\ Len(b \o d) = Len(b) + Len(d)
      BY <2>0
    <2>2. Len(b) + Len(d) = l + 1
      BY <1>1, <1>3, <1>4
    <2> QED
      BY <2>1, <2>2
  <1>6. \A i \in 1..(l + 1) : (b \o d)[i] = IF i < k THEN c[i] ELSE IF i = k THEN e ELSE c[i - 1]
    <2> SUFFICES ASSUME NEW i \in 1..(l + 1)
                 PROVE  (b \o d)[i] = IF i < k THEN c[i] ELSE IF i = k THEN e ELSE c[i - 1]
      OBVIOUS
    <2>1. (b \o d)[i] = IF i <= k THEN b[i] ELSE d[i - k]
      BY <1>1, <1>3, <1>4
    <2>2. CASE i <= k
      BY <1>1, <1>4, <2>1, <2>2
    <2>3. CASE ~ (i <= k)
      <3>1. i - k \in 1..(l - k + 1) /\ k + (i - k) - 1 = i - 1 /\ ~ (i < k) /\ i # k
        BY <1>1, <2>3
      <3>2. d[i - k] = c[i - 1]
        BY <1>3, <3>1
      <3> QED
        BY <2>1, <2>3, <3>1, <3>2
    <2> QED
      BY <2>2, <2>3
  <1>7. b \o d = [i \in 1..(l + 1) |-> (b \o d)[i]]
    <2> DEFINE z == b \o d
    <2>1. z \in Seq(T) /\ Len(z) = l + 1
      BY <1>5
    <2> HIDE DEF z
    <2>2. z = [i \in 1..Len(z) |-> z[i]]
      BY <2>1
    <2>3. z = [i \in 1..(l + 1) |-> z[i]]
      BY <2>1, <2>2
    <2> QED
      BY <2>3 DEF z
  <1>8. Put(c, l, k, e) = b \o d
    BY <1>6, <1>7 DEF Put
  <1> QED
    BY <1>8 DEF a, b, d, l

(***************************************************************************)
(* Drop, said with subsequences.                                           *)
(***************************************************************************)
LEMMA DropSeq ==
  ASSUME NEW T, NEW c \in Seq(T), NEW k \in 1..Len(c)
  PROVE  Drop(c, Len(c), k) = SubSeq(c, 1, k - 1) \o SubSeq(c, k + 1, Len(c))
  <1> DEFINE l == Len(c)
             a == SubSeq(c, 1, k - 1)
             d == SubSeq(c, k + 1, l)
  <1>1. l \in Nat /\ k \in Nat /\ k - 1 \in 0..l /\ k \in 1..l
    OBVIOUS
  <1>2. a \in Seq(T) /\ Len(a) = k - 1 /\ \A i \in 1..(k - 1) : a[i] = c[i]
    BY <1>1
  <1>3. d \in Seq(T) /\ Len(d) = l - k /\ \A i \in 1..(l - k) : d[i] = c[k + i]
    BY <1>1
  <1> HIDE DEF a, d, l
  <1>5. a \o d \in Seq(T) /\ Len(a \o d) = l - 1
    <2>0. a \in Seq(T) /\ d \in Seq(T)
      BY <1>3, <1>2
    <2>1. a \o d \in Seq(T) /\ Len(a \o d) = Len(a) + Len(d)
      BY <2>0
    <2>2. Len(a) + Len(d) = l - 1
      BY <1>1, <1>3, <1>2
    <2> QED
      BY <2>1, <2>2
  <1>6. \A i \in 1..(l - 1) : (a \o d)[i] = IF i < k THEN c[i] ELSE c[i + 1]
    <2> SUFFICES ASSUME NEW i \in 1..(l - 1) PROVE (a \o d)[i] = IF i < k THEN c[i] ELSE c[i + 1]
      OBVIOUS
    <2>1. (a \o d)[i] = IF i <= k - 1 THEN a[i] ELSE d[i - (k - 1)]
      BY <1>1, <1>3, <1>2
    <2>2. CASE i < k
      BY <1>1, <1>2, <2>1, <2>2
    <2>3. CASE ~ (i < k)
      <3>1. i - (k - 1) \in 1..(l - k) /\ k + (i - (k - 1)) = i + 1 /\ ~ (i <= k - 1)
        BY <1>1, <2>3
      <3>2. d[i - (k - 1)] = c[i + 1]
        BY <1>3, <3>1
      <3> QED
        BY <2>1, <2>3, <3>1, <3>2
    <2> QED
      BY <2>2, <2>3
  <1>7. a \o d = [i \in 1..(l - 1) |-> (a \o d)[i]]
    <2> DEFINE z == a \o d
    <2>1. z \in Seq(T) /\ Len(z) = l - 1
      BY <1>5
    <2> HIDE DEF z
    <2>2. z = [i \in 1..Len(z) |-> z[i]]
      BY <2>1
    <2>3. z = [i \in 1..(l - 1) |-> z[i]]
      BY <2>1, <2>2
    <2> QED
      BY <2>3 DEF z
  <1>8. Drop(c, l, k) = a \o d
    BY <1>6, <1>7 DEF Drop
  <1> QED
    BY <1>8 DEF a, d, l

(***************************************************************************)
(* Appending and inserting are additions to the sequences.                 *)
(***************************************************************************)
LEMMA AbsAdd ==
  ASSUME NEW M, NEW F, Shape(M, F, prev, next, avail, head, tail, length), QTypes,
         NEW q \in Queues, Adds(q)
  PROVE  Abs!Next
  <1>1. PICK e \in Entries, k \in 1..(length[q] + 1) : Belongs(q, k, e) /\ PutIn(q, k, e)
    BY DEF Adds
  <1>2. ~ Abs!Full
    BY FullWhen DEF Adds
  <1>3. /\ Cells[q] \in Seq(Entries \cup {NoEntry}) /\ Len(Cells[q]) = length[q]
        /\ DOMAIN Cells[q] = 1..length[q]
    BY CellTypes
  <1>4. result' = Abs!Status("E_SUCCESS")
    BY DEF Adds, Status, NoEntry, Abs!Status, Abs!NoEntry
  <1>5. Cells' = [Cells EXCEPT ![q] = SubSeq(@, 1, k - 1) \o <<e>> \o SubSeq(@, k, Len(@))]
    <2>1. Put(Cells[q], length[q], k, e) = SubSeq(Cells[q], 1, k - 1) \o <<e>> \o SubSeq(Cells[q], k, Len(Cells[q]))
      <3>1. e \in Entries \cup {NoEntry} /\ k \in 1..(Len(Cells[q]) + 1)
        BY <1>3
      <3> QED
        BY <1>3, <3>1, PutSeq
    <2>2. Cells' = [Cells EXCEPT ![q] = Put(Cells[q], length[q], k, e)]
      BY <1>1 DEF PutIn
    <2> QED
      BY <2>1, <2>2, Zenon
  <1>6. \A i \in DOMAIN Cells[q] : i < k <=> Abs!Ahead(q, Cells[q][i], e)
    BY <1>1, <1>3 DEF Belongs, Abs!Ahead
  <1>7. k \in 1..(Len(Cells[q]) + 1)
    BY <1>3
  <1>8. Abs!Add(q, e)
    <2> USE DEF Cells
    <2> QED
      BY <1>2, <1>4, <1>5, <1>6, <1>7, Zenon DEF Abs!Add
  <1> QED
    BY <1>8, Zenon DEF Abs!Next

(***************************************************************************)
(* Unlinking is taking out of a sequence.                                  *)
(***************************************************************************)
LEMMA AbsTakeOut ==
  ASSUME NEW M, NEW F, Shape(M, F, prev, next, avail, head, tail, length), QTypes,
         NEW q \in Queues, NEW i \in 1..length[q], DroppedFrom(q, i), result' = Taken(Cells[q][i])
  PROVE  Abs!TakeOut(q, i)
  <1>1. /\ Cells[q] \in Seq(Entries \cup {NoEntry}) /\ Len(Cells[q]) = length[q]
    BY CellTypes
  <1>2. Cells' = [Cells EXCEPT ![q] = SubSeq(@, 1, i - 1) \o SubSeq(@, i + 1, Len(@))]
    <2>1. Drop(Cells[q], length[q], i) = SubSeq(Cells[q], 1, i - 1) \o SubSeq(Cells[q], i + 1, Len(Cells[q]))
      BY <1>1, DropSeq
    <2>2. Cells' = [Cells EXCEPT ![q] = Drop(Cells[q], length[q], i)]
      BY DEF DroppedFrom
    <2> QED
      BY <2>1, <2>2, Zenon
  <1>3. result' = Abs!Taken(Cells[q][i])
    BY DEF Taken, Abs!Taken
  <1> QED
    BY <1>2, <1>3, Zenon DEF Abs!TakeOut, Cells

(***************************************************************************)
(* What a removal by key may pick is what the routines accept.             *)
(***************************************************************************)
LEMMA CandidatesAre ==
  ASSUME NEW q \in Queues, NEW k, DOMAIN Cells[q] = 1..length[q], Discipline[q] # "fifo"
  PROVE  Abs!Candidates(q, k) = {i \in 1..length[q] : Picks(q, i, k)}
  <1>1. Discipline[q] = "equal" \/ Discipline[q] = "le"
    BY QueueAssumption
  <1>2. Abs!Candidates(q, k) = {i \in DOMAIN Cells[q] :
          CASE Discipline[q] = "fifo" -> TRUE
            [] Discipline[q] = "equal" -> Cells[q][i].key = k
            [] Discipline[q] = "le" -> Cells[q][i].key <= k}
    BY DEF Abs!Candidates, Cells
  <1>3. CASE Discipline[q] = "equal"
    BY <1>2, <1>3 DEF Picks
  <1>4. CASE Discipline[q] = "le"
    BY <1>2, <1>4 DEF Picks
  <1> QED
    BY <1>1, <1>3, <1>4

(***************************************************************************)
(* Each effect is a step of the sequences.                                 *)
(***************************************************************************)
LEMMA QueueNextRefines ==
  ASSUME QInv, QueueEffect
  PROVE  Abs!Next
  <1>1. PICK M, F : Shape(M, F, prev, next, avail, head, tail, length)
    BY DEF QInv
  <1>2. QTypes
    BY DEF QInv
  <1>3. \A q \in Queues : /\ Cells[q] \in Seq(Entries \cup {NoEntry}) /\ Len(Cells[q]) = length[q]
                          /\ DOMAIN Cells[q] = 1..length[q] /\ length[q] \in Nat
    BY <1>1, <1>2, CellTypes DEF QTypes
  <1>4. \A q \in Queues : length[q] = 0 <=> Cells[q] = <<>>
    BY <1>3
  <1>5. \A s : Status(s) = Abs!Status(s)
    BY DEF Status, NoEntry, Abs!Status, Abs!NoEntry
  <1>6. Abs!Keys = Keys
    BY DEF Abs!Keys, Keys
  <1>7. PICK q \in Queues :
    \/ Entries # {} /\ avail = NULL /\ result' = Status("E_NO_QNODES") /\ Same
    \/ Adds(q)
    \/ length[q] = 0 /\ result' = Status("E_EMPTY") /\ Same
    \/ length[q] # 0 /\ DroppedFrom(q, 1) /\ result' = Taken(Cells[q][1]) /\ Shorter(q)
    \/ \E k \in Keys :
         /\ length[q] # 0 /\ Discipline[q] # "fifo" /\ result' = Status("E_NOT_FOUND") /\ Same
         /\ \A i \in 1..length[q] : ~ Picks(q, i, k)
    \/ \E k \in Keys : \E i \in 1..length[q] :
         /\ Picks(q, i, k) /\ \A j \in 1..length[q] : j < i => ~ Picks(q, j, k)
         /\ DroppedFrom(q, i) /\ result' = Taken(Cells[q][i]) /\ Shorter(q)
    BY DEF QueueEffect
  <1>8. CASE Entries # {} /\ avail = NULL /\ result' = Status("E_NO_QNODES") /\ Same
    <2>1. PICK e \in Entries : TRUE
      BY <1>8
    <2>2. Abs!Full
      BY <1>1, <1>2, <1>8, FullWhen
    <2>3. result' = Abs!Status("E_NO_QNODES") /\ Cells' = Cells
      BY <1>5, <1>8 DEF Same
    <2>4. Abs!Add(q, e)
      BY <2>2, <2>3, Zenon DEF Abs!Add, Cells
    <2> QED
      BY <2>4, Zenon DEF Abs!Next
  <1>9. CASE Adds(q)
    BY <1>1, <1>2, <1>9, AbsAdd
  <1>10. CASE length[q] = 0 /\ result' = Status("E_EMPTY") /\ Same
    <2>1. result' = Abs!Status("E_EMPTY") /\ Cells' = Cells /\ Cells[q] = <<>>
      BY <1>4, <1>5, <1>10 DEF Same
    <2>2. Abs!Remove(q)
      BY <2>1, Zenon DEF Abs!Remove, Cells
    <2> QED
      BY <2>2, Zenon DEF Abs!Next
  <1>11. CASE length[q] # 0 /\ DroppedFrom(q, 1) /\ result' = Taken(Cells[q][1]) /\ Shorter(q)
    <2>1. 1 \in 1..length[q] /\ Cells[q] # <<>>
      BY <1>3, <1>4, <1>11
    <2>2. Abs!TakeOut(q, 1)
      BY <1>1, <1>2, <1>11, <2>1, AbsTakeOut
    <2>3. Abs!Remove(q)
      BY <2>1, <2>2, Zenon DEF Abs!Remove, Cells
    <2> QED
      BY <2>3, Zenon DEF Abs!Next
  <1>12. ASSUME NEW k \in Keys, length[q] # 0, Discipline[q] # "fifo", result' = Status("E_NOT_FOUND"), Same,
                \A i \in 1..length[q] : ~ Picks(q, i, k)
         PROVE  Abs!Next
    <2>1. Abs!Candidates(q, k) = {}
      BY <1>3, <1>12, CandidatesAre
    <2>2. result' = Abs!Status("E_NOT_FOUND") /\ Cells' = Cells /\ Cells[q] # <<>>
      BY <1>4, <1>5, <1>12 DEF Same
    <2>3. Abs!RemoveByKey(q, k)
      BY <2>1, <2>2, Zenon DEF Abs!RemoveByKey, Cells
    <2> QED
      BY <1>6, <2>3, Zenon DEF Abs!Next
  <1>13. ASSUME NEW k \in Keys, NEW i \in 1..length[q], Picks(q, i, k),
                \A j \in 1..length[q] : j < i => ~ Picks(q, j, k),
                DroppedFrom(q, i), result' = Taken(Cells[q][i])
         PROVE  Abs!Next
    <2>1. Discipline[q] # "fifo"
      BY <1>13 DEF Picks
    <2>2. Abs!Candidates(q, k) = {j \in 1..length[q] : Picks(q, j, k)}
      BY <1>3, <2>1, CandidatesAre
    <2>3. i \in Abs!Candidates(q, k) /\ \A j \in Abs!Candidates(q, k) : i <= j
      BY <1>3, <1>13, <2>2
    <2>4. Abs!TakeOut(q, i)
      BY <1>1, <1>2, <1>13, AbsTakeOut
    <2>5. Abs!RemoveByKey(q, k)
      BY <2>3, <2>4, Zenon DEF Abs!RemoveByKey
    <2> QED
      BY <1>6, <2>5, Zenon DEF Abs!Next
  <1> QED
    BY <1>7, <1>8, <1>9, <1>10, <1>11, <1>12, <1>13

(***************************************************************************)
(* The linked lists of queue.c are the ordered sequences of AbsQueue, for  *)
(* any number of nodes, queues and entries: insertion keeps the keys       *)
(* ascending and equal keys in the order they came, a removal finds the    *)
(* entry it should, and every status returned is the one due.              *)
(***************************************************************************)
THEOREM QueueRefines == QueueSpec => ImplementsAbsQueue
  <1> DEFINE Inv == QInv /\ Ordered
  <1>1. QueueInit => Inv
    <2> SUFFICES ASSUME QueueInit PROVE Ordered
      BY QInitInv
    <2>1. \A q \in Queues : length[q] = 0
      BY DEF QueueInit
    <2> QED
      BY <2>1 DEF Ordered, Sorted
  <1>2. Inv /\ [QueueNext]_queueVars => Inv'
    <2> SUFFICES ASSUME QInv, Ordered, [QueueNext]_queueVars PROVE Ordered'
      BY QStep
    <2>1. CASE QueueNext
      BY <2>1, QueueStep
    <2>2. CASE UNCHANGED queueVars
      <3>1. Same
        BY <2>2, NothingMoved DEF queueVars
      <3> QED
        BY <3>1 DEF Same, Ordered
    <2> QED
      BY <2>1, <2>2
  <1>3. QueueInit => Abs!Init
    <2> SUFFICES ASSUME QueueInit PROVE Abs!Init
      OBVIOUS
    <2>1. \A q \in Queues : Cells[q] = <<>>
      BY CellsNow DEF QueueInit
    <2>2. Cells = [q \in Queues |-> <<>>]
      BY <2>1 DEF Cells
    <2>3. result = Abs!Status("none")
      BY DEF QueueInit, Status, NoEntry, Abs!Status, Abs!NoEntry
    <2> QED
      BY <2>2, <2>3, Zenon DEF Abs!Init, Cells
  <1>4. Inv /\ [QueueNext]_queueVars => [Abs!Next]_(Abs!absvars)
    <2> SUFFICES ASSUME QInv, Ordered, [QueueNext]_queueVars PROVE [Abs!Next]_(Abs!absvars)
      OBVIOUS
    <2>1. CASE QueueNext
      BY <2>1, QueueStep, QueueNextRefines
    <2>2. CASE UNCHANGED queueVars
      <3>1. Cells' = Cells /\ result' = result
        BY <2>2, NothingMoved DEF queueVars, Same
      <3> QED
        BY <3>1, Zenon DEF Abs!absvars, Cells
    <2> QED
      BY <2>1, <2>2
  <1> QED
    BY <1>1, <1>2, <1>3, <1>4, PTL DEF QueueSpec, ImplementsAbsQueue, Abs!Spec

-----------------------------------------------------------------------------
(* kheap.c: the list of free blocks *)

\* y is the first block of S behind x.
After(S, x, y) ==
  /\ y \in S \cup {NIL} /\ (y # NIL => y > x)
  /\ \A c \in S : c > x => y # NIL /\ y <= c

Blocks(S, h, U) ==
  /\ DOMAIN h \in SUBSET (Nat \ {0}) /\ IsFiniteSet(DOMAIN h)
  /\ h \in [DOMAIN h -> [length : Nat, next : Nat]]
  /\ DOMAIN h = S \cup U /\ S \cap U = {}

\* The free blocks S are linked by address.
Linking(S, f, h) == After(S, 0, f) /\ \A b \in S : After(S, b, h[b].next)

\* Blocks lie one behind the other, free ones with a gap between them, but for what follows those of E.
Layout(S, h, E) ==
  /\ \A b, c \in DOMAIN h : b < c => b + h[b].length < c
  /\ \A b, c \in S : b < c /\ b \notin E => b + 1 + h[b].length < c

Within(h, w) == \E b \in DOMAIN h : b <= w /\ w <= b + h[b].length

Covers(h, mem) == mem \in SUBSET Nat /\ \A w \in Nat : w \in mem <=> Within(h, w)

HeapShape(S, f, h, U, mem, E) == Blocks(S, h, U) /\ Linking(S, f, h) /\ Layout(S, h, E) /\ Covers(h, mem)

HeapInv ==
  /\ \E S : HeapShape(S, freelist, header, DOMAIN used, memory, {})
  /\ \A b \in DOMAIN used : header[b].length >= used[b] /\ used[b] \in Nat

\* One with all that a walk along the list meets, for a list of the blocks of a set.
ChainIs(at, N) ==
  at = [i \in 0..N |-> IF i = 0 THEN freelist ELSE IF at[i - 1] = NIL THEN NIL ELSE header[at[i - 1]].next]

(***************************************************************************)
(* The recursive function that Chain chooses is one.                       *)
(***************************************************************************)
LEMMA ChainThere ==
  ASSUME IsFiniteSet(DOMAIN header)
  PROVE  ChainIs(Chain, Cardinality(DOMAIN header)) /\ Cardinality(DOMAIN header) \in Nat
  <1> DEFINE N == Cardinality(DOMAIN header)
  <1>0. N \in Nat
    BY FS_CardinalityType
  <1> HIDE DEF N
  <1> DEFINE T == {m \in Nat : \E at : ChainIs(at, m)}
  <1>1. 0 \in T
    <2>1. ChainIs([i \in 0..0 |-> freelist], 0)
      BY DEF ChainIs
    <2> QED
      BY <2>1
  <1>2. ASSUME NEW m \in T
        PROVE  m + 1 \in T
    <2>1. PICK f : ChainIs(f, m)
      BY <1>2
    <2> DEFINE h == [i \in 0..(m + 1) |-> IF i <= m THEN f[i] ELSE IF f[m] = NIL THEN NIL ELSE header[f[m]].next]
    <2>a. m \in Nat
      BY <1>2
    <2>b. \A i \in 0..m :
            f[i] = IF i = 0 THEN freelist ELSE IF f[i - 1] = NIL THEN NIL ELSE header[f[i - 1]].next
      BY <2>1 DEF ChainIs
    <2>c. \A i \in 0..(m + 1) : h[i] = IF i <= m THEN f[i] ELSE IF f[m] = NIL THEN NIL ELSE header[f[m]].next
      OBVIOUS
    <2>d. DOMAIN h = 0..(m + 1) /\ h = [i \in 0..(m + 1) |-> h[i]]
      OBVIOUS
    <2> HIDE DEF h
    <2>e. ASSUME NEW i \in 0..(m + 1)
          PROVE  h[i] = IF i = 0 THEN freelist ELSE IF h[i - 1] = NIL THEN NIL ELSE header[h[i - 1]].next
      <3>1. CASE i = m + 1
        <4>1. ~ (i <= m) /\ i # 0 /\ i - 1 = m /\ m \in 0..(m + 1) /\ m <= m
          BY <2>a, <3>1
        <4>2. h[i] = IF f[m] = NIL THEN NIL ELSE header[f[m]].next
          BY <2>c, <4>1
        <4>3. h[i - 1] = f[m]
          BY <2>c, <4>1
        <4> QED
          BY <4>1, <4>2, <4>3
      <3>2. CASE i # m + 1
        <4>1. i <= m /\ i \in 0..m /\ (i # 0 => i - 1 \in 0..(m + 1) /\ i - 1 <= m)
          BY <2>a, <3>2
        <4>2. h[i] = f[i] /\ (i # 0 => h[i - 1] = f[i - 1])
          BY <2>c, <4>1
        <4> QED
          BY <2>b, <4>1, <4>2
      <3> QED
        BY <3>1, <3>2
    <2>2. ChainIs(h, m + 1)
      BY <2>d, <2>e DEF ChainIs
    <2>3. \E at : ChainIs(at, m + 1)
      BY <2>2
    <2> QED
      BY <2>3
  <1>3. N \in T
    <2> HIDE DEF T
    <2>1. T \in SUBSET Nat
      BY DEF T
    <2> QED
      BY <1>0, <1>1, <1>2, <2>1, SetInduction
  <1>4. PICK f : ChainIs(f, N)
    BY <1>3
  <1> DEFINE Is(h) == h = [i \in 0..N |-> IF i = 0 THEN freelist
                             ELSE LET b == h[i - 1] IN IF b = NIL THEN NIL ELSE header[b].next]
  <1>5. Is(f)
    BY <1>4 DEF ChainIs
  <1>6. Chain = CHOOSE g : Is(g)
    BY DEF Chain, N
  <1> HIDE DEF Is
  <1>7. Is(Chain)
    BY <1>5, <1>6, Zenon
  <1>8. ChainIs(Chain, N)
    BY <1>7 DEF ChainIs, Is
  <1> QED
    BY <1>0, <1>8 DEF N

(***************************************************************************)
(* The list, step by step.                                                 *)
(***************************************************************************)
LEMMA ChainFacts ==
  ASSUME IsFiniteSet(DOMAIN header)
  PROVE  /\ Cardinality(DOMAIN header) \in Nat
         /\ DOMAIN Chain = 0..Cardinality(DOMAIN header)
         /\ Chain[0] = freelist
         /\ \A i \in DOMAIN Chain : i # 0 => /\ i \in Nat /\ i - 1 \in Nat /\ i - 1 \in DOMAIN Chain
                                             /\ Chain[i] = IF Chain[i - 1] = NIL THEN NIL ELSE header[Chain[i - 1]].next
  <1> DEFINE N == Cardinality(DOMAIN header)
  <1>1. Chain = [i \in 0..N |-> IF i = 0 THEN freelist ELSE IF Chain[i - 1] = NIL THEN NIL ELSE header[Chain[i - 1]].next] /\ N \in Nat
    BY ChainThere DEF ChainIs
  <1> HIDE DEF N
  <1>2. DOMAIN Chain = 0..N /\ 0 \in 0..N
    BY <1>1
  <1>3. Chain[0] = freelist
    BY <1>1, <1>2
  <1>4. \A i \in 0..N : i # 0 => i \in Nat /\ i - 1 \in Nat /\ i - 1 \in 0..N
    BY <1>1
  <1>5. \A i \in 0..N : i # 0 => Chain[i] = IF Chain[i - 1] = NIL THEN NIL ELSE header[Chain[i - 1]].next
    BY <1>1
  <1> QED
    BY <1>1, <1>2, <1>3, <1>4, <1>5 DEF N

(***************************************************************************)
(* A walk along a list in the order of addresses meets blocks ever higher  *)
(* up, and comes to its end.                                               *)
(***************************************************************************)
LEMMA Ascends ==
  ASSUME IsFiniteSet(DOMAIN header), DOMAIN header \in SUBSET (Nat \ {0}),
         \A i \in DOMAIN Chain : Chain[i] \in DOMAIN header \cup {NIL},
         \A i \in DOMAIN Chain : i # 0 /\ Chain[i] # NIL => Chain[i - 1] < Chain[i]
  PROVE  /\ \A i, j \in DOMAIN Chain : i < j /\ Chain[j] # NIL => Chain[i] # NIL /\ Chain[i] < Chain[j]
         /\ Chain[Cardinality(DOMAIN header)] = NIL
  <1> DEFINE N == Cardinality(DOMAIN header)
             D == DOMAIN header
  <1>1. /\ N \in Nat /\ DOMAIN Chain = 0..N
        /\ \A i \in 0..N : i # 0 => /\ i - 1 \in 0..N
                                    /\ Chain[i] = IF Chain[i - 1] = NIL THEN NIL ELSE header[Chain[i - 1]].next
    BY ChainFacts
  <1>2. \A i \in 0..N : Chain[i] \in D \cup {NIL} /\ Chain[i] \in Nat
    BY <1>1 DEF NIL
  <1> HIDE DEF N, D
  <1> DEFINE Up(j) == \A i \in 0..N : i < j /\ Chain[j] # NIL => Chain[i] # NIL /\ Chain[i] < Chain[j]
             T == {j \in Nat : j <= N => Up(j)}
  <1>3. 0 \in T
    OBVIOUS
  <1>4. ASSUME NEW j \in T PROVE j + 1 \in T
    <2> SUFFICES ASSUME j + 1 <= N, NEW i \in 0..N, i < j + 1, Chain[j + 1] # NIL
                 PROVE  Chain[i] # NIL /\ Chain[i] < Chain[j + 1]
      OBVIOUS
    <2>1. j \in 0..N /\ j + 1 \in 0..N /\ j + 1 # 0 /\ (j + 1) - 1 = j /\ Up(j)
      BY <1>1, <1>4
    <2>2. Chain[j] # NIL /\ Chain[j] < Chain[j + 1]
      BY <1>1, <2>1
    <2>3. CASE i = j
      BY <2>2, <2>3
    <2>4. CASE i # j
      <3>1. i < j
        BY <2>1, <2>4
      <3>2. Chain[i] # NIL /\ Chain[i] < Chain[j]
        BY <2>1, <2>2, <3>1
      <3> QED
        BY <1>2, <2>1, <2>2, <3>2
    <2> QED
      BY <2>3, <2>4
  <1>5. T = Nat
    <2> HIDE DEF T
    <2>1. T \in SUBSET Nat
      BY DEF T
    <2> QED
      BY <1>3, <1>4, <2>1, SetInduction
  <1>6. \A j \in 0..N : Up(j)
    BY <1>1, <1>5
  <1>7. Chain[N] = NIL
    <2> SUFFICES ASSUME Chain[N] # NIL PROVE FALSE
      OBVIOUS
    <2>1. \A i \in 0..N : Chain[i] # NIL
      BY <1>1, <1>6
    <2>2. Chain \in [0..N -> D]
      <3>1. Chain = [i \in 0..N |-> Chain[i]]
        BY <1>1, ChainThere DEF ChainIs, N
      <3> QED
        BY <1>2, <2>1, <3>1
    <2>3. ASSUME NEW i \in 0..N, NEW j \in 0..N, Chain[i] = Chain[j]
          PROVE  i = j
      <3>1. \A k, l \in 0..N : k < l => Chain[k] < Chain[l]
        BY <1>6, <2>1
      <3>2. i \in Nat /\ j \in Nat /\ Chain[i] \in Nat /\ Chain[j] \in Nat
        BY <1>1, <1>2
      <3>3. ~ (Chain[i] < Chain[j]) /\ ~ (Chain[j] < Chain[i])
        BY <2>3, <3>2
      <3>4. ~ (i < j) /\ ~ (j < i)
        BY <3>1, <3>3
      <3> QED
        BY <3>2, <3>4
    <2>4. Chain \in Injection(0..N, D)
      BY <2>2, <2>3 DEF Injection, IsInjective
    <2>5. Cardinality(0..N) = N + 1 /\ Cardinality(0..N) <= Cardinality(D)
      BY <1>1, <2>4, FS_Interval, FS_Injection DEF D
    <2> QED
      BY <1>1, <2>5 DEF N, D
  <1> QED
    BY <1>1, <1>6, <1>7 DEF N

(***************************************************************************)
(* The walk meets just the free blocks.                                    *)
(***************************************************************************)
LEMMA WalkOf ==
  ASSUME NEW S, NEW E, HeapShape(S, freelist, header, DOMAIN used, memory, E)
  PROVE  /\ \A i \in DOMAIN Chain : Chain[i] \in S \cup {NIL}
         /\ Chain[Cardinality(DOMAIN header)] = NIL
         /\ FreeBlocks = S
         /\ \A i \in DOMAIN Chain : i # 0 /\ Chain[i] # NIL => Chain[i - 1] \in S /\ Chain[i - 1] < Chain[i]
  <1> DEFINE N == Cardinality(DOMAIN header)
  <1>1. /\ IsFiniteSet(DOMAIN header) /\ DOMAIN header \in SUBSET (Nat \ {0}) /\ S \subseteq DOMAIN header
        /\ NIL \notin S /\ S \in SUBSET (Nat \ {0})
    BY DEF HeapShape, Blocks, NIL
  <1>2. /\ N \in Nat /\ DOMAIN Chain = 0..N /\ Chain[0] = freelist
        /\ \A i \in 0..N : i # 0 => /\ i \in Nat /\ i - 1 \in Nat /\ i - 1 \in 0..N
                                    /\ Chain[i] = IF Chain[i - 1] = NIL THEN NIL ELSE header[Chain[i - 1]].next
    BY <1>1, ChainFacts
  <1>3. After(S, 0, freelist) /\ \A b \in S : After(S, b, header[b].next)
    BY DEF HeapShape, Linking
  <1> HIDE DEF N
  <1>4. \A i \in 0..N : Chain[i] \in S \cup {NIL}
    <2> DEFINE T == {i \in Nat : i <= N => Chain[i] \in S \cup {NIL}}
    <2>1. 0 \in T
      BY <1>2, <1>3 DEF After
    <2>2. ASSUME NEW i \in T PROVE i + 1 \in T
      <3> SUFFICES ASSUME i + 1 <= N PROVE Chain[i + 1] \in S \cup {NIL}
        OBVIOUS
      <3>1. i + 1 \in 0..N /\ i + 1 # 0 /\ (i + 1) - 1 = i /\ i <= N /\ Chain[i] \in S \cup {NIL}
        BY <1>2, <2>2
      <3>2. Chain[i + 1] = IF Chain[i] = NIL THEN NIL ELSE header[Chain[i]].next
        BY <1>2, <3>1
      <3> QED
        BY <1>3, <3>1, <3>2 DEF After
    <2>3. T = Nat
      <3> HIDE DEF T
      <3>1. T \in SUBSET Nat
        BY DEF T
      <3> QED
        BY <2>1, <2>2, <3>1, SetInduction
    <2> QED
      BY <1>2, <2>3
  <1>5. \A i \in 0..N : i # 0 /\ Chain[i] # NIL => Chain[i - 1] \in S /\ Chain[i - 1] < Chain[i]
    <2> SUFFICES ASSUME NEW i \in 0..N, i # 0, Chain[i] # NIL
                 PROVE  Chain[i - 1] \in S /\ Chain[i - 1] < Chain[i]
      OBVIOUS
    <2>1. i - 1 \in 0..N /\ Chain[i] = IF Chain[i - 1] = NIL THEN NIL ELSE header[Chain[i - 1]].next
      BY <1>2
    <2>2. Chain[i - 1] \in S /\ Chain[i] = header[Chain[i - 1]].next
      BY <1>4, <2>1
    <2>3. After(S, Chain[i - 1], Chain[i])
      BY <1>3, <2>2
    <2> QED
      BY <1>1, <2>2, <2>3 DEF After
  <1>6. /\ \A i, j \in DOMAIN Chain : i < j /\ Chain[j] # NIL => Chain[i] # NIL /\ Chain[i] < Chain[j]
        /\ Chain[N] = NIL
    <2>1. /\ \A i \in DOMAIN Chain : Chain[i] \in DOMAIN header \cup {NIL}
          /\ \A i \in DOMAIN Chain : i # 0 /\ Chain[i] # NIL => Chain[i - 1] < Chain[i]
      BY <1>1, <1>2, <1>4, <1>5
    <2> QED
      BY <1>1, <2>1, Ascends DEF N
  <1>7. ASSUME NEW c \in S PROVE \E i \in 0..N : Chain[i] = c
    <2> DEFINE Beyond == {i \in Nat : i <= N /\ (Chain[i] = NIL \/ Chain[i] >= c)}
    <2>1. N \in Beyond
      BY <1>2, <1>6
    <2>2. PICK i \in Beyond : \A j \in Beyond : i <= j
      <3>1. Beyond \in SUBSET Nat
        OBVIOUS
      <3> HIDE DEF Beyond
      <3> QED
        BY <2>1, <3>1, LeastOf
    <2>3. i \in 0..N /\ i \in Nat /\ (Chain[i] = NIL \/ Chain[i] >= c)
      BY <1>2
    <2>4. Chain[i] # NIL /\ Chain[i] <= c
      <3>1. CASE i = 0
        BY <1>1, <1>2, <1>3, <3>1 DEF After
      <3>2. CASE i # 0
        <4>1. i - 1 \in Nat /\ i - 1 <= N /\ i - 1 < i /\ i - 1 \in 0..N
          BY <1>2, <2>3, <3>2
        <4>2. i - 1 \notin Beyond
          BY <2>2, <4>1
        <4>3. Chain[i - 1] # NIL /\ ~ (Chain[i - 1] >= c)
          BY <4>1, <4>2
        <4>4. Chain[i - 1] \in S /\ Chain[i] = header[Chain[i - 1]].next
          BY <1>2, <1>4, <2>3, <3>2, <4>1, <4>3
        <4>5. After(S, Chain[i - 1], Chain[i])
          BY <1>3, <4>4
        <4>6. c > Chain[i - 1]
          BY <1>1, <4>3, <4>4
        <4> QED
          BY <4>5, <4>6 DEF After
      <3> QED
        BY <3>1, <3>2
    <2>5. Chain[i] = c
      BY <1>1, <1>4, <2>3, <2>4
    <2> QED
      BY <2>3, <2>5
  <1>8. FreeBlocks = S
    BY <1>1, <1>2, <1>4, <1>7 DEF FreeBlocks
  <1> QED
    BY <1>2, <1>4, <1>5, <1>6, <1>8 DEF N

(***************************************************************************)
(* Where a walk stops, and the pointer it came by.                         *)
(***************************************************************************)
LEMMA Stopped ==
  ASSUME NEW S, NEW E, HeapShape(S, freelist, header, DOMAIN used, memory, E), NEW T
  PROVE  LET i == StopAt(T) IN
         /\ i \in DOMAIN Chain /\ i \in Nat /\ Chain[i] \in S \cup {NIL} /\ Chain[i] \in T \cup {NIL}
         /\ i = 0 => Chain[i] = freelist
         /\ i # 0 => Chain[i - 1] \in S /\ Chain[i - 1] \notin T /\ Chain[i] = header[Chain[i - 1]].next
  <1> DEFINE N == Cardinality(DOMAIN header)
             Is(i) == Chain[i] \in T \cup {NIL} /\ \A j \in 0..(i - 1) : Chain[j] \notin T \cup {NIL}
             St == {i \in 0..N : Chain[i] \in T \cup {NIL}}
             k == CHOOSE i \in DOMAIN Chain : Is(i)
  <1>1. IsFiniteSet(DOMAIN header) /\ NIL \notin S
    BY DEF HeapShape, Blocks, NIL
  <1>2. /\ N \in Nat /\ DOMAIN Chain = 0..N /\ Chain[0] = freelist
        /\ \A i \in 0..N : i # 0 => /\ i \in Nat /\ i - 1 \in Nat /\ i - 1 \in 0..N
                                    /\ Chain[i] = IF Chain[i - 1] = NIL THEN NIL ELSE header[Chain[i - 1]].next
    BY <1>1, ChainFacts
  <1>3. (\A i \in 0..N : Chain[i] \in S \cup {NIL}) /\ Chain[N] = NIL
    BY <1>2, WalkOf
  <1>4. StopAt(T) = k
    BY DEF StopAt
  <1>5. k \in 0..N /\ Is(k)
    <2>1. N \in St /\ St \in SUBSET Nat
      BY <1>2, <1>3
    <2>2. PICK i \in St : \A j \in St : i <= j
      <3> HIDE DEF St
      <3> QED
        BY <2>1, LeastOf
    <2>3. i \in DOMAIN Chain /\ Is(i)
      BY <1>2, <2>2
    <2>4. \E j : j \in DOMAIN Chain /\ Is(j)
      BY <2>3
    <2>5. k \in DOMAIN Chain /\ Is(k)
      <3> HIDE DEF Is
      <3> QED
        BY <2>4, Zenon
    <2> QED
      BY <1>2, <2>5
  <1> HIDE DEF k, N
  <1>6. k # 0 => Chain[k - 1] \in S /\ Chain[k - 1] \notin T /\ Chain[k] = header[Chain[k - 1]].next
    <2> SUFFICES ASSUME k # 0
                 PROVE  Chain[k - 1] \in S /\ Chain[k - 1] \notin T /\ Chain[k] = header[Chain[k - 1]].next
      OBVIOUS
    <2>1. k - 1 \in 0..N /\ k - 1 \in 0..(k - 1)
      BY <1>2, <1>5
    <2>2. Chain[k - 1] \notin T \cup {NIL}
      BY <1>5, <2>1
    <2> QED
      BY <1>2, <1>3, <1>5, <2>1, <2>2
  <1>7. k \in DOMAIN Chain /\ k \in Nat /\ Chain[k] \in S \cup {NIL} /\ Chain[k] \in T \cup {NIL}
          /\ (k = 0 => Chain[k] = freelist)
    BY <1>2, <1>3, <1>5
  <1> QED
    BY <1>4, <1>6, <1>7

(***************************************************************************)
(* The invariant says what the properties say.                             *)
(***************************************************************************)
LEMMA HeapMeans == HeapInv => HeapTiled /\ HeapMerged
  <1> SUFFICES ASSUME HeapInv PROVE HeapTiled /\ HeapMerged
    OBVIOUS
  <1>1. PICK S : HeapShape(S, freelist, header, DOMAIN used, memory, {})
    BY DEF HeapInv
  <1>2. /\ FreeBlocks = S
        /\ \A i \in DOMAIN Chain : i # 0 /\ Chain[i] # NIL => Chain[i - 1] \in S /\ Chain[i - 1] < Chain[i]
        /\ \A i \in DOMAIN Chain : Chain[i] \in S \cup {NIL}
    BY <1>1, WalkOf
  <1>3. Blocks(S, header, DOMAIN used) /\ Layout(S, header, {}) /\ Covers(header, memory)
    BY <1>1 DEF HeapShape
  <1>4. \A b \in DOMAIN header : b \in Nat /\ header[b].length \in Nat
    BY <1>3 DEF Blocks
  <1>5. HeapMerged
    BY <1>2, <1>3 DEF HeapMerged, Layout
  <1>6. \A b, c \in DOMAIN header : b # c => Extent(b) \cap Extent(c) = {}
    <2> SUFFICES ASSUME NEW b \in DOMAIN header, NEW c \in DOMAIN header, b # c,
                        NEW w, w \in Extent(b), w \in Extent(c)
                 PROVE  FALSE
      OBVIOUS
    <2>1. w \in b..(b + header[b].length) /\ w \in c..(c + header[c].length)
      BY DEF Extent
    <2>2. (b < c => b + header[b].length < c) /\ (c < b => c + header[c].length < b)
      BY <1>3 DEF Layout
    <2> QED
      BY <1>4, <2>1, <2>2
  <1>7. UNION {Extent(b) : b \in DOMAIN header} = memory
    <2>1. ASSUME NEW w \in memory PROVE \E b \in DOMAIN header : w \in Extent(b)
      <3>1. w \in Nat /\ Within(header, w)
        BY <1>3 DEF Covers
      <3> QED
        BY <1>4, <3>1 DEF Within, Extent
    <2>2. ASSUME NEW b \in DOMAIN header, NEW w \in Extent(b) PROVE w \in memory
      <3>1. w \in Nat /\ b <= w /\ w <= b + header[b].length
        BY <1>4 DEF Extent
      <3>2. Within(header, w)
        BY <3>1 DEF Within
      <3> QED
        BY <1>3, <3>1, <3>2 DEF Covers
    <2> QED
      BY <2>1, <2>2
  <1>8. \A b \in DOMAIN used : header[b].length >= used[b]
    BY DEF HeapInv
  <1>9. DOMAIN header = FreeBlocks \cup DOMAIN used /\ FreeBlocks \cap DOMAIN used = {}
    BY <1>2, <1>3 DEF Blocks
  <1>10. HeapTiled
    BY <1>6, <1>7, <1>8, <1>9 DEF HeapTiled
  <1> QED
    BY <1>5, <1>10

\* Where the list goes on behind x, which is 0 for its beginning.
Ptr(f, h, x) == IF x = 0 THEN f ELSE h[x].next

(***************************************************************************)
(* The beginning of the list is a pointer like those of the blocks.        *)
(***************************************************************************)
LEMMA LinkingAll ==
  ASSUME NEW S, NEW f, NEW h, 0 \notin S
  PROVE  Linking(S, f, h) <=> \A x \in S \cup {0} : After(S, x, Ptr(f, h, x))
  <1>1. Ptr(f, h, 0) = f /\ \A x \in S : Ptr(f, h, x) = h[x].next
    BY DEF Ptr
  <1> QED
    BY <1>1 DEF Linking

(***************************************************************************)
(* A block taken out of the list: what led to it leads to what it led to.  *)
(***************************************************************************)
LEMMA LinkOut ==
  ASSUME NEW S, NEW f, NEW h, NEW f2, NEW h2, NEW p, NEW b,
         S \in SUBSET (Nat \ {0}), Linking(S, f, h), p \in S \cup {0}, b \in S,
         Ptr(f, h, p) = b, Ptr(f2, h2, p) = Ptr(f, h, b),
         \A x \in (S \ {b}) \cup {0} : x # p => Ptr(f2, h2, x) = Ptr(f, h, x)
  PROVE  Linking(S \ {b}, f2, h2)
  <1> DEFINE R == S \ {b}
  <1>1. \A x \in S \cup {0} : After(S, x, Ptr(f, h, x))
    BY LinkingAll
  <1>2. ASSUME NEW x \in R \cup {0} PROVE After(R, x, Ptr(f2, h2, x))
    <2>n. x \in Nat /\ p \in Nat /\ b \in Nat /\ S \subseteq Nat
      OBVIOUS
    <2>1. After(S, p, b) /\ After(S, b, Ptr(f, h, b)) /\ After(S, x, Ptr(f, h, x))
      BY <1>1
    <2>2. b > p
      BY <2>1 DEF After, NIL
    <2>3. CASE x = p
      <3>1. Ptr(f2, h2, x) = Ptr(f, h, b)
        BY <2>3
      <3> DEFINE y == Ptr(f, h, b)
      <3> HIDE DEF y
      <3>2. After(S, b, y) /\ Ptr(f2, h2, x) = y
        BY <2>1, <3>1 DEF y
      <3>3. After(R, x, y)
        BY <2>n, <2>1, <2>2, <2>3, <3>2 DEF After, NIL
      <3> QED
        BY <3>2, <3>3
    <2>4. CASE x # p
      <3>1. Ptr(f2, h2, x) = Ptr(f, h, x)
        BY <2>4
      <3> DEFINE y == Ptr(f, h, x)
      <3> HIDE DEF y
      <3>2. After(S, x, y) /\ Ptr(f2, h2, x) = y
        BY <2>1, <3>1 DEF y
      <3>3. y # b
        BY <2>n, <2>1, <2>2, <2>4, <3>2 DEF After, NIL
      <3>4. After(R, x, y)
        BY <3>2, <3>3 DEF After
      <3> QED
        BY <3>2, <3>4
    <2> QED
      BY <2>3, <2>4
  <1>3. 0 \notin R
    OBVIOUS
  <1> HIDE DEF R
  <1>4. Linking(R, f2, h2)
    BY <1>2, <1>3, LinkingAll
  <1> QED
    BY <1>4 DEF R

(***************************************************************************)
(* A block put into the list, between what lies below it and what lies     *)
(* above.                                                                  *)
(***************************************************************************)
LEMMA LinkIn ==
  ASSUME NEW S, NEW f, NEW h, NEW f2, NEW h2, NEW p, NEW b,
         S \in SUBSET (Nat \ {0}), Linking(S, f, h), p \in S \cup {0}, b \in Nat \ {0}, b \notin S,
         p < b, Ptr(f, h, p) = NIL \/ Ptr(f, h, p) > b,
         Ptr(f2, h2, p) = b, Ptr(f2, h2, b) = Ptr(f, h, p),
         \A x \in S \cup {0} : x # p => Ptr(f2, h2, x) = Ptr(f, h, x)
  PROVE  Linking(S \cup {b}, f2, h2)
  <1> DEFINE R == S \cup {b}
             q == Ptr(f, h, p)
  <1>1. \A x \in S \cup {0} : After(S, x, Ptr(f, h, x))
    BY LinkingAll
  <1>n. p \in Nat /\ b \in Nat /\ S \subseteq Nat
    OBVIOUS
  <1>q. After(S, p, q) /\ (q = NIL \/ q > b)
    BY <1>1
  <1>r. Ptr(f2, h2, b) = q
    OBVIOUS
  <1> HIDE DEF q
  <1>2. ASSUME NEW x \in R \cup {0} PROVE After(R, x, Ptr(f2, h2, x))
    <2>1. CASE x = p
      <3>1. Ptr(f2, h2, x) = b
        BY <2>1
      <3>2. After(R, p, b)
        BY <1>n, <1>q DEF After, NIL
      <3> QED
        BY <2>1, <3>1, <3>2
    <2>2. CASE x = b
      <3>1. Ptr(f2, h2, x) = q
        BY <1>r, <2>2
      <3>2. After(R, b, q)
        BY <1>n, <1>q DEF After, NIL
      <3> QED
        BY <2>2, <3>1, <3>2
    <2>3. CASE x # p /\ x # b
      <3> DEFINE y == Ptr(f, h, x)
      <3>1. x \in S \cup {0} /\ x \in Nat
        BY <1>n, <2>3
      <3>2. After(S, x, y) /\ Ptr(f2, h2, x) = y
        BY <1>1, <2>3, <3>1
      <3> HIDE DEF y
      <3>3. b > x => y # NIL /\ y <= b
        <4> SUFFICES ASSUME b > x PROVE y # NIL /\ y <= b
          OBVIOUS
        <4>1. x < p
          <5> SUFFICES ASSUME x > p PROVE FALSE
            BY <1>n, <2>3, <3>1
          <5>1. x \in S
            BY <1>n, <3>1
          <5> QED
            BY <1>n, <1>q, <3>1, <5>1 DEF After
        <4>2. p \in S
          BY <1>n, <3>1, <4>1
        <4>3. y # NIL /\ y <= p
          BY <3>2, <4>1, <4>2 DEF After
        <4>4. y \in Nat
          BY <1>n, <3>2, <4>3 DEF After
        <4> QED
          BY <1>n, <4>3, <4>4
      <3>4. After(R, x, y)
        BY <3>2, <3>3 DEF After
      <3> QED
        BY <3>2, <3>4
    <2> QED
      BY <2>1, <2>2, <2>3
  <1>3. 0 \notin R
    OBVIOUS
  <1> HIDE DEF R
  <1>4. Linking(R, f2, h2)
    BY <1>2, <1>3, LinkingAll
  <1> QED
    BY <1>4 DEF R

BlocksApart(h) == \A b, c \in DOMAIN h : b < c => b + h[b].length < c
Sizes(h) == DOMAIN h \in SUBSET (Nat \ {0}) /\ \A b \in DOMAIN h : h[b].length \in Nat

(***************************************************************************)
(* Two neighbours made one: nothing else moves, and the same words are     *)
(* covered.                                                                *)
(***************************************************************************)
LEMMA Fused ==
  ASSUME NEW h, NEW h2, NEW p, NEW b, Sizes(h), BlocksApart(h), p \in DOMAIN h, b \in DOMAIN h,
         p + 1 + h[p].length = b,
         DOMAIN h2 = DOMAIN h \ {b}, h2[p].length = h[p].length + h[b].length + 1,
         \A c \in DOMAIN h2 : c # p => h2[c].length = h[c].length
  PROVE  BlocksApart(h2) /\ \A w \in Nat : Within(h2, w) <=> Within(h, w)
  <1>n. /\ \A c \in DOMAIN h : c \in Nat /\ h[c].length \in Nat
        /\ p \in Nat /\ b \in Nat /\ h[p].length \in Nat /\ h[b].length \in Nat /\ p # b /\ p < b
        /\ p \in DOMAIN h2
    BY DEF Sizes
  <1>1. p + h2[p].length = b + h[b].length
    BY <1>n
  <1>2. BlocksApart(h2)
    <2> SUFFICES ASSUME NEW x \in DOMAIN h2, NEW y \in DOMAIN h2, x < y PROVE x + h2[x].length < y
      BY DEF BlocksApart
    <2>1. x \in DOMAIN h /\ y \in DOMAIN h /\ y # b
      OBVIOUS
    <2>2. CASE x # p
      BY <2>1, <2>2 DEF BlocksApart
    <2>3. CASE x = p
      <3>1. p + h[p].length < y
        BY <2>1, <2>3 DEF BlocksApart
      <3>2. b < y
        BY <1>n, <2>1, <3>1
      <3>3. b + h[b].length < y
        BY <2>1, <3>2 DEF BlocksApart
      <3> QED
        BY <1>1, <2>3, <3>3
    <2> QED
      BY <2>2, <2>3
  <1>3. ASSUME NEW w \in Nat, Within(h2, w) PROVE Within(h, w)
    <2>1. PICK c \in DOMAIN h2 : c <= w /\ w <= c + h2[c].length
      BY <1>3 DEF Within
    <2>2. CASE c # p
      BY <2>1, <2>2 DEF Within
    <2>3. CASE c = p
      <3>1. w <= b + h[b].length
        BY <1>1, <2>1, <2>3
      <3>2. CASE b <= w
        BY <3>1, <3>2 DEF Within
      <3>3. CASE ~ (b <= w)
        <4>1. p <= w /\ w <= p + h[p].length
          BY <1>n, <2>1, <2>3, <3>3
        <4> QED
          BY <4>1 DEF Within
      <3> QED
        BY <3>2, <3>3
    <2> QED
      BY <2>2, <2>3
  <1>4. ASSUME NEW w \in Nat, Within(h, w) PROVE Within(h2, w)
    <2>1. PICK c \in DOMAIN h : c <= w /\ w <= c + h[c].length
      BY <1>4 DEF Within
    <2>2. CASE c \notin {p, b}
      BY <2>1, <2>2 DEF Within
    <2>3. CASE c = p
      <3>1. p <= w /\ w <= p + h2[p].length
        BY <1>n, <1>1, <2>1, <2>3
      <3> QED
        BY <1>n, <3>1 DEF Within
    <2>4. CASE c = b
      <3>1. p <= w /\ w <= p + h2[p].length
        BY <1>n, <1>1, <2>1, <2>4
      <3> QED
        BY <1>n, <3>1 DEF Within
    <2> QED
      BY <2>2, <2>3, <2>4
  <1> QED
    BY <1>2, <1>3, <1>4

(***************************************************************************)
(* What all steps need to know.                                            *)
(***************************************************************************)
LEMMA ShapeFacts ==
  ASSUME NEW S, NEW f, NEW h, NEW U, NEW mem, NEW E, HeapShape(S, f, h, U, mem, E)
  PROVE  /\ Sizes(h) /\ BlocksApart(h) /\ Linking(S, f, h) /\ S \in SUBSET (Nat \ {0})
              /\ S \subseteq DOMAIN h /\ U \subseteq DOMAIN h
         /\ 0 \notin S /\ 0 \notin DOMAIN h
         /\ \A b \in DOMAIN h :
              b \in Nat /\ b # 0 /\ h[b].length \in Nat /\ h[b].next \in Nat
                /\ h[b] \in [length : Nat, next : Nat]
         /\ \A x \in S \cup {0} : After(S, x, Ptr(f, h, x))
  <1>1. Blocks(S, h, U) /\ Layout(S, h, E) /\ Linking(S, f, h)
    BY DEF HeapShape
  <1>2. /\ S \subseteq DOMAIN h /\ U \subseteq DOMAIN h /\ DOMAIN h \in SUBSET (Nat \ {0})
        /\ h \in [DOMAIN h -> [length : Nat, next : Nat]]
    BY <1>1 DEF Blocks
  <1>3. BlocksApart(h)
    BY <1>1 DEF Layout, BlocksApart
  <1>4. \A b \in DOMAIN h : h[b].length \in Nat /\ h[b].next \in Nat /\ h[b] \in [length : Nat, next : Nat]
    BY <1>2
  <1>5. Sizes(h) /\ 0 \notin S /\ 0 \notin DOMAIN h /\ S \in SUBSET (Nat \ {0})
    BY <1>2, <1>4 DEF Sizes
  <1>6. \A x \in S \cup {0} : After(S, x, Ptr(f, h, x))
    BY <1>1, <1>5, LinkingAll
  <1> QED
    BY <1>1, <1>2, <1>3, <1>4, <1>5, <1>6

\* What Split makes of the headers: the last n words of b are the block g.
Cut(h, h2, b, g, n) ==
  /\ n \in Nat /\ n + 2 < h[b].length /\ g = b + h[b].length - n
  /\ h2 \in [DOMAIN h \cup {g} -> [length : Nat, next : Nat]]
  /\ h2[b].length = h[b].length - (1 + n) /\ h2[b].next = h[b].next /\ h2[g].length = n
  /\ \A c \in DOMAIN h \ {b, g} : h2[c] = h[c]

(***************************************************************************)
(* A fragment cut off the end of a free block.                             *)
(***************************************************************************)
LEMMA CutOff ==
  ASSUME NEW S, NEW f, NEW h, NEW U, NEW mem, NEW h2, NEW b, NEW g, NEW n,
         HeapShape(S, f, h, U, mem, {}), b \in S, Cut(h, h2, b, g, n)
  PROVE  HeapShape(S, f, h2, U \cup {g}, mem, {}) /\ g \notin DOMAIN h
  <1>0. /\ n \in Nat /\ n + 2 < h[b].length /\ g = b + h[b].length - n
        /\ h2 \in [DOMAIN h \cup {g} -> [length : Nat, next : Nat]]
        /\ h2[b].length = h[b].length - (1 + n) /\ h2[b].next = h[b].next /\ h2[g].length = n
        /\ \A c \in DOMAIN h \ {b, g} : h2[c] = h[c]
    BY DEF Cut
  <1>1. /\ Sizes(h) /\ BlocksApart(h) /\ Linking(S, f, h) /\ S \in SUBSET (Nat \ {0})
             /\ S \subseteq DOMAIN h /\ 0 \notin S
        /\ \A c \in DOMAIN h : c \in Nat /\ c # 0 /\ h[c].length \in Nat
        /\ \A x \in S \cup {0} : After(S, x, Ptr(f, h, x))
    BY ShapeFacts
  <1>2. Blocks(S, h, U) /\ Layout(S, h, {}) /\ Covers(h, mem)
    BY DEF HeapShape
  <1>n. /\ b \in DOMAIN h /\ b \in Nat /\ h[b].length \in Nat /\ g \in Nat /\ b < g /\ g <= b + h[b].length
        /\ g + n = b + h[b].length /\ b + h2[b].length + 1 = g
    BY <1>0, <1>1
  <1>3. g \notin DOMAIN h
    <2> SUFFICES ASSUME g \in DOMAIN h PROVE FALSE
      OBVIOUS
    <2>1. b + h[b].length < g
      BY <1>0, <1>1, <1>n DEF BlocksApart
    <2> QED
      BY <1>0, <1>n, <2>1
  <1>4. Blocks(S, h2, U \cup {g})
    <2>1. DOMAIN h2 = DOMAIN h \cup {g}
      BY <1>0
    <2>2. IsFiniteSet(DOMAIN h2)
      <3>1. IsFiniteSet(DOMAIN h)
        BY <1>2 DEF Blocks
      <3>2. IsFiniteSet(DOMAIN h \cup {g})
        BY <3>1, FS_AddElement
      <3> QED
        BY <2>1, <3>2
    <2>3. DOMAIN h2 = S \cup (U \cup {g}) /\ S \cap (U \cup {g}) = {}
      BY <1>1, <1>2, <1>3, <2>1 DEF Blocks
    <2>4. DOMAIN h2 \in SUBSET (Nat \ {0})
      BY <1>0, <1>1, <1>n, <2>1
    <2> QED
      BY <1>0, <2>1, <2>2, <2>3, <2>4 DEF Blocks
  <1>5. Linking(S, f, h2)
    <2>1. \A c \in S : h2[c].next = h[c].next
      BY <1>0, <1>1, <1>3
    <2> QED
      BY <1>1, <2>1 DEF Linking
  <1>6. Layout(S, h2, {})
    <2>1. \A c \in DOMAIN h : c # b => h2[c].length = h[c].length
      BY <1>0, <1>3
    <2>2. ASSUME NEW x \in DOMAIN h2, NEW y \in DOMAIN h2, x < y PROVE x + h2[x].length < y
      <3>1. CASE x = g
        <4>1. y \in DOMAIN h /\ y \in Nat
          BY <1>0, <1>1, <1>n, <2>2, <3>1
        <4>2. b < y
          BY <1>0, <1>n, <2>2, <3>1, <4>1
        <4>3. b + h[b].length < y
          BY <1>0, <1>1, <1>n, <4>1, <4>2 DEF BlocksApart
        <4> QED
          BY <1>0, <1>n, <3>1, <4>3
      <3>2. CASE x = b
        <4>1. CASE y = g
          BY <1>0, <1>n, <3>2, <4>1
        <4>2. CASE y # g
          <5>1. y \in DOMAIN h /\ y \in Nat
            BY <1>0, <1>1, <4>2
          <5>2. b + h[b].length < y
            BY <1>0, <1>1, <1>n, <2>2, <3>2, <5>1 DEF BlocksApart
          <5> QED
            BY <1>0, <1>n, <3>2, <5>1, <5>2
        <4> QED
          BY <4>1, <4>2
      <3>3. CASE x # g /\ x # b
        <4>1. x \in DOMAIN h /\ x \in Nat /\ h2[x].length = h[x].length /\ h[x].length \in Nat
          BY <1>0, <1>1, <2>1, <3>3
        <4>2. CASE y = g
          <5>1. x < b \/ b < x
            BY <1>0, <1>n, <3>3, <4>1
          <5>2. CASE x < b
            <6>1. x + h[x].length < b
              BY <1>0, <1>1, <1>n, <4>1, <5>2 DEF BlocksApart
            <6> QED
              BY <1>0, <1>n, <4>1, <4>2, <6>1
          <5>3. CASE b < x
            <6>1. b + h[b].length < x
              BY <1>0, <1>1, <1>n, <4>1, <5>3 DEF BlocksApart
            <6> QED
              BY <1>0, <1>n, <2>2, <4>1, <4>2, <6>1
          <5> QED
            BY <5>1, <5>2, <5>3
        <4>3. CASE y # g
          BY <1>0, <1>1, <2>2, <4>1, <4>3 DEF BlocksApart
        <4> QED
          BY <4>2, <4>3
      <3> QED
        BY <3>1, <3>2, <3>3
    <2>3. ASSUME NEW x \in S, NEW y \in S, x < y PROVE x + 1 + h2[x].length < y
      <3>1. x + 1 + h[x].length < y /\ x \in Nat /\ y \in Nat /\ h[x].length \in Nat /\ x \in DOMAIN h
        BY <1>1, <1>2, <2>3 DEF Layout
      <3>2. CASE x = b
        BY <1>0, <1>n, <3>1, <3>2
      <3>3. CASE x # b
        BY <2>1, <3>1, <3>3
      <3> QED
        BY <3>2, <3>3
    <2> QED
      BY <2>2, <2>3 DEF Layout
  <1>7. Covers(h2, mem)
    <2>1. ASSUME NEW w \in Nat, Within(h2, w) PROVE Within(h, w)
      <3>1. PICK c \in DOMAIN h2 : c <= w /\ w <= c + h2[c].length
        BY <2>1 DEF Within
      <3>2. CASE c \in {b, g}
        <4>1. b <= w /\ w <= b + h[b].length
          BY <1>0, <1>n, <3>1, <3>2
        <4> QED
          BY <1>0, <1>n, <4>1 DEF Within
      <3>3. CASE c \notin {b, g}
        BY <1>0, <3>1, <3>3 DEF Within
      <3> QED
        BY <3>2, <3>3
    <2>2. ASSUME NEW w \in Nat, Within(h, w) PROVE Within(h2, w)
      <3>1. PICK c \in DOMAIN h : c <= w /\ w <= c + h[c].length
        BY <2>2 DEF Within
      <3>2. CASE c # b
        BY <1>0, <1>3, <3>1, <3>2 DEF Within
      <3>3. CASE c = b /\ g <= w
        <4>1. g <= w /\ w <= g + h2[g].length /\ g \in DOMAIN h2
          BY <1>0, <1>n, <3>1, <3>3
        <4> QED
          BY <1>0, <4>1 DEF Within
      <3>4. CASE c = b /\ ~ (g <= w)
        <4>1. b <= w /\ w <= b + h2[b].length /\ b \in DOMAIN h2
          BY <1>0, <1>n, <3>1, <3>4
        <4> QED
          BY <1>0, <4>1 DEF Within
      <3> QED
        BY <3>2, <3>3, <3>4
    <2> QED
      BY <1>2, <2>1, <2>2 DEF Covers
  <1> QED
    BY <1>3, <1>4, <1>5, <1>6, <1>7 DEF HeapShape

(***************************************************************************)
(* A free block taken off the list.                                        *)
(***************************************************************************)
LEMMA TakenOff ==
  ASSUME NEW S, NEW f, NEW h, NEW U, NEW mem, NEW f2, NEW h2, NEW p, NEW b,
         HeapShape(S, f, h, U, mem, {}), b \in S, p \in S \cup {0}, Ptr(f, h, p) = b,
         h2 \in [DOMAIN h -> [length : Nat, next : Nat]], \A c \in DOMAIN h : h2[c].length = h[c].length,
         Ptr(f2, h2, p) = Ptr(f, h, b), \A x \in (S \ {b}) \cup {0} : x # p => Ptr(f2, h2, x) = Ptr(f, h, x)
  PROVE  HeapShape(S \ {b}, f2, h2, U \cup {b}, mem, {})
  <1>1. S \in SUBSET (Nat \ {0}) /\ Linking(S, f, h) /\ S \subseteq DOMAIN h
    BY ShapeFacts
  <1>2. Linking(S \ {b}, f2, h2)
    BY <1>1, LinkOut
  <1>3. Blocks(S, h, U) /\ Layout(S, h, {}) /\ Covers(h, mem)
    BY DEF HeapShape
  <1>4. DOMAIN h2 = DOMAIN h
    OBVIOUS
  <1>5. Blocks(S \ {b}, h2, U \cup {b})
    BY <1>3, <1>4 DEF Blocks
  <1>6. Layout(S \ {b}, h2, {})
    BY <1>1, <1>3, <1>4 DEF Layout
  <1>7. Covers(h2, mem)
    BY <1>3, <1>4 DEF Covers, Within
  <1> QED
    BY <1>2, <1>5, <1>6, <1>7 DEF HeapShape

\* What linking b behind p makes of the list, when it lies where b belongs.
PutBehind(S, f, h, f2, h2, p, b) ==
  /\ p \in S \cup {0} /\ p < b /\ (Ptr(f, h, p) = NIL \/ Ptr(f, h, p) > b)
  /\ h2 \in [DOMAIN h -> [length : Nat, next : Nat]] /\ \A c \in DOMAIN h : h2[c].length = h[c].length
  /\ Ptr(f2, h2, p) = b /\ Ptr(f2, h2, b) = Ptr(f, h, p)
  /\ \A x \in S \cup {0} : x # p => Ptr(f2, h2, x) = Ptr(f, h, x)

(***************************************************************************)
(* A block put into the list, apart from the one below; what lies above    *)
(* may touch it.                                                           *)
(***************************************************************************)
LEMMA PutBack ==
  ASSUME NEW S, NEW f, NEW h, NEW U, NEW mem, NEW f2, NEW h2, NEW p, NEW b,
         HeapShape(S, f, h, U, mem, {}), b \in U, p # 0 => p + 1 + h[p].length # b,
         PutBehind(S, f, h, f2, h2, p, b)
  PROVE  HeapShape(S \cup {b}, f2, h2, U \ {b}, mem, {b})
  <1>0. /\ p \in S \cup {0} /\ p < b /\ (Ptr(f, h, p) = NIL \/ Ptr(f, h, p) > b)
        /\ h2 \in [DOMAIN h -> [length : Nat, next : Nat]] /\ \A c \in DOMAIN h : h2[c].length = h[c].length
        /\ Ptr(f2, h2, p) = b /\ Ptr(f2, h2, b) = Ptr(f, h, p)
        /\ \A x \in S \cup {0} : x # p => Ptr(f2, h2, x) = Ptr(f, h, x)
    BY DEF PutBehind
  <1>1. /\ S \in SUBSET (Nat \ {0}) /\ Linking(S, f, h) /\ S \subseteq DOMAIN h /\ U \subseteq DOMAIN h
             /\ BlocksApart(h)
        /\ \A c \in DOMAIN h : c \in Nat /\ c # 0 /\ h[c].length \in Nat
        /\ After(S, p, Ptr(f, h, p))
    BY <1>0, ShapeFacts
  <1>3. Blocks(S, h, U) /\ Layout(S, h, {}) /\ Covers(h, mem)
    BY DEF HeapShape
  <1>b. b \in Nat \ {0} /\ b \notin S /\ b \in DOMAIN h
    BY <1>1, <1>3 DEF Blocks
  <1>2. Linking(S \cup {b}, f2, h2)
    BY <1>0, <1>1, <1>b, LinkIn
  <1>4. DOMAIN h2 = DOMAIN h
    BY <1>0
  <1>5. Blocks(S \cup {b}, h2, U \ {b})
    BY <1>0, <1>3, <1>4 DEF Blocks
  <1>6. Layout(S \cup {b}, h2, {b})
    <2>1. \A x, y \in DOMAIN h2 : x < y => x + h2[x].length < y
      BY <1>0, <1>3, <1>4 DEF Layout
    <2>2. ASSUME NEW x \in S \cup {b}, NEW y \in S \cup {b}, x < y, x \notin {b}
          PROVE  x + 1 + h2[x].length < y
      <3>1. x \in S /\ x \in DOMAIN h /\ x \in Nat /\ h[x].length \in Nat /\ h2[x].length = h[x].length
        BY <1>0, <1>1, <2>2
      <3>2. CASE y # b
        <4>1. y \in S
          BY <3>2
        <4>2. x + 1 + h[x].length < y
          BY <1>3, <2>2, <3>1, <4>1 DEF Layout
        <4> QED
          BY <3>1, <4>2
      <3>3. CASE y = b
        <4>1. p \in S /\ p \in Nat
          <5> SUFFICES ASSUME p = 0 PROVE FALSE
            BY <1>0, <1>1
          <5> QED
            BY <1>0, <1>1, <1>b, <2>2, <3>1, <3>3 DEF After
        <4>2. x = p \/ x < p
          <5> SUFFICES ASSUME x > p PROVE FALSE
            BY <3>1, <4>1
          <5> QED
            BY <1>0, <1>1, <1>b, <2>2, <3>1, <3>3 DEF After
        <4>3. CASE x = p
          <5>1. p + h[p].length < b /\ p + 1 + h[p].length # b
            BY <1>0, <1>1, <1>b, <4>1 DEF BlocksApart
          <5> QED
            BY <1>b, <3>1, <3>3, <4>3, <5>1
        <4>4. CASE x < p
          <5>1. x + 1 + h[x].length < p
            BY <1>3, <3>1, <4>1, <4>4 DEF Layout
          <5> QED
            BY <1>0, <1>b, <3>1, <3>3, <4>1, <5>1
        <4> QED
          BY <4>2, <4>3, <4>4
      <3> QED
        BY <3>2, <3>3
    <2> QED
      BY <2>1, <2>2 DEF Layout
  <1>7. Covers(h2, mem)
    BY <1>0, <1>3, <1>4 DEF Covers, Within
  <1> QED
    BY <1>2, <1>5, <1>6, <1>7 DEF HeapShape

(***************************************************************************)
(* A block joined with the free one below it.                              *)
(***************************************************************************)
LEMMA JoinedBelow ==
  ASSUME NEW S, NEW f, NEW h, NEW U, NEW mem, NEW h2, NEW p, NEW b,
         HeapShape(S, f, h, U, mem, {}), b \in U, p \in S, p + 1 + h[p].length = b,
         h2 \in [DOMAIN h \ {b} -> [length : Nat, next : Nat]], \A c \in DOMAIN h \ {p, b} : h2[c] = h[c],
         h2[p].next = h[p].next, h2[p].length = h[p].length + h[b].length + 1
  PROVE  HeapShape(S, f, h2, U \ {b}, mem, {p})
  <1>1. /\ S \in SUBSET (Nat \ {0}) /\ Linking(S, f, h) /\ S \subseteq DOMAIN h /\ U \subseteq DOMAIN h
        /\ BlocksApart(h) /\ Sizes(h)
        /\ \A c \in DOMAIN h : c \in Nat /\ c # 0 /\ h[c].length \in Nat
    BY ShapeFacts
  <1>2. Blocks(S, h, U) /\ Layout(S, h, {}) /\ Covers(h, mem)
    BY DEF HeapShape
  <1>3. DOMAIN h2 = DOMAIN h \ {b} /\ b \notin S /\ b \in DOMAIN h /\ p \in DOMAIN h
    BY <1>1, <1>2 DEF Blocks
  <1>4. \A c \in DOMAIN h2 : c # p => h2[c].length = h[c].length
    BY <1>3
  <1>5. BlocksApart(h2) /\ \A w \in Nat : Within(h2, w) <=> Within(h, w)
    BY <1>1, <1>3, <1>4, Fused
  <1>6. Blocks(S, h2, U \ {b})
    <2>1. IsFiniteSet(DOMAIN h2)
      BY <1>2, <1>3, FS_Subset DEF Blocks
    <2> QED
      BY <1>2, <1>3, <2>1 DEF Blocks
  <1>7. Linking(S, f, h2)
    <2>1. \A c \in S : h2[c].next = h[c].next
      BY <1>1, <1>3
    <2> QED
      BY <1>1, <2>1 DEF Linking
  <1>8. Layout(S, h2, {p})
    <2>1. \A x, y \in S : x < y /\ x \notin {p} => x + 1 + h2[x].length < y
      BY <1>1, <1>2, <1>3, <1>4 DEF Layout
    <2> QED
      BY <1>5, <2>1 DEF Layout, BlocksApart
  <1>9. Covers(h2, mem)
    BY <1>2, <1>5 DEF Covers
  <1> QED
    BY <1>6, <1>7, <1>8, <1>9 DEF HeapShape

(***************************************************************************)
(* A free block joined with the free one above it.                         *)
(***************************************************************************)
LEMMA JoinedAbove ==
  ASSUME NEW S, NEW f, NEW h, NEW U, NEW mem, NEW h2, NEW p, NEW b,
         HeapShape(S, f, h, U, mem, {p}), b \in S, p \in S, p + 1 + h[p].length = b, h[p].next = b,
         h2 \in [DOMAIN h \ {b} -> [length : Nat, next : Nat]], \A c \in DOMAIN h \ {p, b} : h2[c] = h[c],
         h2[p].next = h[b].next, h2[p].length = h[p].length + h[b].length + 1
  PROVE  HeapShape(S \ {b}, f, h2, U, mem, {})
  <1>1. /\ S \in SUBSET (Nat \ {0}) /\ Linking(S, f, h) /\ S \subseteq DOMAIN h /\ U \subseteq DOMAIN h
        /\ BlocksApart(h) /\ Sizes(h)
        /\ \A c \in DOMAIN h : c \in Nat /\ c # 0 /\ h[c].length \in Nat
    BY ShapeFacts
  <1>2. Blocks(S, h, U) /\ Layout(S, h, {p}) /\ Covers(h, mem)
    BY DEF HeapShape
  <1>n. p \in Nat /\ b \in Nat /\ h[p].length \in Nat /\ h[b].length \in Nat /\ p < b /\ p # 0 /\ b # 0
    BY <1>1
  <1>3. DOMAIN h2 = DOMAIN h \ {b} /\ b \notin U /\ b \in DOMAIN h /\ p \in DOMAIN h /\ p # b
    BY <1>1, <1>2, <1>n DEF Blocks
  <1>4. \A c \in DOMAIN h2 : c # p => h2[c].length = h[c].length
    BY <1>3
  <1>5. BlocksApart(h2) /\ \A w \in Nat : Within(h2, w) <=> Within(h, w)
    BY <1>1, <1>3, <1>4, Fused
  <1>6. Blocks(S \ {b}, h2, U)
    <2>1. IsFiniteSet(DOMAIN h2)
      BY <1>2, <1>3, FS_Subset DEF Blocks
    <2> QED
      BY <1>2, <1>3, <2>1 DEF Blocks
  <1>7. Linking(S \ {b}, f, h2)
    <2>1. Ptr(f, h, p) = b /\ Ptr(f, h2, p) = Ptr(f, h, b)
      BY <1>n DEF Ptr
    <2>2. \A x \in (S \ {b}) \cup {0} : x # p => Ptr(f, h2, x) = Ptr(f, h, x)
      BY <1>1 DEF Ptr
    <2> QED
      BY <1>1, <2>1, <2>2, LinkOut
  <1>8. Layout(S \ {b}, h2, {})
    <2> SUFFICES ASSUME NEW x \in S \ {b}, NEW y \in S \ {b}, x < y PROVE x + 1 + h2[x].length < y
      BY <1>5 DEF Layout, BlocksApart
    <2>1. x \in DOMAIN h2 /\ x \in Nat /\ y \in Nat /\ x \in S /\ y \in S /\ y # b
      BY <1>1, <1>3
    <2>2. CASE x # p
      <3>1. x + 1 + h[x].length < y
        BY <1>2, <2>1, <2>2 DEF Layout
      <3> QED
        BY <1>4, <2>1, <2>2, <3>1
    <2>3. CASE x = p
      <3>1. p + h[p].length < y
        BY <1>1, <1>3, <2>1, <2>3 DEF BlocksApart
      <3>2. b < y
        BY <1>n, <2>1, <3>1
      <3>3. b + 1 + h[b].length < y
        BY <1>2, <1>n, <2>1, <3>2 DEF Layout
      <3> QED
        BY <1>n, <2>1, <2>3, <3>3
    <2> QED
      BY <2>2, <2>3
  <1>9. Covers(h2, mem)
    BY <1>2, <1>5 DEF Covers
  <1> QED
    BY <1>6, <1>7, <1>8, <1>9 DEF HeapShape

(***************************************************************************)
(* A function without an argument.                                         *)
(***************************************************************************)
LEMMA WithoutIs ==
  ASSUME NEW f, NEW x
  PROVE  /\ DOMAIN Without(f, x) = DOMAIN f \ {x}
         /\ \A y \in DOMAIN f \ {x} : Without(f, x)[y] = f[y]
  BY DEF Without

(***************************************************************************)
(* And its type.                                                           *)
(***************************************************************************)
LEMMA WithoutTyped ==
  ASSUME NEW T, NEW f, NEW x, f \in [DOMAIN f -> T]
  PROVE  Without(f, x) \in [DOMAIN f \ {x} -> T]
  BY DEF Without

(***************************************************************************)
(* A function with an argument more.                                       *)
(***************************************************************************)
LEMMA WithDomain == ASSUME NEW f, NEW x, NEW v PROVE DOMAIN With(f, x, v) = DOMAIN f \cup {x}
  BY DEF With

(***************************************************************************)
(* Its value there.                                                        *)
(***************************************************************************)
LEMMA WithNew == ASSUME NEW f, NEW x, NEW v PROVE With(f, x, v)[x] = v
  BY DEF With

(***************************************************************************)
(* And elsewhere.                                                          *)
(***************************************************************************)
LEMMA WithOld == ASSUME NEW f, NEW x, NEW v PROVE \A y \in DOMAIN f : y # x => With(f, x, v)[y] = f[y]
  BY DEF With

(***************************************************************************)
(* And its type.                                                           *)
(***************************************************************************)
LEMMA WithTyped ==
  ASSUME NEW T, NEW f, NEW x, NEW v, f \in [DOMAIN f -> T], v \in T
  PROVE  With(f, x, v) \in [DOMAIN f \cup {x} -> T]
  BY DEF With

Joined(h, h2, p, b) ==
  /\ h2 \in [DOMAIN h \ {b} -> [length : Nat, next : Nat]]
  /\ \A c \in DOMAIN h \ {p, b} : h2[c] = h[c]
  /\ h2[p].next = h[b].next /\ h2[p].length = h[p].length + h[b].length + 1

(***************************************************************************)
(* The two blocks that MergeNext makes one.                                *)
(***************************************************************************)
LEMMA MergedIs ==
  ASSUME NEW h, NEW p, NEW b, h \in [DOMAIN h -> [length : Nat, next : Nat]], p \in DOMAIN h, b \in DOMAIN h,
         p # b,
         b # NIL, Adjacent(h, p, b)
  PROVE  Joined(h, MergeNext(h, p, b), p, b)
  <1> DEFINE r == [length |-> h[p].length + (h[b].length + 1), next |-> h[b].next]
             g == [h EXCEPT ![p] = r]
             h2 == Without(g, b)
  <1>1. MergeNext(h, p, b) = h2
    BY DEF MergeNext, LengthOf
  <1>2. h[p].length \in Nat /\ h[b].length \in Nat /\ h[b].next \in Nat
    OBVIOUS
  <1>3. r \in [length : Nat, next : Nat] /\ r.next = h[b].next /\ r.length = h[p].length + h[b].length + 1
    BY <1>2
  <1> HIDE DEF r
  <1>4. /\ DOMAIN g = DOMAIN h /\ g \in [DOMAIN g -> [length : Nat, next : Nat]] /\ g[p] = r
        /\ \A c \in DOMAIN h : c # p => g[c] = h[c]
    BY <1>3
  <1> HIDE DEF g
  <1>5. /\ h2 \in [DOMAIN g \ {b} -> [length : Nat, next : Nat]]
        /\ \A c \in DOMAIN g \ {b} : h2[c] = g[c]
    BY <1>4, WithoutIs, WithoutTyped
  <1> HIDE DEF h2
  <1>6. /\ h2 \in [DOMAIN h \ {b} -> [length : Nat, next : Nat]]
        /\ \A c \in DOMAIN h \ {p, b} : h2[c] = h[c]
        /\ h2[p] = r
    BY <1>4, <1>5
  <1>7. Joined(h, h2, p, b)
    BY <1>3, <1>6 DEF Joined
  <1> QED
    BY <1>1, <1>7

(***************************************************************************)
(* After MergeNext nothing touches any more.                               *)
(***************************************************************************)
LEMMA MergeNextKeeps ==
  ASSUME NEW S, NEW f, NEW h, NEW U, NEW mem, NEW p, NEW b,
         HeapShape(S, f, h, U, mem, {p}), p \in S, h[p].next = b
  PROVE  /\ \E R : HeapShape(R, f, MergeNext(h, p, b), U, mem, {})
         /\ \A c \in U : MergeNext(h, p, b)[c].length = h[c].length
  <1>1. /\ Sizes(h) /\ BlocksApart(h) /\ S \in SUBSET (Nat \ {0}) /\ S \subseteq DOMAIN h
             /\ U \subseteq DOMAIN h
        /\ \A c \in DOMAIN h : c \in Nat /\ c # 0 /\ h[c].length \in Nat
        /\ Linking(S, f, h)
    BY ShapeFacts
  <1>2. Blocks(S, h, U) /\ Layout(S, h, {p}) /\ Covers(h, mem)
    BY DEF HeapShape
  <1>3. After(S, p, b)
    BY <1>1 DEF Linking
  <1>4. ASSUME \A c \in S : c > p => p + 1 + h[p].length < c
        PROVE  HeapShape(S, f, h, U, mem, {})
    <2>1. \A x, y \in S : x < y => x + 1 + h[x].length < y
      BY <1>1, <1>2, <1>4 DEF Layout
    <2>2. Layout(S, h, {})
      BY <1>2, <2>1 DEF Layout
    <2> QED
      BY <1>1, <1>2, <2>2 DEF HeapShape
  <1>5. CASE b = NIL
    <2>1. MergeNext(h, p, b) = h
      BY <1>5 DEF MergeNext
    <2>2. \A c \in S : ~ (c > p)
      BY <1>3, <1>5 DEF After
    <2>3. HeapShape(S, f, h, U, mem, {})
      BY <1>4, <2>2
    <2> QED
      BY <2>1, <2>3
  <1>6. CASE b # NIL /\ ~ Adjacent(h, p, b)
    <2>1. MergeNext(h, p, b) = h
      BY <1>6 DEF MergeNext
    <2>2. b \in S /\ b > p /\ p + 1 + h[p].length # b
      BY <1>3, <1>6 DEF After, Adjacent
    <2>3. p + h[p].length < b
      BY <1>1, <2>2 DEF BlocksApart
    <2>4. \A c \in S : c > p => p + 1 + h[p].length < c
      <3>1. p + 1 + h[p].length < b /\ p \in Nat /\ h[p].length \in Nat /\ b \in Nat /\ S \subseteq Nat
        BY <1>1, <2>2, <2>3
      <3>2. \A c \in S : c > p => b <= c
        BY <1>3 DEF After
      <3> QED
        BY <3>1, <3>2
    <2>5. HeapShape(S, f, h, U, mem, {})
      BY <1>4, <2>4
    <2> QED
      BY <2>1, <2>5
  <1>7. CASE b # NIL /\ Adjacent(h, p, b)
    <2> DEFINE h2 == MergeNext(h, p, b)
    <2>1. b \in S /\ b > p /\ p + 1 + h[p].length = b /\ b # p
      BY <1>1, <1>3, <1>7 DEF After, Adjacent
    <2>2. h \in [DOMAIN h -> [length : Nat, next : Nat]]
      BY <1>2 DEF Blocks
    <2>3. /\ h2 \in [DOMAIN h \ {b} -> [length : Nat, next : Nat]]
          /\ \A c \in DOMAIN h \ {p, b} : h2[c] = h[c]
          /\ h2[p].next = h[b].next /\ h2[p].length = h[p].length + h[b].length + 1
      <3>1. p \in DOMAIN h /\ b \in DOMAIN h /\ p # b /\ b # NIL /\ Adjacent(h, p, b)
        BY <1>1, <1>7, <2>1
      <3> QED
        <4>1. Joined(h, MergeNext(h, p, b), p, b)
          BY <2>2, <3>1, MergedIs
        <4> QED
          BY <4>1 DEF Joined
    <2> HIDE DEF h2
    <2>4. HeapShape(S \ {b}, f, h2, U, mem, {})
      BY <2>1, <2>3, JoinedAbove
    <2>5. \A c \in U : h2[c].length = h[c].length
      BY <1>1, <1>2, <2>1, <2>3 DEF Blocks
    <2>6. \E R : HeapShape(R, f, h2, U, mem, {})
      BY <2>4
    <2> QED
      BY <2>5, <2>6 DEF h2
  <1> QED
    BY <1>5, <1>6, <1>7

\* The pointer a walk came by, before and after it is set.
Before(i) == IF i = 0 THEN 0 ELSE Chain[i - 1]

(***************************************************************************)
(* What the setting of a pointer, the beginning or one of a block, does.   *)
(***************************************************************************)
LEMMA RelinkIs ==
  ASSUME NEW S, NEW h, NEW i, NEW b, h \in [DOMAIN h -> [length : Nat, next : Nat]], S \subseteq DOMAIN h,
         0 \notin DOMAIN h, b \in Nat,
         Before(i) \in S \cup {0}, (i = 0) <=> Before(i) = 0
  PROVE  LET h2 == Relink(h, i, b) IN
         /\ h2 \in [DOMAIN h -> [length : Nat, next : Nat]] /\ \A c \in DOMAIN h : h2[c].length = h[c].length
         /\ Ptr(FirstAfter(i, b), h2, Before(i)) = b
         /\ \A x \in DOMAIN h \cup {0} : x # Before(i) => Ptr(FirstAfter(i, b), h2, x) = Ptr(freelist, h, x)
  <1>1. CASE i = 0
    <2>1. Relink(h, i, b) = h /\ FirstAfter(i, b) = b /\ Before(i) = 0
      BY <1>1 DEF Relink, FirstAfter, Before
    <2> QED
      BY <2>1 DEF Ptr
  <1>2. CASE i # 0
    <2> DEFINE p == Chain[i - 1]
               h2 == [h EXCEPT ![p].next = b]
    <2>1. Before(i) = p /\ p # 0 /\ p \in DOMAIN h /\ FirstAfter(i, b) = freelist /\ Relink(h, i, b) = h2
      BY <1>2 DEF Relink, FirstAfter, Before
    <2> HIDE DEF p
    <2>2. h2 \in [DOMAIN h -> [length : Nat, next : Nat]] /\ \A c \in DOMAIN h : h2[c].length = h[c].length
      BY <2>1
    <2>3. h2[p].next = b /\ \A c \in DOMAIN h : c # p => h2[c].next = h[c].next
      BY <2>1
    <2> HIDE DEF h2
    <2>4. Ptr(freelist, h2, p) = b /\ \A x \in DOMAIN h \cup {0} :
            x # p => Ptr(freelist, h2, x) = Ptr(freelist, h, x)
      BY <2>1, <2>3 DEF Ptr
    <2> QED
      BY <2>1, <2>2, <2>4
  <1> QED
    BY <1>1, <1>2

(***************************************************************************)
(* Lengths in words.                                                       *)
(***************************************************************************)
LEMMA WordsNat == ASSUME NEW n \in Nat PROVE Words(n) \in Nat
  <1>1. n + WORD_SIZE - 1 \in Nat /\ WORD_SIZE \in Nat \ {0}
    BY DEF WORD_SIZE
  <1> QED
    BY <1>1 DEF Words, WORD_SIZE

(***************************************************************************)
(* _kalloc: the end of a block or the whole of it is taken.                *)
(***************************************************************************)
LEMMA AllocKeeps == ASSUME HeapInv, NEW n \in Nat, HeapAlloc(n) PROVE HeapInv'
  <1> DEFINE m == Words(n)
             T == {b \in DOMAIN header : header[b].length >= m}
             i == StopAt(T)
             b == Chain[i]
             h == header
             h2 == header'
             p == Before(i)
  <1>1. PICK S : HeapShape(S, freelist, header, DOMAIN used, memory, {})
    BY DEF HeapInv
  <1>2. /\ S \in SUBSET (Nat \ {0}) /\ S \subseteq DOMAIN h /\ DOMAIN used \subseteq DOMAIN h
             /\ 0 \notin DOMAIN h
        /\ \A c \in DOMAIN h : c \in Nat /\ c # 0 /\ h[c].length \in Nat /\ h[c].next \in Nat
    BY <1>1, ShapeFacts
  <1>3. /\ i \in Nat /\ b \in S \cup {NIL} /\ b \in T \cup {NIL} /\ (i = 0 => b = freelist)
        /\ i # 0 => Chain[i - 1] \in S /\ b = h[Chain[i - 1]].next
    BY <1>1, Stopped
  <1>w. m \in Nat
    BY WordsNat
  <1>f. Blocks(S, h, DOMAIN used) /\ h \in [DOMAIN h -> [length : Nat, next : Nat]]
    BY <1>1 DEF HeapShape, Blocks
  <1>i. \A c \in DOMAIN used : h[c].length >= used[c] /\ used[c] \in Nat
    BY DEF HeapInv
  <1>4. /\ b # NIL /\ memory' = memory
        /\ (h[b].length > m + HeaderWords => Split(b, m))
        /\ (~ (h[b].length > m + HeaderWords) => TakeWhole(i, m))
    BY DEF HeapAlloc
  <1>5. b \in S /\ b \in DOMAIN h /\ h[b].length >= m /\ h[b].length \in Nat /\ h[b].next \in Nat
    BY <1>2, <1>3, <1>4
  <1> HIDE DEF m, T, i
  <1>6. ASSUME NEW g, used' = With(used, g, m),
               \E R : HeapShape(R, freelist', h2, DOMAIN used \cup {g}, memory, {}),
               h2[g].length >= m, \A c \in DOMAIN used : h2[c].length = h[c].length
        PROVE  HeapInv'
    <2>1. DOMAIN used' = DOMAIN used \cup {g} /\ used'[g] = m /\ \A c \in DOMAIN used : c # g =>
            used'[c] = used[c]
      <3> HIDE DEF m
      <3> QED
        <4>1. DOMAIN With(used, g, m) = DOMAIN used \cup {g}
          BY WithDomain
        <4>2. With(used, g, m)[g] = m
          BY WithNew
        <4>3. \A c \in DOMAIN used : c # g => With(used, g, m)[c] = used[c]
          BY WithOld
        <4> QED
          BY <1>6, <4>1, <4>2, <4>3
    <2>2. \E R : HeapShape(R, freelist', h2, DOMAIN used', memory', {})
      BY <1>4, <1>6, <2>1
    <2>3. \A c \in DOMAIN used' : h2[c].length >= used'[c] /\ used'[c] \in Nat
      BY <1>6, <1>i, <1>w, <2>1
    <2> QED
      BY <2>2, <2>3 DEF HeapInv
  <1>7. CASE h[b].length > m + HeaderWords
    <2> DEFINE g == b + h[b].length - m
               r == [h EXCEPT ![b].length = @ - (1 + m)]
               q == [length |-> m, next |-> NIL]
    <2>1. Split(b, m)
      BY <1>4, <1>7
    <2>2. h2 = With(r, g, q) /\ used' = With(used, g, m) /\ freelist' = freelist
      BY <2>1 DEF Split
    <2>3. m + 2 < h[b].length
      BY <1>5, <1>7, <1>w DEF HeaderWords
    <2>4. h[b].length - (1 + m) \in Nat /\ g \in Nat /\ g > b
      BY <1>2, <1>5, <1>w, <2>3
    <2>5. /\ DOMAIN r = DOMAIN h /\ r \in [DOMAIN r -> [length : Nat, next : Nat]]
               /\ r[b].length = h[b].length - (1 + m)
          /\ r[b].next = h[b].next /\ \A c \in DOMAIN h : c # b => r[c] = h[c]
      BY <1>5, <1>f, <2>4
    <2>6. q \in [length : Nat, next : Nat] /\ q.length = m
      BY <1>w DEF NIL
    <2> HIDE DEF r, q, b
    <2>b. b \in Nat
      BY <1>2, <1>5
    <2>g. g # b /\ g = b + h[b].length - m
      BY <2>4, <2>b
    <2> HIDE DEF g
    <2>7. /\ h2 \in [DOMAIN h \cup {g} -> [length : Nat, next : Nat]] /\ h2[g] = q
          /\ \A c \in DOMAIN h : c # g => h2[c] = r[c]
      <3>1. With(r, g, q) \in [DOMAIN r \cup {g} -> [length : Nat, next : Nat]]
        BY <2>5, <2>6, WithTyped
      <3>2. With(r, g, q)[g] = q /\ \A c \in DOMAIN r : c # g => With(r, g, q)[c] = r[c]
        BY WithDomain, WithNew, WithOld
      <3> QED
        BY <2>2, <2>5, <3>1, <3>2
    <2>8. h2[b].length = h[b].length - (1 + m) /\ h2[b].next = h[b].next /\ h2[g].length = m
      BY <1>5, <2>5, <2>6, <2>7, <2>g
    <2>9. \A c \in DOMAIN h \ {b, g} : h2[c] = h[c]
      BY <2>5, <2>7
    <2>10. HeapShape(S, freelist, h2, DOMAIN used \cup {g}, memory, {}) /\ g \notin DOMAIN h
      <3> HIDE DEF h2, h
      <3> QED
        <4>1. Cut(h, h2, b, g, m)
          BY <1>w, <2>3, <2>g, <2>7, <2>8, <2>9 DEF Cut
        <4> QED
          BY <1>1, <1>5, <4>1, CutOff DEF h
    <2>11. b \notin DOMAIN used
      BY <1>5, <1>f DEF Blocks
    <2>12. \A c \in DOMAIN used : h2[c].length = h[c].length
      BY <1>2, <2>9, <2>10, <2>11
    <2>13. h2[g].length >= m
      BY <1>w, <2>8
    <2> QED
      BY <1>6, <2>2, <2>10, <2>12, <2>13
  <1>8. CASE ~ (h[b].length > m + HeaderWords)
    <2> DEFINE y == h[b].next
               r == Relink(h, i, y)
               f2 == FirstAfter(i, y)
    <2>1. TakeWhole(i, m)
      BY <1>4, <1>8
    <2>2. h2 = [r EXCEPT ![b].next = NIL] /\ freelist' = f2 /\ used' = With(used, b, m)
      BY <2>1 DEF TakeWhole
    <2>3. p \in S \cup {0} /\ ((i = 0) <=> p = 0) /\ Ptr(freelist, h, p) = b
      BY <1>2, <1>3 DEF Before, Ptr
    <2>p. p # b
      <3>1. After(S, p, Ptr(freelist, h, p)) /\ p \in Nat
        BY <1>1, <1>2, <2>3, ShapeFacts
      <3> QED
        BY <1>4, <2>3, <3>1 DEF After
    <2>4. /\ r \in [DOMAIN h -> [length : Nat, next : Nat]] /\ \A c \in DOMAIN h : r[c].length = h[c].length
          /\ Ptr(f2, r, p) = y
          /\ \A x \in DOMAIN h \cup {0} : x # p => Ptr(f2, r, x) = Ptr(freelist, h, x)
      BY <1>2, <1>5, <1>f, <2>3, RelinkIs
    <2> HIDE DEF r, f2, b, p
    <2>5. /\ h2 \in [DOMAIN h -> [length : Nat, next : Nat]] /\ \A c \in DOMAIN h : h2[c].length = h[c].length
          /\ \A c \in DOMAIN h : c # b => h2[c].next = r[c].next
      BY <1>5, <2>2, <2>4 DEF NIL
    <2>6. \A x \in (S \ {b}) \cup {0} : Ptr(f2, h2, x) = Ptr(f2, r, x)
      BY <1>2, <2>5 DEF Ptr
    <2>7. Ptr(f2, h2, p) = Ptr(freelist, h, b)
      <3>1. Ptr(f2, h2, p) = y
        BY <2>3, <2>4, <2>6, <2>p
      <3>2. b # 0
        BY <1>2, <1>5
      <3> QED
        BY <3>1, <3>2 DEF Ptr
    <2>8. \A x \in (S \ {b}) \cup {0} : x # p => Ptr(f2, h2, x) = Ptr(freelist, h, x)
      BY <1>2, <2>4, <2>6
    <2>9. HeapShape(S \ {b}, f2, h2, DOMAIN used \cup {b}, memory, {})
      <3> HIDE DEF h2, h, y
      <3> QED
        BY <1>1, <1>5, <2>3, <2>5, <2>7, <2>8, TakenOff DEF h
    <2>10. \A c \in DOMAIN used : h2[c].length = h[c].length
      BY <1>2, <2>5
    <2>11. h2[b].length >= m
      BY <1>5, <2>5
    <2> QED
      BY <1>6, <2>2, <2>9, <2>10, <2>11
  <1> QED
    BY <1>7, <1>8

(***************************************************************************)
(* _kfree: the block goes into the one below, or into its place, and then  *)
(* the one above into it.                                                  *)
(***************************************************************************)
LEMMA FreeKeeps == ASSUME HeapInv, NEW b, HeapFree(b) PROVE HeapInv'
  <1> DEFINE T == {c \in DOMAIN header : c >= b}
             i == StopAt(T)
             block == Chain[i]
             h == header
             p == Before(i)
             U == DOMAIN used
             joined == i > 0 /\ Adjacent(header, p, b)
             f2 == FirstAfter(i, b)
  <1>1. PICK S : HeapShape(S, freelist, header, DOMAIN used, memory, {})
    BY DEF HeapInv
  <1>2. /\ S \in SUBSET (Nat \ {0}) /\ S \subseteq DOMAIN h /\ U \subseteq DOMAIN h /\ 0 \notin DOMAIN h
        /\ \A c \in DOMAIN h : c \in Nat /\ c # 0 /\ h[c].length \in Nat /\ h[c].next \in Nat
    BY <1>1, ShapeFacts
  <1>3. /\ i \in Nat /\ block \in S \cup {NIL} /\ block \in T \cup {NIL} /\ (i = 0 => block = freelist)
        /\ i # 0 => Chain[i - 1] \in S /\ Chain[i - 1] \notin T /\ block = h[Chain[i - 1]].next
    BY <1>1, Stopped
  <1>T. \A x \in DOMAIN h : x \notin T => ~ (x >= b)
    OBVIOUS
  <1>f. Blocks(S, h, U) /\ h \in [DOMAIN h -> [length : Nat, next : Nat]]
    BY <1>1 DEF HeapShape, Blocks
  <1>i. \A c \in U : h[c].length >= used[c] /\ used[c] \in Nat
    BY DEF HeapInv
  <1>4. /\ b \in U /\ b \in DOMAIN h /\ b \notin S /\ b \in Nat /\ b # 0
    BY <1>2, <1>f DEF HeapFree, Blocks
  <1>5. /\ p \in S \cup {0} /\ ((i = 0) <=> p = 0) /\ ((i > 0) <=> p # 0) /\ p \in Nat
             /\ Ptr(freelist, h, p) = block
        /\ (i > 0 => p = Chain[i - 1] /\ p \in S) /\ p < b
    <2>1. p \in S \cup {0} /\ ((i = 0) <=> p = 0) /\ ((i > 0) <=> p # 0)
            /\ (i > 0 => p = Chain[i - 1] /\ p \in S)
      BY <1>2, <1>3 DEF Before
    <2>2. Ptr(freelist, h, p) = block
      BY <1>2, <1>3 DEF Before, Ptr
    <2>3. p < b
      <3>1. CASE i = 0
        BY <1>4, <2>1, <3>1
      <3>2. CASE i # 0
        <4>1. p \in S /\ p \notin T
          BY <1>3, <3>2 DEF Before
        <4> HIDE DEF T, i, p
        <4>2. p \in DOMAIN h /\ ~ (p >= b)
          BY <1>2, <1>T, <4>1
        <4> QED
          BY <1>2, <1>4, <4>2
      <3> QED
        BY <3>1, <3>2
    <2> QED
      BY <1>2, <2>1, <2>2, <2>3
  <1>6. block # b /\ (block = NIL \/ block > b) /\ block \in Nat
    BY <1>2, <1>3, <1>4 DEF NIL
  <1>7. /\ header' = MergeNext(IF joined THEN Without([h EXCEPT ![p].length = @ + LengthOf(h, b)], b)
                               ELSE Relink([h EXCEPT ![b].next = block], i, b),
                               IF joined THEN p ELSE b, block)
        /\ freelist' = f2 /\ used' = Without(used, b) /\ memory' = memory
    <2>1. CASE i = 0
      BY <2>1 DEF HeapFree
    <2>2. CASE i # 0
      <3>1. p = Chain[i - 1]
        BY <2>2 DEF Before
      <3> QED
        BY <2>2, <3>1 DEF HeapFree
    <2> QED
      BY <2>1, <2>2
  <1> HIDE DEF T, i, p, block
  <1>8. ASSUME NEW R, NEW k, NEW x, HeapShape(R, f2, k, U \ {b}, memory, {x}), x \in R, k[x].next = block,
               \A c \in U \ {b} : k[c].length = h[c].length, header' = MergeNext(k, x, block)
        PROVE  HeapInv'
    <2>1. /\ \E Q : HeapShape(Q, f2, MergeNext(k, x, block), U \ {b}, memory, {})
          /\ \A c \in U \ {b} : MergeNext(k, x, block)[c].length = k[c].length
      <3> HIDE DEF U, f2
      <3> QED
        BY <1>8, MergeNextKeeps
    <2>2. DOMAIN used' = U \ {b} /\ \A c \in U \ {b} : used'[c] = used[c]
      BY <1>7, WithoutIs
    <2>3. \E Q : HeapShape(Q, freelist', header', DOMAIN used', memory', {})
      BY <1>7, <1>8, <2>1, <2>2
    <2>4. \A c \in DOMAIN used' : header'[c].length >= used'[c] /\ used'[c] \in Nat
      BY <1>8, <1>i, <2>1, <2>2
    <2> QED
      BY <2>3, <2>4 DEF HeapInv
  <1>9. CASE joined
    <2> DEFINE r == [h EXCEPT ![p].length = @ + (h[b].length + 1)]
               k == Without(r, b)
    <2>1. header' = MergeNext(k, p, block) /\ f2 = freelist
      BY <1>3, <1>7, <1>9 DEF LengthOf, FirstAfter
    <2>2. p \in S /\ p # 0 /\ p + 1 + h[p].length = b /\ p \in DOMAIN h /\ p # b
      BY <1>2, <1>4, <1>5, <1>9 DEF Adjacent
    <2>3. h[p].length \in Nat /\ h[b].length \in Nat
      BY <1>2, <1>4, <2>2
    <2>4. /\ DOMAIN r = DOMAIN h /\ r \in [DOMAIN r -> [length : Nat, next : Nat]]
          /\ r[p].length = h[p].length + (h[b].length + 1) /\ r[p].next = h[p].next
          /\ \A c \in DOMAIN h : c # p => r[c] = h[c]
      BY <1>f, <2>2, <2>3
    <2> HIDE DEF r
    <2>5. k \in [DOMAIN h \ {b} -> [length : Nat, next : Nat]] /\ \A c \in DOMAIN h \ {b} : k[c] = r[c]
      <3>1. k \in [DOMAIN r \ {b} -> [length : Nat, next : Nat]] /\ \A c \in DOMAIN r \ {b} : k[c] = r[c]
        BY <2>4, WithoutIs, WithoutTyped
      <3> QED
        BY <2>4, <3>1
    <2> HIDE DEF k
    <2>6. /\ k[p].next = h[p].next /\ k[p].length = h[p].length + h[b].length + 1
          /\ \A c \in DOMAIN h \ {p, b} : k[c] = h[c]
      BY <2>2, <2>3, <2>4, <2>5
    <2>7. HeapShape(S, freelist, k, U \ {b}, memory, {p})
      <3> HIDE DEF h, U
      <3> QED
        BY <1>1, <1>4, <2>2, <2>5, <2>6, JoinedBelow DEF h, U
    <2>8. k[p].next = block
      BY <1>5, <2>2, <2>6 DEF Ptr
    <2>9. \A c \in U \ {b} : k[c].length = h[c].length
      <3>1. p \notin U
        BY <1>f, <2>2 DEF Blocks
      <3> QED
        BY <1>2, <2>6, <3>1
    <2> HIDE DEF f2, h, U
    <2> QED
      BY <1>8, <2>1, <2>2, <2>7, <2>8, <2>9
  <1>10. CASE ~ joined
    <2> DEFINE r == [h EXCEPT ![b].next = block]
               k == Relink(r, i, b)
    <2>1. header' = MergeNext(k, b, block)
      BY <1>7, <1>10
    <2>2. p # 0 => p + 1 + h[p].length # b
      BY <1>5, <1>10 DEF Adjacent
    <2>3. /\ DOMAIN r = DOMAIN h /\ r \in [DOMAIN r -> [length : Nat, next : Nat]] /\ r[b].next = block
          /\ \A c \in DOMAIN h : r[c].length = h[c].length
          /\ \A c \in DOMAIN h : c # b => r[c].next = h[c].next
      BY <1>4, <1>6, <1>f
    <2> HIDE DEF r
    <2>4. /\ k \in [DOMAIN r -> [length : Nat, next : Nat]] /\ \A c \in DOMAIN r : k[c].length = r[c].length
          /\ Ptr(f2, k, p) = b
          /\ \A x \in DOMAIN r \cup {0} : x # p => Ptr(f2, k, x) = Ptr(freelist, r, x)
      <3>1. S \subseteq DOMAIN r /\ 0 \notin DOMAIN r
        BY <1>2, <2>3
      <3>2. Before(i) \in S \cup {0} /\ (i = 0 <=> Before(i) = 0)
        BY <1>5 DEF p
      <3> QED
        BY <1>4, <2>3, <3>1, <3>2, RelinkIs DEF p
    <2> HIDE DEF k
    <2>5. \A x \in S \cup {0} : Ptr(freelist, r, x) = Ptr(freelist, h, x)
      BY <1>2, <1>4, <2>3 DEF Ptr
    <2>6. \A x \in S \cup {0} : x # p => Ptr(f2, k, x) = Ptr(freelist, h, x)
      BY <1>2, <2>3, <2>4, <2>5
    <2>7. Ptr(f2, k, b) = block /\ k[b].next = block
      <3>1. Ptr(f2, k, b) = Ptr(freelist, r, b)
        BY <1>4, <1>5, <2>3, <2>4
      <3> QED
        BY <1>4, <2>3, <3>1 DEF Ptr
    <2>8. k \in [DOMAIN h -> [length : Nat, next : Nat]] /\ \A c \in DOMAIN h : k[c].length = h[c].length
      BY <2>3, <2>4
    <2>9. HeapShape(S \cup {b}, f2, k, U \ {b}, memory, {b})
      <3>1. Ptr(freelist, h, p) = NIL \/ Ptr(freelist, h, p) > b
        BY <1>5, <1>6
      <3>2. Ptr(f2, k, b) = Ptr(freelist, h, p)
        BY <1>5, <2>7
      <3> HIDE DEF h, U, f2
      <3> QED
        <4>1. PutBehind(S, freelist, h, f2, k, p, b)
          BY <1>5, <2>4, <2>6, <2>8, <3>1, <3>2 DEF PutBehind
        <4> QED
          BY <1>1, <1>4, <2>2, <4>1, PutBack DEF h, U
    <2>10. \A c \in U \ {b} : k[c].length = h[c].length
      BY <1>2, <2>8
    <2> HIDE DEF f2, h, U
    <2> QED
      BY <1>8, <2>1, <2>7, <2>9, <2>10
  <1> QED
    BY <1>9, <1>10

(***************************************************************************)
(* Every call of _kalloc and _kfree keeps the invariant.                   *)
(***************************************************************************)
LEMMA HeapStep == HeapInv /\ [HeapNext]_heapVars => HeapInv'
  <1> SUFFICES ASSUME HeapInv, [HeapNext]_heapVars PROVE HeapInv'
    OBVIOUS
  <1>1. ASSUME NEW n \in HEAP_BYTES, HeapAlloc(n) PROVE HeapInv'
    <2>1. n \in Nat
      BY HeapAssumption
    <2> QED
      BY <1>1, <2>1, AllocKeeps
  <1>2. ASSUME NEW b \in HeapWords, HeapFree(b) PROVE HeapInv'
    BY <1>2, FreeKeeps
  <1>3. CASE UNCHANGED heapVars
    BY <1>3 DEF heapVars, HeapInv
  <1> QED
    BY <1>1, <1>2, <1>3 DEF HeapNext

-----------------------------------------------------------------------------
(* kheap.c: how _kalloc_init finds the memory *)

\* A stretch of memory begins at b; r is one, up to its first word and the first behind.
Start(map, b) == b \in Nat \ {0} /\ b \in map /\ b - 1 \notin map

Run(map, r) ==
  /\ Start(map, r[1]) /\ r[1] # VIDEO_BASE_ADDR
  /\ r[2] \in Nat /\ r[1] < r[2] /\ r[2] \notin map
  /\ \A w \in r[1]..(r[2] - 1) : w \in map

InVideo(map, w) ==
  /\ VIDEO_BASE_ADDR \in map /\ VIDEO_BASE_ADDR <= w
  /\ \A g \in VIDEO_BASE_ADDR..w : g \in map

InRun(found, w) == \E k \in 1..Len(found) : found[k][1] <= w /\ w < found[k][2]

RunList(map, n, found) ==
  /\ found \in Seq(Nat \X Nat)
  /\ \A k \in 1..Len(found) : Run(map, found[k]) /\ found[k][2] < n
  /\ \A j, k \in 1..Len(found) : j < k => found[j][2] < found[k][1]

\* The chunk that has begun before n.
Begun(map, n, first, found) ==
  /\ Start(map, first) /\ first < n
  /\ \A w \in first..(n - 1) : w \in map
  /\ \A k \in 1..Len(found) : found[k][2] < first

\* The words below n have been looked at.
Scanned(map, n, last, first, found) ==
  /\ n \in Nat \ {0} /\ last \in BOOLEAN
  /\ last <=> n - 1 \in map
  /\ RunList(map, n, found)
  /\ last => Begun(map, n, first, found)
  /\ \A w \in map : w < n => InRun(found, w) \/ InVideo(map, w) \/ (last /\ first <= w)

\* The next word to look at: behind a stride, it is not the one the scan is at.
NextWord(a, c) == IF c = 1 THEN a ELSE a - FAST_SEARCH_INCREMENT + 1

\* The scan is at a, at increment c, after at most i steps.
ScanPos(map, a, c, last, first, found, i) ==
  /\ a \in Nat /\ c \in {1, FAST_SEARCH_INCREMENT} /\ last \in BOOLEAN /\ first \in Nat
  /\ c # 1 => a > FAST_SEARCH_INCREMENT
  /\ Scanned(map, NextWord(a, c), last, first, found)
  /\ i <= 2 * NextWord(a, c) - (IF c = 1 THEN 0 ELSE 1)

(***************************************************************************)
(* What is known of a map.                                                 *)
(***************************************************************************)
LEMMA MapFacts ==
  ASSUME NEW map \in HEAP_MAPS
  PROVE  /\ map \in SUBSET Nat /\ 0 \notin map
         /\ \A w \in map : w + FAST_SEARCH_INCREMENT <= HEAP_TOP
         /\ FAST_SEARCH_INCREMENT \in Nat /\ FAST_SEARCH_INCREMENT >= 2 /\ HEAP_TOP \in Nat
  <1>1. HEAP_TOP \in Nat /\ FAST_SEARCH_INCREMENT \in Nat \ {0, 1} /\ map \in SUBSET HeapWords
    BY HeapAssumption
  <1>2. \A w \in HeapWords : w \in Nat /\ w # 0
    BY <1>1 DEF HeapWords
  <1> QED
    BY <1>1, <1>2, MapsAssumption

\* The words from n up to before m are memory like the one before n, or none like it.
Alike(map, n, m) == \A w \in n..(m - 1) : w \in map <=> n - 1 \in map

(***************************************************************************)
(* Words like the one before: the scan goes on.                            *)
(***************************************************************************)
LEMMA GoOn ==
  ASSUME NEW map \in HEAP_MAPS, NEW n, NEW last, NEW first, NEW found,
         Scanned(map, n, last, first, found),
         NEW m \in Nat, m >= n, Alike(map, n, m)
  PROVE  Scanned(map, m, last, first, found)
  <1>1. map \in SUBSET Nat
    BY MapFacts
  <1>2. n \in Nat \ {0} /\ last \in BOOLEAN /\ (last <=> n - 1 \in map)
    BY DEF Scanned
  <1>3. last <=> m - 1 \in map
    <2>1. CASE m = n
      BY <1>2, <2>1
    <2>2. CASE m # n
      <3>1. m - 1 \in n..(m - 1)
        BY <1>2, <2>2
      <3> QED
        BY <1>2, <3>1 DEF Alike
    <2> QED
      BY <2>1, <2>2
  <1>4. RunList(map, m, found)
    <2>1. RunList(map, n, found)
      BY DEF Scanned
    <2>2. ASSUME NEW k \in 1..Len(found)
          PROVE  Run(map, found[k]) /\ found[k][2] < m
      <3>1. Run(map, found[k]) /\ found[k][2] < n
        BY <2>1 DEF RunList
      <3>2. found[k][2] \in Nat
        BY <3>1 DEF Run
      <3> QED
        BY <1>2, <3>1, <3>2
    <2> QED
      BY <2>1, <2>2 DEF RunList
  <1>5. last => Begun(map, m, first, found)
    <2> SUFFICES ASSUME last PROVE Begun(map, m, first, found)
      OBVIOUS
    <2>1. Begun(map, n, first, found)
      BY DEF Scanned
    <2>2. first \in Nat /\ first < n
      BY <2>1 DEF Begun, Start
    <2>3. ASSUME NEW w \in first..(m - 1)
          PROVE  w \in map
      <3>1. CASE w \in n..(m - 1)
        BY <1>2, <3>1 DEF Alike
      <3>2. CASE w \in first..(n - 1)
        BY <3>2, <2>1 DEF Begun
      <3> QED
        BY <1>2, <2>2, <3>1, <3>2
    <2> QED
      BY <1>2, <2>1, <2>2, <2>3 DEF Begun
  <1>6. ASSUME NEW w \in map, w < m
        PROVE  InRun(found, w) \/ InVideo(map, w) \/ (last /\ first <= w)
    <2>1. CASE w < n
      BY <2>1 DEF Scanned
    <2>2. CASE ~ (w < n)
      <3>1. w \in n..(m - 1) /\ w \in Nat
        BY <1>1, <1>2, <1>6, <2>2
      <3>2. last
        BY <1>2, <3>1 DEF Alike
      <3>3. first \in Nat /\ first < n
        BY <3>2 DEF Scanned, Begun, Start
      <3> QED
        BY <1>2, <3>1, <3>2, <3>3
    <2> QED
      BY <2>1, <2>2
  <1>7. m \in Nat \ {0}
    BY <1>2
  <1> QED
    BY <1>2, <1>3, <1>4, <1>5, <1>6, <1>7 DEF Scanned

(***************************************************************************)
(* The first word of a chunk.                                              *)
(***************************************************************************)
LEMMA ChunkBegins ==
  ASSUME NEW map \in HEAP_MAPS, NEW n, NEW first, NEW found,
         Scanned(map, n, FALSE, first, found), n \in map
  PROVE  Scanned(map, n + 1, TRUE, n, found)
  <1>1. map \in SUBSET Nat
    BY MapFacts
  <1>2. n \in Nat \ {0} /\ n - 1 \notin map /\ RunList(map, n, found)
    BY DEF Scanned
  <1>3. \A k \in 1..Len(found) : Run(map, found[k]) /\ found[k][2] < n /\ found[k][2] \in Nat
    BY <1>2 DEF RunList, Run
  <1>4. RunList(map, n + 1, found)
    <2>1. \A k \in 1..Len(found) : found[k][2] < n + 1
      BY <1>2, <1>3
    <2> QED
      BY <1>2, <2>1 DEF RunList
  <1>5. Begun(map, n + 1, n, found)
    <2>1. Start(map, n)
      BY <1>2 DEF Start
    <2>2. \A w \in n..(n + 1 - 1) : w = n
      BY <1>2
    <2> QED
      BY <1>2, <1>3, <2>1, <2>2 DEF Begun
  <1>6. ASSUME NEW w \in map, w < n + 1
        PROVE  InRun(found, w) \/ InVideo(map, w) \/ (TRUE /\ n <= w)
    <2>1. CASE w < n
      BY <2>1 DEF Scanned
    <2> QED
      BY <1>1, <1>2, <2>1
  <1>7. n + 1 \in Nat \ {0} /\ n + 1 - 1 \in map
    BY <1>2
  <1> QED
    BY <1>4, <1>5, <1>6, <1>7 DEF Scanned

(***************************************************************************)
(* The first word behind one: it is noted, if not the memory of the        *)
(* display.                                                                *)
(***************************************************************************)
LEMMA ChunkEnds ==
  ASSUME NEW map \in HEAP_MAPS, NEW n, NEW first, NEW found,
         Scanned(map, n, TRUE, first, found), n \notin map,
         NEW more, more = IF first = VIDEO_BASE_ADDR THEN found ELSE Append(found, <<first, n>>)
  PROVE  Scanned(map, n + 1, FALSE, first, more)
  <1>1. map \in SUBSET Nat
    BY MapFacts
  <1>2. n \in Nat \ {0} /\ n - 1 \in map /\ RunList(map, n, found) /\ Begun(map, n, first, found)
    BY DEF Scanned
  <1>3. first \in Nat \ {0} /\ first < n /\ Start(map, first) /\ \A w \in first..(n - 1) : w \in map
    BY <1>2 DEF Begun, Start
  <1>4. \A k \in 1..Len(found) :
          Run(map, found[k]) /\ found[k][2] < n /\ found[k][2] \in Nat /\ found[k][2] < first
    BY <1>2 DEF RunList, Run, Begun
  <1>5. found \in Seq(Nat \X Nat) /\ \A j, k \in 1..Len(found) : j < k => found[j][2] < found[k][1]
    BY <1>2 DEF RunList
  <1>6. n + 1 \in Nat \ {0} /\ n + 1 - 1 = n
    BY <1>2
  <1>7. CASE first = VIDEO_BASE_ADDR
    <2>1. more = found
      BY <1>7
    <2>2. RunList(map, n + 1, found)
      <3>1. \A k \in 1..Len(found) : found[k][2] < n + 1
        BY <1>2, <1>4
      <3> QED
        BY <1>2, <3>1 DEF RunList
    <2>3. ASSUME NEW w \in map, w < n + 1
          PROVE  InRun(found, w) \/ InVideo(map, w)
      <3>1. w < n /\ w \in Nat
        BY <1>1, <1>2, <2>3
      <3>2. CASE first <= w
        <4>1. \A g \in VIDEO_BASE_ADDR..w : g \in first..(n - 1)
          BY <1>2, <1>3, <1>7, <3>1
        <4>2. VIDEO_BASE_ADDR \in map
          BY <1>3, <1>7 DEF Start
        <4> QED
          BY <1>3, <1>7, <3>2, <4>1, <4>2 DEF InVideo
      <3>3. CASE ~ (first <= w)
        BY <3>1, <3>3 DEF Scanned
      <3> QED
        BY <3>2, <3>3
    <2> QED
      BY <1>6, <2>1, <2>2, <2>3 DEF Scanned
  <1>8. CASE first # VIDEO_BASE_ADDR
    <2>1. more = Append(found, <<first, n>>)
      BY <1>8
    <2>2. /\ more \in Seq(Nat \X Nat) /\ Len(more) = Len(found) + 1 /\ Len(found) \in Nat
          /\ \A k \in 1..Len(found) : more[k] = found[k]
          /\ more[Len(found) + 1] = <<first, n>>
      BY <1>2, <1>3, <1>5, <2>1
    <2>3. Run(map, <<first, n>>)
      BY <1>2, <1>3, <1>8 DEF Run
    <2>4. ASSUME NEW k \in 1..Len(more)
          PROVE  Run(map, more[k]) /\ more[k][2] < n + 1
      <3>1. CASE k = Len(found) + 1
        BY <1>2, <2>2, <2>3, <3>1
      <3>2. CASE k # Len(found) + 1
        <4>1. k \in 1..Len(found)
          BY <2>2, <3>2
        <4> QED
          BY <1>2, <1>4, <2>2, <4>1, SMTT(30)
      <3> QED
        BY <3>1, <3>2
    <2>5. ASSUME NEW j \in 1..Len(more), NEW k \in 1..Len(more), j < k
          PROVE  more[j][2] < more[k][1]
      <3>1. j \in 1..Len(found)
        BY <2>2, <2>5
      <3>2. CASE k = Len(found) + 1
        BY <1>4, <2>2, <3>1, <3>2
      <3>3. CASE k # Len(found) + 1
        <4>1. k \in 1..Len(found)
          BY <2>2, <3>3
        <4> QED
          BY <1>5, <2>2, <2>5, <3>1, <4>1
      <3> QED
        BY <3>2, <3>3
    <2>6. RunList(map, n + 1, more)
      BY <2>2, <2>4, <2>5 DEF RunList
    <2>7. ASSUME NEW w \in map, w < n + 1
          PROVE  InRun(more, w) \/ InVideo(map, w)
      <3>1. w < n /\ w \in Nat
        BY <1>1, <1>2, <2>7
      <3>2. CASE first <= w
        <4>1. Len(found) + 1 \in 1..Len(more)
          BY <2>2
        <4>2. more[Len(found) + 1][1] <= w /\ w < more[Len(found) + 1][2]
          BY <2>2, <3>1, <3>2
        <4> QED
          BY <4>1, <4>2 DEF InRun
      <3>3. CASE InRun(found, w)
        <4>1. PICK k \in 1..Len(found) : found[k][1] <= w /\ w < found[k][2]
          BY <3>3 DEF InRun
        <4>2. k \in 1..Len(more) /\ more[k] = found[k]
          BY <2>2
        <4> QED
          BY <4>1, <4>2 DEF InRun
      <3> QED
        BY <3>1, <3>2, <3>3 DEF Scanned
    <2> QED
      BY <1>6, <2>6, <2>7 DEF Scanned
  <1> QED
    BY <1>7, <1>8

\* The word at a is as the scan expects: nothing changes there.
AsBefore(map, a, last) == a \in map <=> last

(***************************************************************************)
(* A word like those before, at a step or a stride.                        *)
(***************************************************************************)
LEMMA SameStep ==
  ASSUME NEW map \in HEAP_MAPS, NEW a, NEW c, NEW last, NEW first, NEW found, NEW i \in Nat,
         ScanPos(map, a, c, last, first, found, i), a <= HEAP_TOP, AsBefore(map, a, last)
  PROVE  ScanPos(map, a + c, c, last, first, found, i + 1)
  <1>1. PICK n : n = NextWord(a, c)
    OBVIOUS
  <1>2. PICK inc : inc = FAST_SEARCH_INCREMENT
    OBVIOUS
  <1>3. inc \in Nat /\ inc >= 2 /\ HEAP_TOP \in Nat
    BY <1>2, MapFacts
  <1>4. a \in Nat /\ c \in {1, inc} /\ first \in Nat /\ last \in BOOLEAN /\ (c # 1 => a > inc)
    BY <1>2 DEF ScanPos
  <1>5. Scanned(map, n, last, first, found) /\ i <= 2 * n - (IF c = 1 THEN 0 ELSE 1)
    BY <1>1 DEF ScanPos
  <1>6. n \in Nat \ {0} /\ (last <=> n - 1 \in map)
    BY <1>5 DEF Scanned
  <1>7. n = IF c = 1 THEN a ELSE a - inc + 1
    BY <1>1, <1>2 DEF NextWord
  <1>8. CASE c = 1
    <2>1. NextWord(a + c, c) = n + 1
      BY <1>7, <1>8 DEF NextWord
    <2>2. Alike(map, n, n + 1)
      <3>1. \A w \in n..(n + 1 - 1) : w = a
        BY <1>6, <1>7, <1>8
      <3> QED
        BY <1>6, <1>7, <1>8, <3>1 DEF Alike, AsBefore
    <2>3. Scanned(map, n + 1, last, first, found)
      <3>1. n + 1 \in Nat /\ n + 1 >= n
        BY <1>6
      <3> QED
        BY <1>5, <2>2, <3>1, GoOn
    <2>4. i + 1 <= 2 * (n + 1) - (IF c = 1 THEN 0 ELSE 1) /\ a + c \in Nat
      BY <1>4, <1>5, <1>6, <1>8
    <2>5. c \in {1, FAST_SEARCH_INCREMENT} /\ (c # 1 => a + c > FAST_SEARCH_INCREMENT)
      BY <1>2, <1>4, <1>8
    <2> QED
      BY <1>4, <2>1, <2>3, <2>4, <2>5 DEF ScanPos
  <1>9. CASE c # 1
    <2>1. c = inc /\ a > inc /\ n = a - inc + 1
      BY <1>4, <1>7, <1>9
    <2>2. a = n - 1 + inc /\ n - 1 \in Nat /\ n - 1 # 0
      BY <1>3, <1>4, <2>1
    <2>3. NextWord(a + c, c) = n + inc
      BY <1>2, <1>3, <1>6, <1>9, <2>1, <2>2 DEF NextWord
    <2>4. \A w \in (n - 1)..a : w \in map <=> n - 1 \in map
      <3>1. n - 1 \in HeapWords /\ a \in HeapWords
        BY <1>3, <1>4, <1>6, <2>2 DEF HeapWords
      <3>2. n - 1 < a /\ a - (n - 1) <= FAST_SEARCH_INCREMENT
        BY <1>2, <1>3, <1>6, <2>2
      <3>3. n - 1 \in map <=> a \in map
        BY <1>6 DEF AsBefore
      <3> QED
        BY <3>1, <3>2, <3>3, MapsAssumption
    <2>5. Alike(map, n, n + inc)
      <3>1. \A w \in n..((n + inc) - 1) : w \in (n - 1)..a
        BY <1>3, <1>6, <2>2
      <3>2. ASSUME NEW w \in n..((n + inc) - 1) PROVE w \in map <=> n - 1 \in map
        BY <2>4, <3>1, Zenon
      <3> QED
        BY <3>2, Zenon DEF Alike
    <2>6. Scanned(map, n + inc, last, first, found)
      <3>1. n + inc \in Nat /\ n + inc >= n
        BY <1>3, <1>6
      <3> QED
        BY <1>5, <2>5, <3>1, GoOn
    <2>7. i + 1 <= 2 * (n + inc) - (IF c = 1 THEN 0 ELSE 1) /\ a + c \in Nat /\ a + c > inc
      BY <1>3, <1>4, <1>5, <1>6, <1>9, <2>1
    <2>8. c \in {1, FAST_SEARCH_INCREMENT} /\ (c # 1 => a + c > FAST_SEARCH_INCREMENT)
      BY <1>2, <1>4, <2>7
    <2> QED
      BY <1>4, <2>3, <2>6, <2>7, <2>8 DEF ScanPos
  <1> QED
    BY <1>8, <1>9

(***************************************************************************)
(* A change seen at a stride: back to where it was last known.             *)
(***************************************************************************)
LEMMA BackStep ==
  ASSUME NEW map \in HEAP_MAPS, NEW a, NEW c, NEW last, NEW first, NEW found, NEW i \in Nat,
         ScanPos(map, a, c, last, first, found, i), c # 1
  PROVE  ScanPos(map, a - c + 1, 1, last, first, found, i + 1)
  <1>1. PICK n : n = NextWord(a, c)
    OBVIOUS
  <1>2. Scanned(map, n, last, first, found) /\ i <= 2 * n - 1 /\ n \in Nat \ {0}
    BY <1>1 DEF ScanPos, Scanned
  <1>3. a - c + 1 = n
    BY <1>1 DEF NextWord, ScanPos
  <1>4. NextWord(n, 1) = n
    BY DEF NextWord
  <1>5. i + 1 <= 2 * n
    BY <1>2
  <1>6. first \in Nat /\ last \in BOOLEAN
    BY DEF ScanPos
  <1> QED
    BY <1>2, <1>3, <1>4, <1>5, <1>6 DEF ScanPos

(***************************************************************************)
(* A change seen word by word: from here on by strides.                    *)
(***************************************************************************)
LEMMA ChangeStep ==
  ASSUME NEW map \in HEAP_MAPS, NEW a, NEW last, NEW first, NEW found, NEW i \in Nat,
         ScanPos(map, a, 1, last, first, found, i),
         NEW newlast \in BOOLEAN, NEW newfirst \in Nat, NEW newfound,
         Scanned(map, a, last, first, found) => Scanned(map, a + 1, newlast, newfirst, newfound)
  PROVE  ScanPos(map, a + FAST_SEARCH_INCREMENT, FAST_SEARCH_INCREMENT, newlast, newfirst, newfound, i + 1)
  <1>1. PICK inc : inc = FAST_SEARCH_INCREMENT
    OBVIOUS
  <1>2. inc \in Nat /\ inc >= 2
    BY <1>1, MapFacts
  <1>3. NextWord(a, 1) = a
    BY DEF NextWord
  <1>4. Scanned(map, a, last, first, found) /\ i <= 2 * a /\ a \in Nat \ {0}
    <2>1. Scanned(map, a, last, first, found) /\ i <= 2 * a - 0
      BY <1>3 DEF ScanPos
    <2>2. a \in Nat \ {0}
      BY <2>1 DEF Scanned
    <2> QED
      BY <2>1, <2>2
  <1>5. Scanned(map, a + 1, newlast, newfirst, newfound)
    BY <1>4
  <1>6. NextWord(a + inc, inc) = a + 1 /\ inc # 1 /\ a + inc > inc /\ a + inc \in Nat
    BY <1>1, <1>2, <1>4 DEF NextWord
  <1>7. i + 1 <= 2 * (a + 1) - 1
    BY <1>4
  <1> QED
    BY <1>1, <1>5, <1>6, <1>7 DEF ScanPos

\* The state of the scan after i steps.
ScanAt(map, s, i) ==
  /\ s = [addr |-> s.addr, increment |-> s.increment, last |-> s.last, first |-> s.first, found |-> s.found]
  /\ ScanPos(map, s.addr, s.increment, s.last, s.first, s.found, i)

ScanRecord(a, c, l, f, r) == [addr |-> a, increment |-> c, last |-> l, first |-> f, found |-> r]

LEMMA RecordAt ==
  ASSUME NEW map, NEW i, NEW a, NEW c, NEW l, NEW f, NEW r, ScanPos(map, a, c, l, f, r, i)
  PROVE  ScanAt(map, ScanRecord(a, c, l, f, r), i)
  BY DEF ScanAt, ScanRecord

\* What the loop changes in it.
Moved(s, x) == [s EXCEPT !.addr = x]
Turned(s, x, c) == [s EXCEPT !.addr = x, !.increment = c]
Crossed(s, x, c, l) == [s EXCEPT !.addr = x, !.increment = c, !.last = l]
WithFirst(s, x) == [s EXCEPT !.first = x]
WithFound(s, x) == [s EXCEPT !.found = x]

(***************************************************************************)
(* And what becomes of it.                                                 *)
(***************************************************************************)
LEMMA RecordMoved ==
  ASSUME NEW a, NEW c, NEW l, NEW f, NEW r, NEW x
  PROVE  Moved(ScanRecord(a, c, l, f, r), x) = ScanRecord(x, c, l, f, r)
  <1>1. [ScanRecord(a, c, l, f, r) EXCEPT !.addr = x] = ScanRecord(x, c, l, f, r)
    BY DEF ScanRecord
  <1> QED
    BY <1>1 DEF Moved

LEMMA RecordTurned ==
  ASSUME NEW a, NEW c, NEW l, NEW f, NEW r, NEW x, NEW d
  PROVE  Turned(ScanRecord(a, c, l, f, r), x, d) = ScanRecord(x, d, l, f, r)
  <1> DEFINE R == ScanRecord(a, c, l, f, r)
  <1>1. [R EXCEPT !.addr = x] = ScanRecord(x, c, l, f, r)
    BY DEF ScanRecord
  <1>2. [ScanRecord(x, c, l, f, r) EXCEPT !.increment = d] = ScanRecord(x, d, l, f, r)
    BY DEF ScanRecord
  <1> HIDE DEF R
  <1>3. [R EXCEPT !.addr = x, !.increment = d] = [[R EXCEPT !.addr = x] EXCEPT !.increment = d]
    OBVIOUS
  <1>4. Turned(R, x, d) = ScanRecord(x, d, l, f, r)
    BY <1>1, <1>2, <1>3, Zenon DEF Turned
  <1> QED
    BY <1>4 DEF R

LEMMA RecordCrossed ==
  ASSUME NEW a, NEW c, NEW l, NEW f, NEW r, NEW x, NEW d, NEW p
  PROVE  Crossed(ScanRecord(a, c, l, f, r), x, d, p) = ScanRecord(x, d, p, f, r)
  <1> DEFINE R == ScanRecord(a, c, l, f, r)
  <1>1. [R EXCEPT !.addr = x] = ScanRecord(x, c, l, f, r)
    BY DEF ScanRecord
  <1>2. [ScanRecord(x, c, l, f, r) EXCEPT !.increment = d] = ScanRecord(x, d, l, f, r)
    BY DEF ScanRecord
  <1>3. [ScanRecord(x, d, l, f, r) EXCEPT !.last = p] = ScanRecord(x, d, p, f, r)
    BY DEF ScanRecord
  <1> HIDE DEF R
  <1>4. [R EXCEPT !.addr = x, !.increment = d, !.last = p] =
          [[[R EXCEPT !.addr = x] EXCEPT !.increment = d] EXCEPT !.last = p]
    OBVIOUS
  <1>5. Crossed(R, x, d, p) = ScanRecord(x, d, p, f, r)
    BY <1>1, <1>2, <1>3, <1>4, Zenon DEF Crossed
  <1> QED
    BY <1>5 DEF R

LEMMA RecordFirst ==
  ASSUME NEW a, NEW c, NEW l, NEW f, NEW r, NEW x
  PROVE  WithFirst(ScanRecord(a, c, l, f, r), x) = ScanRecord(a, c, l, x, r)
  <1>1. [ScanRecord(a, c, l, f, r) EXCEPT !.first = x] = ScanRecord(a, c, l, x, r)
    BY DEF ScanRecord
  <1> QED
    BY <1>1 DEF WithFirst

LEMMA RecordFound ==
  ASSUME NEW a, NEW c, NEW l, NEW f, NEW r, NEW x
  PROVE  WithFound(ScanRecord(a, c, l, f, r), x) = ScanRecord(a, c, l, f, x)
  <1>1. [ScanRecord(a, c, l, f, r) EXCEPT !.found = x] = ScanRecord(a, c, l, f, x)
    BY DEF ScanRecord
  <1> QED
    BY <1>1 DEF WithFound

LEMMA RecordRead ==
  ASSUME NEW a, NEW c, NEW l, NEW f, NEW r, NEW s, s = ScanRecord(a, c, l, f, r)
  PROVE  s.addr = a /\ s.increment = c /\ s.last = l /\ s.first = f /\ s.found = r
  BY DEF ScanRecord

\* The body of the loop, when the word it is at is there or not.
StepWhen(s, present) ==
  LET there == Crossed(s, s.addr + FAST_SEARCH_INCREMENT, FAST_SEARCH_INCREMENT, present)
  IN  CASE present = s.last -> Moved(s, s.addr + s.increment)
        [] present # s.last /\ s.increment # 1 -> Turned(s, s.addr - s.increment + 1, 1)
        [] present /\ ~ s.last /\ s.increment = 1 -> WithFirst(there, s.addr)
        [] OTHER -> IF s.first = VIDEO_BASE_ADDR THEN there
                    ELSE WithFound(there, Append(there.found, <<s.first, s.addr>>))

\* What t is, a step on from the record of these.
StepIs(map, a, c, l, f, r, t) ==
  /\ AsBefore(map, a, l) => t = ScanRecord(a + c, c, l, f, r)
  /\ ~ AsBefore(map, a, l) /\ c # 1 => t = ScanRecord(a - c + 1, 1, l, f, r)
  /\ a \in map /\ l = FALSE /\ c = 1 =>
       t = ScanRecord(a + FAST_SEARCH_INCREMENT, FAST_SEARCH_INCREMENT, TRUE, a, r)
  /\ a \notin map /\ l = TRUE /\ c = 1 =>
       t = ScanRecord(a + FAST_SEARCH_INCREMENT, FAST_SEARCH_INCREMENT, FALSE, f,
                      IF f = VIDEO_BASE_ADDR THEN r ELSE Append(r, <<f, a>>))

(***************************************************************************)
(* What the loop does, case by case.                                       *)
(***************************************************************************)
LEMMA ScanStepIs ==
  ASSUME NEW map, NEW a, NEW c, NEW l \in BOOLEAN, NEW f, NEW r, NEW t,
         t = ScanStep(map, ScanRecord(a, c, l, f, r))
  PROVE  StepIs(map, a, c, l, f, r, t)
  <1> DEFINE inc == FAST_SEARCH_INCREMENT
  <1>1. PICK s : s = ScanRecord(a, c, l, f, r)
    OBVIOUS
  <1>2. s.addr = a /\ s.increment = c /\ s.last = l /\ s.first = f /\ s.found = r
    BY <1>1, RecordRead
  <1>3. PICK p : p = (a \in map)
    OBVIOUS
  <1>4. p \in BOOLEAN
    BY <1>3
  <1>12. p <=> a \in map
    BY <1>3
  <1>13. PICK b : b = a + inc
    OBVIOUS
  <1>5. t = StepWhen(s, p)
    <2>1. ScanStep(map, s) = StepWhen(s, (s.addr \in map))
      BY Zenon DEF ScanStep, StepWhen, Moved, Turned, Crossed, WithFirst, WithFound
    <2>2. (s.addr \in map) = p
      BY <1>2, <1>3, Zenon
    <2> QED
      BY <1>1, <2>1, <2>2, Zenon
  <1>6. p = l => t = Moved(s, a + c)
    BY <1>2, <1>5 DEF StepWhen
  <1>7. p # l /\ c # 1 => t = Turned(s, a - c + 1, 1)
    BY <1>2, <1>5 DEF StepWhen
  <1>8. ASSUME AsBefore(map, a, l) PROVE t = ScanRecord(a + c, c, l, f, r)
    <2>1. p = l
      BY <1>4, <1>12, <1>8 DEF AsBefore
    <2> QED
      BY <1>1, <1>6, <2>1, RecordMoved
  <1>9. ASSUME ~ AsBefore(map, a, l), c # 1 PROVE t = ScanRecord(a - c + 1, 1, l, f, r)
    <2>1. p # l
      BY <1>4, <1>12, <1>9 DEF AsBefore
    <2> QED
      BY <1>1, <1>7, <1>9, <2>1, RecordTurned
  <1>10. ASSUME a \in map, l = FALSE, c = 1
         PROVE  t = ScanRecord(b, inc, TRUE, a, r)
    <2>1. p = TRUE
      BY <1>4, <1>12, <1>10
    <2>2. t = WithFirst(Crossed(s, b, inc, p), a)
      BY <1>2, <1>13, <1>5, <1>10, <2>1 DEF StepWhen
    <2>3. Crossed(s, b, inc, p) = ScanRecord(b, inc, p, f, r)
      BY <1>1, RecordCrossed
    <2>4. WithFirst(Crossed(s, b, inc, p), a) = ScanRecord(b, inc, p, a, r)
      BY <2>3, RecordFirst
    <2> QED
      BY <2>1, <2>2, <2>4, Zenon
  <1>11. ASSUME a \notin map, l = TRUE, c = 1
         PROVE  t = ScanRecord(b, inc, FALSE, f, IF f = VIDEO_BASE_ADDR THEN r ELSE Append(r, <<f, a>>))
    <2>1. p = FALSE
      BY <1>4, <1>12, <1>11
    <2>2. PICK u : u = Crossed(s, b, inc, p)
      OBVIOUS
    <2>3. t = IF f = VIDEO_BASE_ADDR THEN u ELSE WithFound(u, Append(u.found, <<f, a>>))
      BY <1>2, <1>13, <1>5, <1>11, <2>1, <2>2 DEF StepWhen
    <2>4. u = ScanRecord(b, inc, p, f, r)
      BY <1>1, <2>2, RecordCrossed
    <2>5. u.found = r
      BY <2>4, RecordRead
    <2>6. PICK x : x = Append(r, <<f, a>>)
      OBVIOUS
    <2>7. WithFound(u, x) = ScanRecord(b, inc, p, f, x)
      BY <2>4, RecordFound
    <2>8. CASE f = VIDEO_BASE_ADDR
      BY <2>1, <2>3, <2>4, <2>8, Zenon
    <2>9. CASE f # VIDEO_BASE_ADDR
      BY <2>1, <2>3, <2>5, <2>6, <2>7, <2>9, Zenon
    <2> QED
      BY <2>8, <2>9
  <1> QED
    BY <1>13, <1>8, <1>9, <1>10, <1>11 DEF StepIs

(***************************************************************************)
(* A step of the scan.                                                     *)
(***************************************************************************)
LEMMA ScanKeeps ==
  ASSUME NEW map \in HEAP_MAPS, NEW s, NEW i \in Nat, ScanAt(map, s, i), s.addr <= HEAP_TOP
  PROVE  ScanAt(map, ScanStep(map, s), i + 1)
  <1> DEFINE inc == FAST_SEARCH_INCREMENT
  <1>1. PICK a, c, l, f, r : s = ScanRecord(a, c, l, f, r) /\ ScanPos(map, a, c, l, f, r, i) /\ a = s.addr
    BY DEF ScanAt, ScanRecord
  <1>2. PICK t : t = ScanStep(map, s)
    OBVIOUS
  <1>3. a <= HEAP_TOP /\ l \in BOOLEAN /\ f \in Nat /\ a \in Nat
    BY <1>1 DEF ScanPos
  <1>8. StepIs(map, a, c, l, f, r, t)
    <2>1. t = ScanStep(map, ScanRecord(a, c, l, f, r))
      BY <1>1, <1>2
    <2> QED
      BY <1>3, <2>1, ScanStepIs
  <1>4. CASE AsBefore(map, a, l)
    <2>1. t = ScanRecord(a + c, c, l, f, r)
      BY <1>8, <1>4 DEF StepIs
    <2>2. ScanPos(map, a + c, c, l, f, r, i + 1)
      BY <1>1, <1>3, <1>4, SameStep
    <2> QED
      BY <1>2, <2>1, <2>2, RecordAt
  <1>5. CASE ~ AsBefore(map, a, l) /\ c # 1
    <2>1. t = ScanRecord(a - c + 1, 1, l, f, r)
      BY <1>8, <1>5 DEF StepIs
    <2>2. ScanPos(map, a - c + 1, 1, l, f, r, i + 1)
      BY <1>1, <1>5, BackStep
    <2> QED
      BY <1>2, <2>1, <2>2, RecordAt
  <1>6. CASE a \in map /\ l = FALSE /\ c = 1
    <2>1. t = ScanRecord(a + inc, inc, TRUE, a, r)
      BY <1>8, <1>6 DEF StepIs
    <2>2. ScanPos(map, a + inc, inc, TRUE, a, r, i + 1)
      <3>1. Scanned(map, a, FALSE, f, r) => Scanned(map, a + 1, TRUE, a, r)
        BY <1>6, ChunkBegins
      <3> QED
        BY <1>1, <1>3, <1>6, <3>1, ChangeStep
    <2> HIDE DEF inc
    <2> QED
      BY <1>2, <2>1, <2>2, RecordAt
  <1>7. CASE a \notin map /\ l = TRUE /\ c = 1
    <2> DEFINE more == IF f = VIDEO_BASE_ADDR THEN r ELSE Append(r, <<f, a>>)
    <2>1. t = ScanRecord(a + inc, inc, FALSE, f, more)
      BY <1>8, <1>7 DEF StepIs
    <2>2. ScanPos(map, a + inc, inc, FALSE, f, more, i + 1)
      <3>1. Scanned(map, a, TRUE, f, r) => Scanned(map, a + 1, FALSE, f, more)
        BY <1>7, ChunkEnds
      <3> HIDE DEF more
      <3> QED
        BY <1>1, <1>3, <1>7, <3>1, ChangeStep
    <2> HIDE DEF inc, more
    <2> QED
      BY <1>2, <2>1, <2>2, RecordAt
  <1> QED
    <2>1. ~ AsBefore(map, a, l) => (a \in map /\ l = FALSE) \/ (a \notin map /\ l = TRUE)
      BY <1>3 DEF AsBefore
    <2> QED
      BY <1>4, <1>5, <1>6, <1>7, <2>1

\* The recursive function of the scan, up to N.
ScanIs(map, at, N) ==
  at = [i \in 0..N |-> IF i = 0 THEN ScanStart
                       ELSE IF at[i - 1].addr > HEAP_TOP THEN at[i - 1] ELSE ScanStep(map, at[i - 1])]

(***************************************************************************)
(* There is one, and Chunks takes it.                                      *)
(***************************************************************************)
LEMMA ScanThere ==
  ASSUME NEW map
  PROVE  /\ 4 * HEAP_TOP \in Nat
         /\ \E at : ScanIs(map, at, 4 * HEAP_TOP) /\ Chunks(map) = at[4 * HEAP_TOP].found
  <1> DEFINE N == 4 * HEAP_TOP
  <1>0. N \in Nat
    BY HeapAssumption
  <1> HIDE DEF N
  <1> DEFINE T == {m \in Nat : \E at : ScanIs(map, at, m)}
  <1>1. 0 \in T
    <2>1. ScanIs(map, [i \in 0..0 |-> ScanStart], 0)
      BY DEF ScanIs
    <2> QED
      BY <2>1
  <1>2. ASSUME NEW m \in T
        PROVE  m + 1 \in T
    <2>1. PICK f : ScanIs(map, f, m)
      BY <1>2
    <2> DEFINE Next(s) == IF s.addr > HEAP_TOP THEN s ELSE ScanStep(map, s)
               h == [i \in 0..(m + 1) |-> IF i <= m THEN f[i] ELSE Next(f[m])]
    <2>a. m \in Nat
      BY <1>2
    <2>b. \A i \in 0..m : f[i] = IF i = 0 THEN ScanStart ELSE Next(f[i - 1])
      BY <2>1 DEF ScanIs
    <2>c. \A i \in 0..(m + 1) : h[i] = IF i <= m THEN f[i] ELSE Next(f[m])
      OBVIOUS
    <2>d. DOMAIN h = 0..(m + 1) /\ h = [i \in 0..(m + 1) |-> h[i]]
      OBVIOUS
    <2> HIDE DEF h, Next
    <2>e. ASSUME NEW i \in 0..(m + 1)
          PROVE  h[i] = IF i = 0 THEN ScanStart ELSE Next(h[i - 1])
      <3>1. CASE i = m + 1
        <4>1. ~ (i <= m) /\ i # 0 /\ i - 1 = m /\ m \in 0..(m + 1) /\ m <= m
          BY <2>a, <3>1
        <4>2. h[i] = Next(f[m]) /\ h[i - 1] = f[m]
          BY <2>c, <4>1
        <4> QED
          BY <4>1, <4>2
      <3>2. CASE i # m + 1
        <4>1. i <= m /\ i \in 0..m /\ (i # 0 => i - 1 \in 0..(m + 1) /\ i - 1 <= m)
          BY <2>a, <3>2
        <4>2. h[i] = f[i] /\ (i # 0 => h[i - 1] = f[i - 1])
          BY <2>c, <4>1
        <4> QED
          BY <2>b, <4>1, <4>2
      <3> QED
        BY <3>1, <3>2
    <2>2. ScanIs(map, h, m + 1)
      BY <2>d, <2>e DEF ScanIs, Next
    <2>3. \E at : ScanIs(map, at, m + 1)
      BY <2>2
    <2> QED
      BY <2>3
  <1>3. N \in T
    <2> HIDE DEF T
    <2>1. T \in SUBSET Nat
      BY DEF T
    <2> QED
      BY <1>0, <1>1, <1>2, <2>1, SetInduction
  <1>4. PICK f : ScanIs(map, f, N)
    BY <1>3
  <1> DEFINE Is(h) == h = [i \in 0..N |-> IF i = 0 THEN ScanStart
                             ELSE LET s == h[i - 1] IN IF s.addr > HEAP_TOP THEN s ELSE ScanStep(map, s)]
  <1>5. Is(f)
    BY <1>4 DEF ScanIs
  <1>6. Chunks(map) = (CHOOSE g : Is(g))[N].found
    BY DEF Chunks, N
  <1>7. PICK g : g = CHOOSE h : Is(h)
    OBVIOUS
  <1> HIDE DEF Is
  <1>8. Is(g)
    BY <1>5, <1>7, Zenon
  <1>9. ScanIs(map, g, N)
    BY <1>8 DEF ScanIs, Is
  <1> QED
    BY <1>0, <1>6, <1>7, <1>9 DEF N

\* After m turns of the loop, or its end.
Turn(map, s, m) == \E i \in Nat : ScanAt(map, s, i) /\ (i = m \/ s.addr > HEAP_TOP)

(***************************************************************************)
(* It comes to the end of the memory.                                      *)
(***************************************************************************)
LEMMA ScanEnds ==
  ASSUME NEW map \in HEAP_MAPS, NEW at, NEW N, N = 4 * HEAP_TOP, ScanIs(map, at, N)
  PROVE  at[N].addr > HEAP_TOP /\ \E i \in Nat : ScanAt(map, at[N], i)
  <1>1. HEAP_TOP \in Nat /\ N \in Nat
    BY HeapAssumption
  <1>2. \A i \in 0..N : at[i] = IF i = 0 THEN ScanStart
                                ELSE IF at[i - 1].addr > HEAP_TOP THEN at[i - 1] ELSE ScanStep(map, at[i - 1])
    BY DEF ScanIs
  <1> DEFINE T == {m \in Nat : m <= N => Turn(map, at[m], m)}
  <1>3. 0 \in T
    <2>1. at[0] = ScanStart
      BY <1>1, <1>2
    <2>2. ScanPos(map, 1, 1, FALSE, NIL, <<>>, 0)
      <3>1. Scanned(map, 1, FALSE, NIL, <<>>)
        <4>1. map \in SUBSET Nat /\ 0 \notin map
          BY MapFacts
        <4>2. RunList(map, 1, <<>>)
          BY DEF RunList
        <4>3. \A w \in map : ~ (w < 1)
          BY <4>1
        <4>4. 1 - 1 \notin map
          BY <4>1
        <4> QED
          BY <4>2, <4>3, <4>4 DEF Scanned
      <3>2. NextWord(1, 1) = 1
        BY DEF NextWord
      <3>3. 0 <= 2 * NextWord(1, 1) - (IF 1 = 1 THEN 0 ELSE 1)
        BY <3>2
      <3>4. 1 \in Nat /\ 1 \in {1, FAST_SEARCH_INCREMENT} /\ FALSE \in BOOLEAN /\ NIL \in Nat
        BY DEF NIL
      <3> QED
        BY <3>1, <3>2, <3>3, <3>4 DEF ScanPos
    <2>3. ScanStart = ScanRecord(1, 1, FALSE, NIL, <<>>)
      BY DEF ScanStart, ScanRecord
    <2>4. ScanAt(map, at[0], 0)
      BY <2>1, <2>2, <2>3, RecordAt
    <2> QED
      BY <2>4 DEF Turn
  <1>4. ASSUME NEW m \in T
        PROVE  m + 1 \in T
    <2> SUFFICES ASSUME m + 1 <= N PROVE Turn(map, at[m + 1], m + 1)
      BY <1>4
    <2>1. m \in Nat /\ m <= N /\ m + 1 \in 0..N /\ m + 1 # 0 /\ m + 1 - 1 = m
      BY <1>1, <1>4
    <2>2. at[m + 1] = IF at[m].addr > HEAP_TOP THEN at[m] ELSE ScanStep(map, at[m])
      BY <1>2, <2>1
    <2>3. PICK i \in Nat : ScanAt(map, at[m], i) /\ (i = m \/ at[m].addr > HEAP_TOP)
      BY <1>4, <2>1 DEF Turn
    <2>4. CASE at[m].addr > HEAP_TOP
      BY <2>2, <2>3, <2>4 DEF Turn
    <2>5. CASE ~ (at[m].addr > HEAP_TOP)
      <3>1. at[m].addr \in Nat
        BY <2>3 DEF ScanAt, ScanPos
      <3>2. at[m].addr <= HEAP_TOP /\ i = m /\ at[m + 1] = ScanStep(map, at[m])
        BY <1>1, <2>2, <2>3, <2>5, <3>1
      <3>3. ScanAt(map, at[m + 1], m + 1)
        BY <2>3, <3>2, ScanKeeps
      <3> QED
        BY <2>1, <3>3 DEF Turn
    <2> QED
      BY <2>4, <2>5
  <1>5. Turn(map, at[N], N)
    <2> HIDE DEF T
    <2>1. T = Nat
      <3>1. T \in SUBSET Nat
        BY DEF T
      <3> QED
        BY <1>3, <1>4, <3>1, SetInduction
    <2> QED
      BY <1>1, <2>1 DEF T
  <1>6. PICK i \in Nat : ScanAt(map, at[N], i) /\ (i = N \/ at[N].addr > HEAP_TOP)
    BY <1>5 DEF Turn
  <1>7. at[N].addr > HEAP_TOP
    <2>1. PICK a, c : ScanPos(map, a, c, at[N].last, at[N].first, at[N].found, i) /\ a = at[N].addr
      BY <1>6 DEF ScanAt
    <2>2. PICK n : n = NextWord(a, c)
      OBVIOUS
    <2>3. a \in Nat /\ n \in Nat /\ n # 0 /\ n <= a /\ i <= 2 * n
      <3>1. /\ a \in Nat /\ c \in {1, FAST_SEARCH_INCREMENT}
            /\ FAST_SEARCH_INCREMENT \in Nat /\ FAST_SEARCH_INCREMENT >= 2
        BY <2>1, MapFacts DEF ScanPos
      <3>2. n \in Nat \ {0}
        BY <2>1, <2>2 DEF ScanPos, Scanned
      <3>3. n <= a
        BY <2>2, <3>1 DEF NextWord
      <3>4. i <= 2 * n - (IF c = 1 THEN 0 ELSE 1)
        BY <2>1, <2>2 DEF ScanPos
      <3> QED
        BY <3>1, <3>2, <3>3, <3>4
    <2>4. CASE i = N
      BY <1>1, <2>1, <2>3, <2>4
    <2> QED
      BY <1>6, <2>4
  <1> QED
    BY <1>6, <1>7

\* All memory is in the runs, but for the memory of the display.
AllFound(map, found) ==
  /\ \E n : RunList(map, n, found)
  /\ \A w \in map : InRun(found, w) \/ InVideo(map, w)

(***************************************************************************)
(* What the scan finds.                                                    *)
(***************************************************************************)
LEMMA ChunksFound ==
  ASSUME NEW map \in HEAP_MAPS
  PROVE  AllFound(map, Chunks(map))
  <1>1. PICK at : ScanIs(map, at, 4 * HEAP_TOP) /\ Chunks(map) = at[4 * HEAP_TOP].found
    BY ScanThere
  <1>2. PICK s : s = at[4 * HEAP_TOP]
    OBVIOUS
  <1>3. s.addr > HEAP_TOP /\ \E i \in Nat : ScanAt(map, s, i)
    BY <1>1, <1>2, ScanEnds
  <1>4. PICK a, c, n, last, first, found :
          /\ a = s.addr /\ c = s.increment /\ last = s.last /\ first = s.first /\ found = s.found
          /\ n = NextWord(a, c)
    OBVIOUS
  <1>5. /\ a \in Nat /\ c \in {1, FAST_SEARCH_INCREMENT} /\ last \in BOOLEAN
        /\ Scanned(map, n, last, first, found)
    BY <1>3, <1>4 DEF ScanAt, ScanPos
  <1>6. /\ map \in SUBSET Nat /\ \A w \in map : w + FAST_SEARCH_INCREMENT <= HEAP_TOP
        /\ FAST_SEARCH_INCREMENT \in Nat /\ FAST_SEARCH_INCREMENT >= 2 /\ HEAP_TOP \in Nat
    BY MapFacts
  <1>7. n \in Nat \ {0} /\ n - 1 + FAST_SEARCH_INCREMENT > HEAP_TOP
    <2>1. n \in Nat \ {0}
      BY <1>5 DEF Scanned
    <2>2. a > HEAP_TOP
      BY <1>3, <1>4
    <2>3. n >= a - FAST_SEARCH_INCREMENT + 1
      BY <1>4, <1>5, <1>6 DEF NextWord
    <2> QED
      BY <1>5, <1>6, <2>1, <2>2, <2>3
  <1>8. n - 1 \notin map
    BY <1>6, <1>7
  <1>9. RunList(map, n, found) /\ ~ last
    BY <1>5, <1>8 DEF Scanned
  <1>10. ASSUME NEW w \in map
         PROVE  InRun(found, w) \/ InVideo(map, w)
    <2>1. w < n
      <3>1. w \in Nat /\ w + FAST_SEARCH_INCREMENT <= HEAP_TOP
        BY <1>6
      <3> QED
        BY <1>6, <1>7, <3>1
    <2> QED
      BY <1>5, <1>9, <2>1 DEF Scanned
  <1> QED
    BY <1>1, <1>2, <1>4, <1>9, <1>10 DEF AllFound

Firsts(found) == {found[i][1] : i \in DOMAIN found}

\* The free list of the chunks found.
ListOf(found, f, h) ==
  /\ DOMAIN h = Firsts(found)
  /\ f = IF found = <<>> THEN NIL ELSE found[1][1]
  /\ \A k \in 1..Len(found) :
       h[found[k][1]] = [length |-> found[k][2] - (found[k][1] + 1),
                         next |-> IF k = Len(found) THEN NIL ELSE found[k + 1][1]]

(***************************************************************************)
(* The chunks found lie one behind the other, with a gap between them.     *)
(***************************************************************************)
LEMMA FoundInOrder ==
  ASSUME NEW map, NEW found, AllFound(map, found)
  PROVE  /\ Len(found) \in Nat /\ DOMAIN found = 1..Len(found) /\ (found = <<>> <=> Len(found) = 0)
         /\ \A k \in 1..Len(found) :
              /\ found[k][1] \in Nat /\ found[k][1] # 0
              /\ found[k][2] \in Nat /\ found[k][1] < found[k][2]
         /\ \A j, k \in 1..Len(found) : j < k => found[j][2] < found[k][1]
         /\ \A j, k \in 1..Len(found) : found[j][1] < found[k][1] => j < k
         /\ \A j, k \in 1..Len(found) : found[j][1] = found[k][1] => j = k
  <1>1. PICK n : RunList(map, n, found)
    BY DEF AllFound
  <1>2. found \in Seq(Nat \X Nat)
    BY <1>1 DEF RunList
  <1>3. Len(found) \in Nat /\ DOMAIN found = 1..Len(found) /\ (found = <<>> <=> Len(found) = 0)
    BY <1>2
  <1>4. \A k \in 1..Len(found) : /\ found[k][1] \in Nat /\ found[k][1] # 0
                                 /\ found[k][2] \in Nat /\ found[k][1] < found[k][2]
    BY <1>1 DEF RunList, Run, Start
  <1>5. \A j, k \in 1..Len(found) : j < k => found[j][2] < found[k][1]
    BY <1>1 DEF RunList
  <1>6. ASSUME NEW j \in 1..Len(found), NEW k \in 1..Len(found), j < k
        PROVE  found[j][1] < found[k][1]
    <2>1. found[j][1] \in Nat /\ found[j][2] \in Nat /\ found[k][1] \in Nat /\ found[j][1] < found[j][2]
      BY <1>4
    <2>2. found[j][2] < found[k][1]
      BY <1>5, <1>6
    <2> QED
      BY <2>1, <2>2
  <1>7. ASSUME NEW j \in 1..Len(found), NEW k \in 1..Len(found), found[j][1] < found[k][1]
        PROVE  j < k
    <2>1. found[j][1] \in Nat /\ found[k][1] \in Nat
      BY <1>4
    <2>2. ~ (k < j) /\ k # j
      BY <1>6, <1>7, <2>1
    <2> QED
      BY <1>3, <2>2
  <1>8. ASSUME NEW j \in 1..Len(found), NEW k \in 1..Len(found), found[j][1] = found[k][1]
        PROVE  j = k
    <2>1. found[j][1] \in Nat
      BY <1>4
    <2>2. ~ (k < j) /\ ~ (j < k)
      BY <1>6, <1>8, <2>1
    <2> QED
      BY <1>3, <2>2
  <1> QED
    BY <1>3, <1>4, <1>5, <1>7, <1>8

LEMMA BlockAt ==
  ASSUME NEW found, NEW f, NEW h, ListOf(found, f, h), NEW k \in 1..Len(found)
  PROVE  /\ h[found[k][1]].length = found[k][2] - (found[k][1] + 1)
         /\ h[found[k][1]].next = IF k = Len(found) THEN NIL ELSE found[k + 1][1]
  <1>1. PICK y : y = IF k = Len(found) THEN NIL ELSE found[k + 1][1]
    OBVIOUS
  <1>2. PICK n : n = found[k][2] - (found[k][1] + 1)
    OBVIOUS
  <1>3. h[found[k][1]] = [length |-> n, next |-> y]
    BY <1>1, <1>2 DEF ListOf
  <1> QED
    BY <1>1, <1>2, <1>3

(***************************************************************************)
(* So that the blocks of _kalloc_init are linked by address, and lie apart. *)
(***************************************************************************)
LEMMA ListLinked ==
  ASSUME NEW map, NEW found, AllFound(map, found), NEW f, NEW h, ListOf(found, f, h)
  PROVE  Linking(Firsts(found), f, h) /\ Layout(Firsts(found), h, {})
  <1> DEFINE N == Len(found)
             S == Firsts(found)
  <1>1. N \in Nat /\ DOMAIN found = 1..N /\ (found = <<>> <=> N = 0)
    BY FoundInOrder
  <1>2. \A k \in 1..N : /\ found[k][1] \in Nat /\ found[k][1] # 0
                        /\ found[k][2] \in Nat /\ found[k][1] < found[k][2]
    BY FoundInOrder
  <1>3. \A j, k \in 1..N : /\ j < k => found[j][2] < found[k][1]
                           /\ found[j][1] < found[k][1] => j < k
                           /\ found[j][1] = found[k][1] => j = k
    BY FoundInOrder
  <1>4. \A b \in S : \E k \in 1..N : b = found[k][1]
    BY <1>1 DEF Firsts
  <1>5. \A k \in 1..N : found[k][1] \in S
    BY <1>1 DEF Firsts
  <1>6. /\ DOMAIN h = S /\ f = IF found = <<>> THEN NIL ELSE found[1][1]
        /\ \A k \in 1..N : /\ h[found[k][1]].length = found[k][2] - (found[k][1] + 1)
                           /\ h[found[k][1]].next = IF k = N THEN NIL ELSE found[k + 1][1]
    <2>1. DOMAIN h = S /\ f = IF found = <<>> THEN NIL ELSE found[1][1]
      BY DEF ListOf
    <2>2. ASSUME NEW k \in 1..N
          PROVE  /\ h[found[k][1]].length = found[k][2] - (found[k][1] + 1)
                 /\ h[found[k][1]].next = IF k = N THEN NIL ELSE found[k + 1][1]
      BY BlockAt
    <2> QED
      BY <2>1, <2>2
  <1> HIDE DEF S, N
  <1>7. ASSUME NEW j \in 1..N, NEW k \in 1..N, j <= k
        PROVE  found[j][1] <= found[k][1]
    <2>1. CASE j = k
      BY <1>2, <2>1
    <2>2. CASE j # k
      <3>1. j < k
        BY <1>1, <1>7, <2>2
      <3>2. found[j][2] < found[k][1]
        BY <1>3, <3>1
      <3>3. found[j][1] \in Nat /\ found[j][2] \in Nat /\ found[k][1] \in Nat /\ found[j][1] < found[j][2]
        BY <1>2
      <3> QED
        BY <3>2, <3>3
    <2> QED
      BY <2>1, <2>2
  <1>8. After(S, 0, f)
    <2>1. CASE N = 0
      <3>1. S = {}
        BY <1>4, <2>1
      <3> QED
        BY <1>1, <1>6, <2>1, <3>1 DEF After
    <2>2. CASE N # 0
      <3>1. 1 \in 1..N /\ f = found[1][1]
        BY <1>1, <1>6, <2>2
      <3>2. f \in S /\ f \in Nat /\ f > 0 /\ f # 0
        BY <1>2, <1>5, <3>1
      <3>3. ASSUME NEW c \in S PROVE f <= c
        <4>1. PICK k \in 1..N : c = found[k][1]
          BY <1>4
        <4>2. 1 <= k
          BY <1>1
        <4> QED
          BY <1>7, <3>1, <4>1, <4>2
      <3> QED
        BY <3>2, <3>3 DEF After, NIL
    <2> QED
      BY <2>1, <2>2
  <1>9. ASSUME NEW b \in S PROVE After(S, b, h[b].next)
    <2>1. PICK k \in 1..N : b = found[k][1]
      BY <1>4
    <2>2. CASE k = N
      <3>1. h[b].next = NIL
        BY <1>6, <2>1, <2>2
      <3>2. ASSUME NEW c \in S, c > b PROVE FALSE
        <4>1. PICK j \in 1..N : c = found[j][1]
          BY <1>4
        <4>2. found[k][1] < found[j][1]
          BY <1>2, <2>1, <3>2, <4>1
        <4>3. k < j
          BY <1>3, <4>2
        <4> QED
          BY <1>1, <2>2, <4>3
      <3> QED
        BY <3>1, <3>2 DEF After
    <2>3. CASE k # N
      <3>1. k + 1 \in 1..N /\ k < k + 1
        BY <1>1, <2>3
      <3>2. h[b].next = found[k + 1][1]
        BY <1>6, <2>1, <2>3
      <3>3. found[k + 1][1] \in S /\ found[k + 1][1] \in Nat /\ found[k + 1][1] # NIL
        BY <1>2, <1>5, <3>1 DEF NIL
      <3>4. found[k + 1][1] > b
        <4>1. found[k][2] < found[k + 1][1]
          BY <1>3, <3>1
        <4>2. found[k][1] \in Nat /\ found[k][2] \in Nat /\ found[k][1] < found[k][2]
          BY <1>2
        <4> QED
          BY <2>1, <3>3, <4>1, <4>2
      <3>5. ASSUME NEW c \in S, c > b PROVE found[k + 1][1] <= c
        <4>1. PICK j \in 1..N : c = found[j][1]
          BY <1>4
        <4>2. found[k][1] < found[j][1]
          BY <1>2, <2>1, <3>5, <4>1
        <4>3. k < j
          BY <1>3, <4>2
        <4>4. k + 1 <= j
          BY <1>1, <4>3
        <4> QED
          BY <1>7, <3>1, <4>1, <4>4
      <3> QED
        BY <3>2, <3>3, <3>4, <3>5 DEF After
    <2> QED
      BY <2>2, <2>3
  <1>10. ASSUME NEW b \in S, NEW c \in S, b < c
         PROVE  b + h[b].length < c /\ b + 1 + h[b].length < c
    <2>1. PICK j \in 1..N : b = found[j][1]
      BY <1>4
    <2>2. PICK k \in 1..N : c = found[k][1]
      BY <1>4
    <2>3. j < k
      BY <1>3, <1>10, <2>1, <2>2
    <2>4. found[j][2] < found[k][1]
      BY <1>3, <2>3
    <2>5. h[b].length = found[j][2] - (found[j][1] + 1)
      BY <1>6, <2>1
    <2>6. found[j][1] \in Nat /\ found[j][2] \in Nat /\ found[k][1] \in Nat
      BY <1>2
    <2> QED
      BY <2>1, <2>2, <2>4, <2>5, <2>6
  <1>11. Linking(S, f, h)
    BY <1>8, <1>9 DEF Linking
  <1>12. Layout(S, h, {})
    BY <1>6, <1>10 DEF Layout
  <1> QED
    BY <1>11, <1>12 DEF S

(***************************************************************************)
(* And have the memory that there is, but for that of the display.         *)
(***************************************************************************)
LEMMA ListCovers ==
  ASSUME NEW map \in HEAP_MAPS, NEW found, AllFound(map, found), NEW f, NEW h, ListOf(found, f, h),
         NEW mem, mem = {w \in map : VIDEO_BASE_ADDR \in map =>
                                       w < VIDEO_BASE_ADDR \/ \E g \in VIDEO_BASE_ADDR..w : g \notin map}
  PROVE  Covers(h, mem)
  <1> DEFINE N == Len(found)
  <1>1. map \in SUBSET Nat /\ (VIDEO_BASE_ADDR \in map => VIDEO_BASE_ADDR - 1 \notin map)
    BY MapFacts, MapsAssumption
  <1>2. N \in Nat /\ DOMAIN found = 1..N
    BY FoundInOrder
  <1>3. \A k \in 1..N : /\ found[k][1] \in Nat /\ found[k][1] # 0
                        /\ found[k][2] \in Nat /\ found[k][1] < found[k][2]
    BY FoundInOrder
  <1>4. \A k \in 1..N : /\ Run(map, found[k])
                        /\ h[found[k][1]].length = found[k][2] - (found[k][1] + 1)
    <2>1. \A k \in 1..N : Run(map, found[k])
      BY DEF AllFound, RunList
    <2> QED
      BY <2>1, BlockAt
  <1>5. DOMAIN h = {found[k][1] : k \in 1..N}
    BY <1>2 DEF ListOf, Firsts
  <1> HIDE DEF N
  <1>6. ASSUME NEW w \in mem PROVE Within(h, w)
    <2>1. w \in map /\ w \in Nat
      BY <1>1
    <2>2. ~ InVideo(map, w)
      <3> SUFFICES ASSUME InVideo(map, w) PROVE FALSE
        OBVIOUS
      <3>1. VIDEO_BASE_ADDR \in map /\ VIDEO_BASE_ADDR <= w /\ \A g \in VIDEO_BASE_ADDR..w : g \in map
        BY DEF InVideo
      <3>2. w < VIDEO_BASE_ADDR
        BY <3>1
      <3> QED
        BY <1>1, <2>1, <3>1, <3>2
    <2>3. InRun(found, w)
      BY <2>1, <2>2 DEF AllFound
    <2>4. PICK k \in 1..N : found[k][1] <= w /\ w < found[k][2]
      BY <2>3 DEF InRun, N
    <2>5. found[k][1] \in Nat /\ found[k][2] \in Nat /\ found[k][1] \in DOMAIN h
      BY <1>3, <1>5
    <2>6. w <= found[k][1] + h[found[k][1]].length
      BY <1>4, <2>1, <2>4, <2>5
    <2> QED
      BY <2>4, <2>5, <2>6 DEF Within
  <1>7. ASSUME NEW w \in Nat, Within(h, w) PROVE w \in mem
    <2>1. PICK b \in DOMAIN h : b <= w /\ w <= b + h[b].length
      BY <1>7 DEF Within
    <2>2. PICK k \in 1..N : b = found[k][1]
      BY <1>5
    <2>3. found[k][1] \in Nat /\ found[k][1] # 0 /\ found[k][2] \in Nat
      BY <1>3
    <2>4. w \in b..(found[k][2] - 1) /\ b <= w
      BY <1>4, <2>1, <2>2, <2>3
    <2>5. /\ b - 1 \notin map /\ b # VIDEO_BASE_ADDR /\ b \in Nat
          /\ \A v \in b..(found[k][2] - 1) : v \in map
      BY <1>4, <2>2, <2>3 DEF Run, Start
    <2>6. ASSUME VIDEO_BASE_ADDR \in map, ~ (w < VIDEO_BASE_ADDR), \A g \in VIDEO_BASE_ADDR..w : g \in map
          PROVE  FALSE
      <3>1. VIDEO_BASE_ADDR \in Nat /\ VIDEO_BASE_ADDR - 1 \notin map
        BY <1>1, <2>6
      <3>2. CASE VIDEO_BASE_ADDR < b
        <4>1. b - 1 \in VIDEO_BASE_ADDR..w
          BY <2>4, <2>5, <3>1, <3>2
        <4> QED
          BY <2>5, <2>6, <4>1
      <3>3. CASE b < VIDEO_BASE_ADDR
        <4>1. VIDEO_BASE_ADDR - 1 \in b..(found[k][2] - 1)
          BY <2>3, <2>4, <2>5, <2>6, <3>1, <3>3
        <4> QED
          BY <2>5, <3>1, <4>1
      <3> QED
        BY <2>5, <3>1, <3>2, <3>3
    <2> QED
      BY <2>4, <2>5, <2>6
  <1>8. mem \in SUBSET Nat
    BY <1>1
  <1> QED
    BY <1>6, <1>7, <1>8 DEF Covers

\* The list of these chunks, of this memory.
Made(map, found) ==
  LET firsts == {found[i][1] : i \in DOMAIN found}
      at(b) == CHOOSE i \in DOMAIN found : found[i][1] = b
  IN  /\ freelist = IF found = <<>> THEN NIL ELSE found[1][1]
      /\ header = [b \in firsts |->
           [length |-> found[at(b)][2] - (b + 1),
            next |-> IF at(b) = Len(found) THEN NIL ELSE found[at(b) + 1][1]]]
      /\ used = [b \in {} |-> 0]
      /\ memory = {w \in map : VIDEO_BASE_ADDR \in map =>
                     w < VIDEO_BASE_ADDR \/ \E g \in VIDEO_BASE_ADDR..w : g \notin map}

(***************************************************************************)
(* _kalloc_init makes a sound list of all the memory there is.             *)
(***************************************************************************)
LEMMA HeapBegins == HeapInit => HeapInv
  <1> SUFFICES ASSUME HeapInit PROVE HeapInv
    OBVIOUS
  <1>0. PICK map \in HEAP_MAPS : Made(map, Chunks(map))
    BY DEF HeapInit, Made
  <1>1. PICK found : found = Chunks(map) /\ Made(map, found)
    BY <1>0
  <1> DEFINE N == Len(found)
             at(b) == CHOOSE i \in DOMAIN found : found[i][1] = b
  <1>2. AllFound(map, found)
    BY <1>1, ChunksFound
  <1>3. N \in Nat /\ DOMAIN found = 1..N
    BY <1>2, FoundInOrder
  <1>4. \A k \in 1..N : /\ found[k][1] \in Nat /\ found[k][1] # 0
                        /\ found[k][2] \in Nat /\ found[k][1] < found[k][2]
    BY <1>2, FoundInOrder
  <1>5. \A j, k \in 1..N : found[j][1] = found[k][1] => j = k
    BY <1>2, FoundInOrder
  <1>6. ASSUME NEW k \in 1..N PROVE at(found[k][1]) = k
    <2>1. k \in DOMAIN found
      BY <1>3
    <2>2. at(found[k][1]) \in DOMAIN found /\ found[at(found[k][1])][1] = found[k][1]
      BY <2>1
    <2> HIDE DEF at
    <2> QED
      BY <1>3, <1>5, <2>2
  <1>7. ListOf(found, freelist, header)
    <2>1. DOMAIN header = Firsts(found) /\ freelist = IF found = <<>> THEN NIL ELSE found[1][1]
      BY <1>1 DEF Firsts, Made
    <2>2. ASSUME NEW k \in 1..N
          PROVE  header[found[k][1]] = [length |-> found[k][2] - (found[k][1] + 1),
                                        next |-> IF k = N THEN NIL ELSE found[k + 1][1]]
      <3>1. found[k][1] \in {found[i][1] : i \in DOMAIN found}
        BY <1>3
      <3>2. header[found[k][1]] = [length |-> found[at(found[k][1])][2] - (found[k][1] + 1),
                                   next |-> IF at(found[k][1]) = N THEN NIL
                                            ELSE found[at(found[k][1]) + 1][1]]
        BY <1>1, <3>1 DEF Made
      <3> HIDE DEF at
      <3> QED
        BY <1>6, <3>2
    <2> QED
      BY <2>1, <2>2 DEF ListOf
  <1>8. DOMAIN used = {}
    BY <1>1 DEF Made
  <1>9. Blocks(Firsts(found), header, DOMAIN used)
    <2>1. DOMAIN header = Firsts(found)
      BY <1>7 DEF ListOf
    <2>2. \A b \in Firsts(found) : \E k \in 1..N : b = found[k][1]
      BY <1>3 DEF Firsts
    <2>3. Firsts(found) \in SUBSET (Nat \ {0})
      BY <1>4, <2>2
    <2>4. IsFiniteSet(Firsts(found))
      <3>1. IsFiniteSet(DOMAIN found)
        BY <1>3, FS_Interval
      <3>2. IsFiniteSet({found[i][1] : i \in DOMAIN found})
        <4> DEFINE g == [i \in DOMAIN found |-> found[i][1]]
        <4>1. g \in Surjection(DOMAIN found, Firsts(found))
          BY DEF Surjection, Firsts
        <4> QED
          BY <3>1, <4>1, FS_Surjection DEF Firsts
      <3> QED
        BY <3>2 DEF Firsts
    <2>5. ASSUME NEW b \in DOMAIN header PROVE header[b] \in [length : Nat, next : Nat]
      <3>1. PICK k \in 1..N : b = found[k][1]
        BY <2>1, <2>2
      <3>2. header[b] = [length |-> found[k][2] - (found[k][1] + 1),
                         next |-> IF k = N THEN NIL ELSE found[k + 1][1]]
        BY <1>7, <3>1 DEF ListOf
      <3>3. found[k][2] - (found[k][1] + 1) \in Nat
        BY <1>4
      <3>4. (IF k = N THEN NIL ELSE found[k + 1][1]) \in Nat
        <4> HIDE DEF N
        <4>1. k # N => k + 1 \in 1..N
          BY <1>3
        <4>2. k # N => found[k + 1][1] \in Nat
          BY <1>4, <4>1
        <4>3. NIL \in Nat
          BY DEF NIL
        <4> QED
          BY <4>2, <4>3
      <3> QED
        BY <3>2, <3>3, <3>4
    <2>6. header \in [DOMAIN header -> [length : Nat, next : Nat]]
      <3>1. header = [b \in DOMAIN header |-> header[b]]
        BY <1>1 DEF Made
      <3> QED
        BY <2>5, <3>1
    <2> QED
      BY <1>8, <2>1, <2>3, <2>4, <2>6 DEF Blocks
  <1>10. Linking(Firsts(found), freelist, header) /\ Layout(Firsts(found), header, {})
    BY <1>2, <1>7, ListLinked
  <1>11. Covers(header, memory)
    <2>1. memory = {w \in map : VIDEO_BASE_ADDR \in map =>
                      w < VIDEO_BASE_ADDR \/ \E g \in VIDEO_BASE_ADDR..w : g \notin map}
      BY <1>1 DEF Made
    <2> QED
      BY <1>2, <1>7, <2>1, ListCovers
  <1>12. HeapShape(Firsts(found), freelist, header, DOMAIN used, memory, {})
    BY <1>9, <1>10, <1>11 DEF HeapShape
  <1> QED
    BY <1>8, <1>12 DEF HeapInv

HeapSpec == HeapInit /\ [][HeapNext]_heapVars

(***************************************************************************)
(* _kalloc_init finds all the memory, and from then on, whatever is asked  *)
(* for and given back, in any order, the blocks tile it: no word is in two *)
(* of them or lost, and no block is both free and handed out. For any      *)
(* memory that the search by strides can find, and any lengths.            *)
(***************************************************************************)
THEOREM MemoryTiled == HeapSpec => []HeapTiled
  BY HeapBegins, HeapStep, HeapMeans, PTL DEF HeapSpec

(***************************************************************************)
(* And the free list stays in the order of addresses, with neighbours      *)
(* merged, so that memory that was all given back is one block of each     *)
(* chunk again.                                                            *)
(***************************************************************************)
THEOREM NeighboursMerged == HeapSpec => []HeapMerged
  BY HeapBegins, HeapStep, HeapMeans, PTL DEF HeapSpec

-----------------------------------------------------------------------------
(* Memory that is never given back *)

KallocSpec == KallocInit /\ [][KallocNext]_kallocVars

\* The base is right behind what was handed out last.
KallocInv ==
  /\ granted[1] \in Nat /\ granted[2] \in Nat
  /\ kbase = granted[1] + granted[2]

(***************************************************************************)
(* The rounding of kalloc_aligned goes up to a multiple, and never down.   *)
(***************************************************************************)
LEMMA RoundsUp ==
  ASSUME NEW x \in Nat, NEW a \in Alignments
  PROVE  Aligned(x, a) \in Nat /\ Aligned(x, a) >= x /\ Aligned(x, a) % a = 0
  <1>1. CASE a = 1
    BY <1>1 DEF Aligned
  <1>2. CASE a = 2
    BY <1>2 DEF Aligned
  <1>4. CASE a = 4
    BY <1>4 DEF Aligned
  <1>8. CASE a = 8
    BY <1>8 DEF Aligned
  <1>16. CASE a = 16
    BY <1>16 DEF Aligned
  <1> QED
    BY <1>1, <1>2, <1>4, <1>8, <1>16 DEF Alignments

(***************************************************************************)
(* What kalloc and kalloc_aligned hand out, for any lengths in any order,  *)
(* is aligned as asked and overlaps nothing they handed out before: the    *)
(* base goes up only, and kfree takes nothing back.                        *)
(***************************************************************************)
THEOREM KallocApart == KallocSpec => KallocDisjoint
  <1> DEFINE Apart == /\ granted'[1] % granted'[3] = 0
                      /\ granted'[1] >= granted[1] + granted[2]
  <1>1. KallocInit => KallocInv
    BY HeapAssumption DEF KallocInit, KallocInv
  <1>2. ASSUME KallocInv, KallocNext \/ UNCHANGED kallocVars
        PROVE  KallocInv' /\ (Apart \/ UNCHANGED granted)
    <2>1. ASSUME NEW n \in HEAP_BYTES, NEW a \in Alignments, Kalloc(n, a)
          PROVE  KallocInv' /\ Apart
      <3> DEFINE s == Aligned(kbase, a)
      <3>1. n \in Nat /\ kbase \in Nat
        BY <1>2, HeapAssumption DEF KallocInv
      <3>2. s \in Nat /\ s >= kbase /\ s % a = 0
        BY <3>1, RoundsUp
      <3>3. kbase' = s + n /\ granted' = <<s, n, a>>
        BY <2>1 DEF Kalloc
      <3> HIDE DEF s
      <3> QED
        BY <1>2, <3>1, <3>2, <3>3 DEF KallocInv
    <2>2. CASE UNCHANGED kallocVars
      BY <1>2, <2>2 DEF KallocInv, kallocVars
    <2> QED
      BY <1>2, <2>1, <2>2 DEF KallocNext, KallocAtBound
  <1>3. KallocInv /\ [KallocNext]_kallocVars => KallocInv' /\ [Apart]_granted
    BY <1>2
  <1> QED
    BY <1>1, <1>3, PTL DEF KallocSpec, KallocDisjoint

-----------------------------------------------------------------------------
(* sio.c *)

(***************************************************************************)
(* The remainder of a number below twice the size of a buffer.             *)
(***************************************************************************)
LEMMA ModIs ==
  ASSUME NEW B \in Nat, B > 0, NEW x \in Nat
  PROVE  /\ x < B => x % B = x
         /\ x >= B /\ x < B + B => x % B = x - B
  <1>1. x < B => x % B = x
    OBVIOUS
  <1>2. x >= B /\ x < B + B => x % B = x - B
    OBVIOUS
  <1> QED
    BY <1>1, <1>2

CharsOrNone == SioBytes \cup {NoByte}

\* The i-th of the characters that wait to be sent.
OutCell(t, i) == t.buffer[(t.next + i - 1) % BUF_SIZE]

TxRecords ==
  [buffer : [Slots -> CharsOrNone], last : 0..BUF_SIZE, next : Slots, count : 0..BUF_SIZE,
   sending : BOOLEAN, ier : SUBSET {"RX", "TX"}, thr : CharsOrNone]

\* The pointers of the output buffer and its count agree; _outlast may be behind the end.
OutPointers(t) ==
  \/ t.next + t.count = t.last
  \/ t.next + t.count = t.last + BUF_SIZE
  \/ t.next = 0 /\ t.count = 0 /\ t.last = BUF_SIZE

TxInv(t) ==
  /\ t \in TxRecords /\ OutPointers(t)
  /\ \A i \in 1..t.count : OutCell(t, i) \in SioBytes
  /\ t.sending => "TX" \in t.ier
  /\ ~ t.sending => t.count = 0 /\ t.last = 0 /\ t.next = 0 /\ t.thr = NoByte

\* Only a pointer that is within the buffer is stored through.
Storable(t) == t.count < BUF_SIZE /\ t.last \in Slots

\* u is t with the characters b(1)..b(k) of w from the off-th behind appended.
Longer(t, u, w, off, k) ==
  /\ u \in TxRecords /\ OutPointers(u)
  /\ u.next = t.next /\ u.sending = t.sending /\ u.ier = t.ier /\ u.thr = t.thr
  /\ u.count = t.count + k
  /\ \A i \in 1..t.count : OutCell(u, i) = OutCell(t, i)
  /\ \A j \in 1..k : OutCell(u, t.count + j) = w[off + j]

(***************************************************************************)
(* What SerialAssumption says of the buffers and the characters.           *)
(***************************************************************************)
LEMMA SerialFacts ==
  /\ BUF_SIZE \in Nat /\ BUF_SIZE > 0 /\ NoByte \notin SioBytes /\ CR \in SioBytes /\ LF \in SioBytes
  /\ Slots \subseteq Nat /\ 0 \in Slots
  /\ \A w \in SIO_TEXTS : w \in Seq(SioBytes) /\ w # <<>>
  <1>1. BUF_SIZE \in Nat /\ BUF_SIZE > 0 /\ Slots \subseteq Nat /\ 0 \in Slots
    BY SerialAssumption DEF Slots
  <1>2. NoByte \notin SioBytes /\ CR \in SioBytes /\ LF \in SioBytes
    BY SerialAssumption DEF SioBytes, NoByte, CR, LF
  <1>3. \A w \in SIO_TEXTS : w \in Seq(SioBytes) /\ w # <<>>
    <2>1. TAKE w \in SIO_TEXTS
    <2>2. w \in Seq(SIO_CHARS) /\ w # <<>>
      BY SerialAssumption
    <2>3. SIO_CHARS \subseteq SioBytes
      BY DEF SioBytes
    <2> QED
      BY <2>2, <2>3
  <1> QED
    BY <1>1, <1>2, <1>3

(***************************************************************************)
(* Where _outlast is within the buffer, it is the slot behind the last     *)
(* character that waits, and not one of theirs.                            *)
(***************************************************************************)
LEMMA NextSlot ==
  ASSUME NEW t \in TxRecords, OutPointers(t), Storable(t)
  PROVE  /\ (t.next + (t.count + 1) - 1) % BUF_SIZE = t.last
         /\ \A i \in 1..t.count : (t.next + i - 1) % BUF_SIZE \in Slots \ {t.last}
  <1>1. /\ BUF_SIZE \in Nat /\ BUF_SIZE > 0 /\ t.next \in 0..(BUF_SIZE - 1) /\ t.last \in 0..(BUF_SIZE - 1)
        /\ t.count \in Nat /\ t.count < BUF_SIZE
        /\ (t.next + t.count = t.last \/ t.next + t.count = t.last + BUF_SIZE)
    BY SerialFacts DEF TxRecords, OutPointers, Storable, Slots
  <1> DEFINE n == t.next
             c == t.count
             l == t.last
  <1> HIDE DEF n, c, l
  <1>2. (n + (c + 1) - 1) % BUF_SIZE = l
    <2> DEFINE x == n + (c + 1) - 1
    <2>1. x \in Nat /\ (x = l \/ x = l + BUF_SIZE) /\ l \in Nat /\ l < BUF_SIZE
      BY <1>1 DEF n, c, l
    <2> HIDE DEF x
    <2>2. (x < BUF_SIZE => x % BUF_SIZE = x)
            /\ (x >= BUF_SIZE /\ x < BUF_SIZE + BUF_SIZE => x % BUF_SIZE = x - BUF_SIZE)
      BY <1>1, <2>1, ModIs
    <2>3. x % BUF_SIZE = l
      BY <1>1, <2>1, <2>2
    <2> QED
      BY <2>3 DEF x
  <1>3. ASSUME NEW i \in 1..c
        PROVE  (n + i - 1) % BUF_SIZE \in Slots /\ (n + i - 1) % BUF_SIZE # l
    <2> DEFINE x == n + i - 1
    <2>1. x \in Nat /\ x < n + c /\ x >= n /\ x < BUF_SIZE + BUF_SIZE /\ x # l /\ x # l + BUF_SIZE
            /\ l \in Nat
      BY <1>1 DEF n, c, l
    <2> HIDE DEF x
    <2>2. (x < BUF_SIZE => x % BUF_SIZE = x)
            /\ (x >= BUF_SIZE /\ x < BUF_SIZE + BUF_SIZE => x % BUF_SIZE = x - BUF_SIZE)
      BY <1>1, <2>1, ModIs
    <2>3. x % BUF_SIZE \in Slots /\ x % BUF_SIZE # l
      BY <1>1, <2>1, <2>2 DEF Slots
    <2> QED
      BY <2>3 DEF x
  <1> QED
    BY <1>2, <1>3 DEF n, c, l

\* t with b stored through _outlast, which becomes l.
StoredAt(t, b, l) == [t EXCEPT !.buffer[t.last] = b, !.last = l, !.count = @ + 1]

(***************************************************************************)
(* A character is stored through _outlast: those that wait stay, and it is *)
(* behind them.                                                            *)
(***************************************************************************)
LEMMA StoreOne ==
  ASSUME NEW t \in TxRecords, OutPointers(t), Storable(t), NEW b \in SioBytes,
         NEW u, NEW l \in 0..BUF_SIZE, l = t.last + 1 \/ (l = 0 /\ t.last + 1 = BUF_SIZE),
         u = StoredAt(t, b, l)
  PROVE  /\ u \in TxRecords /\ OutPointers(u)
         /\ u.next = t.next /\ u.sending = t.sending /\ u.ier = t.ier /\ u.thr = t.thr
         /\ u.count = t.count + 1 /\ u.last = l
         /\ \A i \in 1..t.count : OutCell(u, i) = OutCell(t, i)
         /\ OutCell(u, t.count + 1) = b
  <1>1. /\ BUF_SIZE \in Nat /\ BUF_SIZE > 0 /\ t.next \in Slots /\ t.last \in Slots
        /\ t.count \in Nat /\ t.count < BUF_SIZE /\ t.buffer \in [Slots -> CharsOrNone]
    BY SerialFacts DEF TxRecords, Storable
  <1>2. /\ u.buffer = [t.buffer EXCEPT ![t.last] = b] /\ u.last = l /\ u.count = t.count + 1
        /\ u.next = t.next /\ u.sending = t.sending /\ u.ier = t.ier /\ u.thr = t.thr
    BY DEF TxRecords, StoredAt
  <1>3. u \in TxRecords
    <2>1. b \in CharsOrNone /\ t.count + 1 \in 0..BUF_SIZE
      BY <1>1 DEF CharsOrNone
    <2>2. [t.buffer EXCEPT ![t.last] = b] \in [Slots -> CharsOrNone]
      BY <1>1, <2>1
    <2> QED
      BY <2>1, <2>2 DEF TxRecords, StoredAt
  <1>4. OutPointers(u)
    <2>1. /\ t.next \in 0..(BUF_SIZE - 1) /\ t.last \in 0..(BUF_SIZE - 1)
          /\ (t.next + t.count = t.last \/ t.next + t.count = t.last + BUF_SIZE)
      BY <1>1 DEF OutPointers, Slots
    <2>2. t.next + (t.count + 1) = l \/ t.next + (t.count + 1) = l + BUF_SIZE
      BY <1>1, <2>1
    <2> QED
      BY <1>2, <2>2 DEF OutPointers
  <1>5. \A i \in 1..t.count : OutCell(u, i) = OutCell(t, i)
    BY <1>1, <1>2, NextSlot DEF OutCell
  <1>6. OutCell(u, t.count + 1) = b
    BY <1>1, <1>2, NextSlot DEF OutCell
  <1> QED
    BY <1>2, <1>3, <1>4, <1>5, <1>6

\* The bytes of a text that are not appended: the first, when it goes out at once.
Skipped(t) == IF t.sending THEN 0 ELSE 1

AppendOne(u, b) == [u EXCEPT !.buffer[u.last] = b, !.last = Wrapped(u.last), !.count = @ + 1]

\* The recursion of Appended as far as byte m.
AppendsTo(h, t, w, m) ==
  h = [n \in 0..m |-> IF n = 0 \/ (n = 1 /\ ~ t.sending) THEN t
                      ELSE IF h[n - 1].count < BUF_SIZE THEN AppendOne(h[n - 1], w[n]) ELSE h[n - 1]]

(***************************************************************************)
(* The function by which Appended counts through the text exists.          *)
(***************************************************************************)
LEMMA AppendsExist ==
  ASSUME NEW t, NEW w, NEW m \in Nat
  PROVE  \E h : AppendsTo(h, t, w, m)
  <1> DEFINE Step(u, n) == IF u.count < BUF_SIZE THEN AppendOne(u, w[n]) ELSE u
             Early(n) == n = 0 \/ (n = 1 /\ ~ t.sending)
             Is(h, k) == h = [n \in 0..k |-> IF Early(n) THEN t ELSE Step(h[n - 1], n)]
             T == {k \in Nat : \E h : Is(h, k)}
  <1>1. \A h, k : AppendsTo(h, t, w, k) <=> Is(h, k)
    BY DEF AppendsTo
  <1>2. Early(0)
    OBVIOUS
  <1> HIDE DEF Step, Early
  <1>3. 0 \in T
    <2> DEFINE f == [n \in 0..0 |-> t]
    <2>1. Is(f, 0)
      BY <1>2
    <2> QED
      BY <2>1
  <1>4. ASSUME NEW k \in T
        PROVE  k + 1 \in T
    <2>1. k \in Nat
      OBVIOUS
    <2>2. PICK h : Is(h, k)
      OBVIOUS
    <2>3. \A n \in 0..k : h[n] = IF Early(n) THEN t ELSE Step(h[n - 1], n)
      BY <2>2
    <2> DEFINE last == IF Early(k + 1) THEN t ELSE Step(h[k], k + 1)
               f == [n \in 0..(k + 1) |-> IF n = k + 1 THEN last ELSE h[n]]
    <2>4. \A n \in 0..(k + 1) : f[n] = IF Early(n) THEN t ELSE Step(f[n - 1], n)
      <3>1. TAKE n \in 0..(k + 1)
      <3>2. CASE n = k + 1
        <4>1. f[n] = last /\ f[n - 1] = h[k]
          BY <2>1, <3>2
        <4> QED
          BY <3>2, <4>1
      <3>3. CASE n = 0
        <4>1. f[n] = h[n] /\ n \in 0..k
          BY <2>1, <3>3
        <4> QED
          BY <1>2, <2>3, <3>3, <4>1
      <3>4. CASE n # 0 /\ n # k + 1
        <4>1. n \in 0..k /\ n - 1 \in 0..k /\ f[n] = h[n] /\ f[n - 1] = h[n - 1]
          BY <2>1, <3>4
        <4> QED
          BY <2>3, <4>1
      <3> QED
        BY <3>2, <3>3, <3>4
    <2> HIDE DEF last
    <2>5. Is(f, k + 1)
      BY <2>4
    <2> HIDE DEF f, Is
    <2> QED
      BY <2>1, <2>5
  <1>5. T = Nat
    <2>1. T \in SUBSET Nat
      OBVIOUS
    <2> HIDE DEF T
    <2> QED
      BY <1>3, <1>4, <2>1, SetInduction
  <1> QED
    BY <1>1, <1>5

(***************************************************************************)
(* Nothing is appended.                                                    *)
(***************************************************************************)
LEMMA NothingMore ==
  ASSUME NEW t, t \in TxRecords, OutPointers(t), NEW w, NEW off
  PROVE  Longer(t, t, w, off, 0)
  BY DEF Longer, TxRecords

(***************************************************************************)
(* The loop of _sio_writes appends one byte more, and leaves _outlast      *)
(* within the buffer.                                                      *)
(***************************************************************************)
LEMMA OneLonger ==
  ASSUME NEW t \in TxRecords, NEW u, NEW w, NEW off \in Nat, NEW k \in Nat, Longer(t, u, w, off, k),
         Storable(u), w[off + (k + 1)] \in SioBytes
  PROVE  /\ Longer(t, AppendOne(u, w[off + (k + 1)]), w, off, k + 1)
         /\ AppendOne(u, w[off + (k + 1)]).last \in Slots
  <1> DEFINE b == w[off + (k + 1)]
             l == Wrapped(u.last)
             v == AppendOne(u, b)
  <1>1. u \in TxRecords /\ OutPointers(u) /\ u.last \in Slots /\ u.count = t.count + k /\ t.count \in Nat
    BY DEF Longer, Storable, TxRecords
  <1>2. l \in Slots /\ l \in 0..BUF_SIZE /\ (l = u.last + 1 \/ (l = 0 /\ u.last + 1 = BUF_SIZE))
    BY <1>1, SerialFacts DEF Wrapped, Slots
  <1>3. v = StoredAt(u, b, l)
    BY DEF AppendOne, StoredAt
  <1> HIDE DEF b, l, v
  <1>4. /\ v \in TxRecords /\ OutPointers(v)
        /\ v.next = u.next /\ v.sending = u.sending /\ v.ier = u.ier /\ v.thr = u.thr
        /\ v.count = u.count + 1 /\ v.last = l
        /\ \A i \in 1..u.count : OutCell(v, i) = OutCell(u, i)
        /\ OutCell(v, u.count + 1) = b
    <2>1. b \in SioBytes
      BY DEF b
    <2> QED
      BY <1>1, <1>2, <1>3, <2>1, StoreOne
  <1>5. \A i \in 1..t.count : OutCell(v, i) = OutCell(t, i)
    <2>1. \A i \in 1..t.count : i \in 1..u.count
      BY <1>1
    <2> QED
      BY <1>4, <2>1 DEF Longer
  <1>6. \A j \in 1..(k + 1) : OutCell(v, t.count + j) = w[off + j]
    <2>1. TAKE j \in 1..(k + 1)
    <2>2. CASE j = k + 1
      <3>1. t.count + j = u.count + 1
        BY <1>1, <2>2
      <3> QED
        BY <1>4, <2>2, <3>1 DEF b
    <2>3. CASE j # k + 1
      <3>1. j \in 1..k /\ t.count + j \in 1..u.count
        BY <1>1, <2>3
      <3> QED
        BY <1>4, <3>1 DEF Longer
    <2> QED
      BY <2>2, <2>3
  <1>7. v.count = t.count + (k + 1)
    BY <1>1, <1>4
  <1>8. v.next = t.next /\ v.sending = t.sending /\ v.ier = t.ier /\ v.thr = t.thr
    BY <1>4 DEF Longer
  <1>9. Longer(t, v, w, off, k + 1)
    BY <1>4, <1>5, <1>6, <1>7, <1>8 DEF Longer
  <1> QED
    BY <1>2, <1>4, <1>9 DEF b, v

(***************************************************************************)
(* What the loop of _sio_writes appends is a stretch of the text, from its *)
(* first byte or, when that goes out at once, from its second.             *)
(***************************************************************************)
LEMMA AppendedFacts ==
  ASSUME NEW t \in TxRecords, OutPointers(t), t.count < BUF_SIZE => t.last \in Slots,
         NEW w \in Seq(SioBytes), w # <<>>
  PROVE  \E k \in Nat : Skipped(t) + k <= Len(w) /\ Longer(t, Appended(t, w), w, Skipped(t), k)
  <1> DEFINE N == Len(w)
             off == Skipped(t)
             At == CHOOSE h : AppendsTo(h, t, w, N)
             Seen(n) == IF n <= off THEN off ELSE n
             Right(n) == \E k \in Nat : /\ Longer(t, At[n], w, off, k) /\ off + k <= Seen(n)
                                        /\ At[n].count < BUF_SIZE => off + k = Seen(n) /\ At[n].last \in Slots
  <1>1. N \in Nat /\ N >= 1 /\ off \in {0, 1} /\ \A n \in 1..N : w[n] \in SioBytes
    BY DEF Skipped
  <1>2. Appended(t, w) = At[N]
    BY DEF Appended, AppendsTo, AppendOne
  <1>3. AppendsTo(At, t, w, N)
    <2>1. \E h : AppendsTo(h, t, w, N)
      BY <1>1, AppendsExist
    <2> QED
      BY <2>1, Zenon
  <1>4. \A n \in 0..N : At[n] = IF n <= off THEN t
                                ELSE IF At[n - 1].count < BUF_SIZE THEN AppendOne(At[n - 1], w[n]) ELSE At[n - 1]
    <2>1. \A n \in 0..N : n <= off <=> n = 0 \/ (n = 1 /\ ~ t.sending)
      BY <1>1 DEF Skipped
    <2>2. At = [n \in 0..N |-> IF n = 0 \/ (n = 1 /\ ~ t.sending) THEN t
                               ELSE IF At[n - 1].count < BUF_SIZE THEN AppendOne(At[n - 1], w[n]) ELSE At[n - 1]]
      BY <1>3 DEF AppendsTo
    <2> HIDE DEF At, off, N
    <2>3. \A n \in 0..N : At[n] = IF n = 0 \/ (n = 1 /\ ~ t.sending) THEN t
                               ELSE IF At[n - 1].count < BUF_SIZE THEN AppendOne(At[n - 1], w[n]) ELSE At[n - 1]
      BY <2>2
    <2> QED
      BY <2>1, <2>3
  <1> HIDE DEF At, off
  <1> DEFINE T == {n \in Nat : n \in 0..N => Right(n)}
  <1>5. \A n \in 0..N : n <= off => Right(n)
    <2>1. TAKE n \in 0..N
    <2>2. SUFFICES ASSUME n <= off
                   PROVE  Right(n)
      OBVIOUS
    <2>3. At[n] = t
      BY <1>4, <2>2
    <2>4. Longer(t, t, w, off, 0)
      BY NothingMore
    <2>5. off + 0 = Seen(n) /\ off + 0 <= Seen(n) /\ 0 \in Nat
      BY <1>1, <2>2
    <2>6. At[n].count < BUF_SIZE => At[n].last \in Slots
      BY <2>3
    <2> HIDE DEF Seen
    <2>7. Longer(t, At[n], w, off, 0)
      BY <2>3, <2>4
    <2> QED
      BY <2>5, <2>6, <2>7
  <1>6. ASSUME NEW n \in T
        PROVE  n + 1 \in T
    <2>1. SUFFICES ASSUME n + 1 \in 0..N, n + 1 > off
                   PROVE  Right(n + 1)
      BY <1>1, <1>5
    <2>2. n \in Nat /\ n \in 0..N /\ Right(n)
      BY <2>1
    <2>3. PICK k \in Nat : /\ Longer(t, At[n], w, off, k) /\ off + k <= Seen(n)
                           /\ At[n].count < BUF_SIZE => off + k = Seen(n) /\ At[n].last \in Slots
      BY <2>2
    <2>4. Seen(n) = n /\ Seen(n + 1) = n + 1
      BY <1>1, <2>1, <2>2
    <2>5. At[n + 1] = IF At[n].count < BUF_SIZE THEN AppendOne(At[n], w[n + 1]) ELSE At[n]
      <3>1. (n + 1) - 1 = n /\ ~ (n + 1 <= off)
        BY <1>1, <2>1, <2>2
      <3> QED
        BY <1>4, <2>1, <3>1
    <2> HIDE DEF Seen
    <2>6. CASE At[n].count < BUF_SIZE
      <3>1. off + (k + 1) = n + 1 /\ w[off + (k + 1)] \in SioBytes /\ Storable(At[n])
        BY <1>1, <2>1, <2>2, <2>3, <2>4, <2>6 DEF Storable
      <3>2. Longer(t, AppendOne(At[n], w[off + (k + 1)]), w, off, k + 1)
              /\ AppendOne(At[n], w[off + (k + 1)]).last \in Slots
        BY <1>1, <2>3, <3>1, OneLonger
      <3>3. At[n + 1] = AppendOne(At[n], w[off + (k + 1)])
        BY <2>5, <2>6, <3>1
      <3>4. k + 1 \in Nat
        OBVIOUS
      <3> QED
        BY <2>4, <3>1, <3>2, <3>3, <3>4
    <2>7. CASE ~ (At[n].count < BUF_SIZE)
      <3>1. At[n + 1] = At[n] /\ off + k <= n + 1
        BY <1>1, <2>2, <2>3, <2>4, <2>5, <2>7
      <3> QED
        BY <2>3, <2>4, <2>7, <3>1
    <2> QED
      BY <2>6, <2>7
  <1>7. T = Nat
    <2>1. T \in SUBSET Nat /\ 0 \in T
      BY <1>1, <1>5
    <2> HIDE DEF T
    <2> QED
      BY <1>6, <2>1, SetInduction
  <1>8. Right(N)
    <2>1. N \in T /\ N \in 0..N
      BY <1>1, <1>7
    <2> QED
      BY <2>1
  <1>9. Seen(N) = N
    BY <1>1
  <1> QED
    BY <1>2, <1>8, <1>9 DEF off

\* The character the UART has, and how many that is.
Holds(t) == IF t.thr = NoByte THEN <<>> ELSE <<t.thr>>
Held(t) == IF t.thr = NoByte THEN 0 ELSE 1

\* What waits to leave.
Out(t) == Holds(t) \o [i \in 1..t.count |-> t.buffer[(t.next + i - 1) % BUF_SIZE]]

\* u is s with the first n of w behind it.
Behind(s, u, w, n) ==
  /\ s \in Seq(SioBytes) /\ u \in Seq(SioBytes) /\ w \in Seq(SioBytes) /\ n \in 0..Len(w)
  /\ Len(u) = Len(s) + n
  /\ \A i \in 1..Len(s) : u[i] = s[i]
  /\ \A j \in 1..n : u[Len(s) + j] = w[j]

(***************************************************************************)
(* u is s with the first n of w appended.                                  *)
(***************************************************************************)
LEMMA Grown ==
  ASSUME NEW s, NEW u, NEW w, NEW n, Behind(s, u, w, n)
  PROVE  u = s \o SubSeq(w, 1, n)
  <1>1. s \in Seq(SioBytes) /\ u \in Seq(SioBytes) /\ w \in Seq(SioBytes) /\ n \in 0..Len(w)
          /\ Len(u) = Len(s) + n
        /\ Len(s) \in Nat /\ Len(w) \in Nat
    BY DEF Behind
  <1> DEFINE p == SubSeq(w, 1, n)
             v == s \o p
  <1>2. p \in Seq(SioBytes) /\ Len(p) = n /\ \A j \in 1..n : p[j] = w[j]
    <2>1. \A j \in 1..n : j \in 1..Len(w)
      BY <1>1
    <2>2. p = [j \in 1..n |-> w[j]]
      BY <1>1
    <2> QED
      BY <1>1, <2>1, <2>2
  <1> HIDE DEF p
  <1>3. v \in Seq(SioBytes) /\ Len(v) = Len(s) + n /\ (\A i \in 1..Len(s) : v[i] = s[i]) /\ \A j \in 1..n :
          v[Len(s) + j] = p[j]
    <2>1. v \in Seq(SioBytes) /\ Len(v) = Len(s) + n
      BY <1>1, <1>2
    <2>2. \A i \in 1..Len(s) : v[i] = s[i]
      BY <1>1, <1>2
    <2>3. \A j \in 1..n : v[Len(s) + j] = p[j]
      BY <1>1, <1>2
    <2> QED
      BY <2>1, <2>2, <2>3
  <1> HIDE DEF v
  <1>4. \A i \in 1..Len(u) : u[i] = v[i]
    <2>1. TAKE i \in 1..Len(u)
    <2>2. CASE i <= Len(s)
      BY <1>1, <1>3, <2>2 DEF Behind
    <2>3. CASE i > Len(s)
      <3> DEFINE j == i - Len(s)
      <3>1. j \in 1..n /\ i = Len(s) + j
        BY <1>1, <2>3
      <3> HIDE DEF j
      <3> QED
        BY <1>2, <1>3, <3>1 DEF Behind
    <2> QED
      BY <1>1, <2>2, <2>3
  <1>5. u = v
    BY <1>1, <1>3, <1>4, SameSeq
  <1> QED
    BY <1>5 DEF v, p

(***************************************************************************)
(* What waits to leave: the character of the UART, if it has one, and the  *)
(* cells from _outnext on.                                                 *)
(***************************************************************************)
LEMMA OutFacts ==
  ASSUME NEW t, TxInv(t)
  PROVE  /\ Out(t) \in Seq(SioBytes) /\ Held(t) \in {0, 1} /\ t.count \in Nat
         /\ Len(Out(t)) = Held(t) + t.count
         /\ Held(t) = 1 => t.thr # NoByte /\ Out(t)[1] = t.thr
         /\ Held(t) = 0 => t.thr = NoByte
         /\ \A i \in 1..t.count : Out(t)[Held(t) + i] = OutCell(t, i)
  <1> DEFINE cells == [i \in 1..t.count |-> t.buffer[(t.next + i - 1) % BUF_SIZE]]
             h == Holds(t)
  <1>1. t.count \in Nat /\ \A i \in 1..t.count : OutCell(t, i) \in SioBytes
    BY SerialFacts DEF TxInv, TxRecords
  <1>2. cells \in Seq(SioBytes) /\ Len(cells) = t.count /\ \A i \in 1..t.count : cells[i] = OutCell(t, i)
    <2>1. cells = [i \in 1..t.count |-> OutCell(t, i)]
      BY DEF OutCell
    <2> HIDE DEF cells
    <2> QED
      BY <1>1, <2>1
  <1>3. h \in Seq(SioBytes) /\ Len(h) = Held(t) /\ Held(t) \in {0, 1}
          /\ (Held(t) = 1 => t.thr # NoByte /\ h[1] = t.thr)
        /\ (Held(t) = 0 => t.thr = NoByte)
    <2>1. CASE t.thr = NoByte
      BY <2>1 DEF Holds, Held
    <2>2. CASE t.thr # NoByte
      <3>1. t.thr \in SioBytes
        BY <2>2 DEF TxInv, TxRecords, CharsOrNone
      <3> QED
        BY <2>2, <3>1 DEF Holds, Held
    <2> QED
      BY <2>1, <2>2
  <1>4. Out(t) = h \o cells
    BY DEF Out
  <1> HIDE DEF cells, h
  <1> DEFINE v == h \o cells
  <1>5. v \in Seq(SioBytes) /\ Len(v) = Len(h) + Len(cells) /\ (\A i \in 1..Len(h) : v[i] = h[i])
          /\ \A i \in 1..Len(cells) : v[Len(h) + i] = cells[i]
    BY <1>2, <1>3
  <1> HIDE DEF v
  <1>6. Out(t) = v
    BY <1>4 DEF v
  <1>7. Held(t) = 1 => v[1] = t.thr
    BY <1>3, <1>5
  <1>8. \A i \in 1..t.count : v[Held(t) + i] = OutCell(t, i)
    BY <1>2, <1>3, <1>5
  <1>9. Len(v) = Held(t) + t.count
    BY <1>2, <1>3, <1>5
  <1> QED
    BY <1>1, <1>3, <1>5, <1>6, <1>7, <1>8, <1>9

(***************************************************************************)
(* With nothing in the UART, the cells are what waits.                     *)
(***************************************************************************)
LEMMA NoneHeld ==
  ASSUME NEW t, TxInv(t), t.thr = NoByte
  PROVE  Out(t) \in Seq(SioBytes) /\ Len(Out(t)) = t.count /\ \A i \in 1..t.count : Out(t)[i] = OutCell(t, i)
  <1>1. Held(t) = 0
    BY DEF Held
  <1>2. t.count \in Nat /\ Out(t) \in Seq(SioBytes) /\ Len(Out(t)) = Held(t) + t.count
        /\ \A i \in 1..t.count : Out(t)[Held(t) + i] = OutCell(t, i)
    BY OutFacts
  <1>3. \A i \in 1..t.count : Held(t) + i = i
    BY <1>1
  <1> QED
    BY <1>1, <1>2, <1>3

(***************************************************************************)
(* With a character in the UART, the cells wait behind it.                 *)
(***************************************************************************)
LEMMA OneHeld ==
  ASSUME NEW t, TxInv(t), t.thr # NoByte
  PROVE  Out(t) \in Seq(SioBytes) /\ Len(Out(t)) = 1 + t.count /\ Out(t)[1] = t.thr
         /\ \A i \in 1..t.count : Out(t)[1 + i] = OutCell(t, i)
  <1>1. Held(t) = 1
    BY DEF Held
  <1> QED
    BY <1>1, OutFacts

(***************************************************************************)
(* Where cells are appended, what waits to leave grows by them.            *)
(***************************************************************************)
LEMMA LongerOut ==
  ASSUME NEW t, TxInv(t), NEW u, TxInv(u), NEW w \in Seq(SioBytes), NEW k \in Nat, k <= Len(w),
         Longer(t, u, w, 0, k)
  PROVE  Behind(Out(t), Out(u), w, k)
  <1>1. u.thr = t.thr /\ u.count = t.count + k /\ (\A i \in 1..t.count : OutCell(u, i) = OutCell(t, i))
        /\ \A j \in 1..k : OutCell(u, t.count + j) = w[0 + j]
    BY DEF Longer
  <1>2. Held(u) = Held(t)
    BY <1>1 DEF Held
  <1> DEFINE s == Out(t)
             v == Out(u)
             h == Held(t)
             c == t.count
  <1>3. /\ s \in Seq(SioBytes) /\ v \in Seq(SioBytes) /\ h \in {0, 1} /\ c \in Nat
        /\ Len(s) = h + c /\ Len(v) = h + (c + k)
        /\ h = 1 => s[1] = t.thr /\ v[1] = t.thr
        /\ \A i \in 1..c : s[h + i] = OutCell(t, i)
        /\ \A i \in 1..(c + k) : v[h + i] = OutCell(u, i)
    BY <1>1, <1>2, OutFacts
  <1> HIDE DEF s, v, h, c
  <1>4. \A i \in 1..Len(s) : v[i] = s[i]
    <2>1. TAKE i \in 1..Len(s)
    <2>2. CASE i <= h
      BY <1>3, <2>2
    <2>3. CASE i > h
      <3> DEFINE j == i - h
      <3>1. j \in 1..c /\ j \in 1..(c + k) /\ i = h + j
        BY <1>3, <2>3
      <3> HIDE DEF j
      <3> QED
        BY <1>1, <1>3, <3>1 DEF c
    <2> QED
      BY <1>3, <2>2, <2>3
  <1>5. \A j \in 1..k : v[Len(s) + j] = w[j]
    <2>1. TAKE j \in 1..k
    <2>2. c + j \in 1..(c + k) /\ Len(s) + j = h + (c + j) /\ 0 + j = j
      BY <1>3
    <2>3. v[h + (c + j)] = OutCell(u, c + j)
      BY <1>3, <2>2
    <2>4. OutCell(u, c + j) = w[j]
      BY <1>1, <2>2 DEF c
    <2> QED
      BY <2>2, <2>3, <2>4
  <1>6. k \in 0..Len(w)
    OBVIOUS
  <1> QED
    BY <1>3, <1>4, <1>5, <1>6 DEF Behind, s, v

(***************************************************************************)
(* Cells are appended while `_sending' is on: the output buffer stays      *)
(* sound.                                                                  *)
(***************************************************************************)
LEMMA LongerInv ==
  ASSUME NEW t, TxInv(t), NEW u, NEW w, NEW off \in Nat, NEW k \in Nat, Longer(t, u, w, off, k),
         t.sending, \A j \in 1..k : w[off + j] \in SioBytes
  PROVE  TxInv(u)
  <1>1. t.count \in Nat
    BY SerialFacts DEF TxInv, TxRecords
  <1>2. \A i \in 1..u.count : OutCell(u, i) \in SioBytes
    <2>1. TAKE i \in 1..u.count
    <2>2. CASE i <= t.count
      <3>1. i \in 1..t.count
        BY <1>1, <2>2
      <3> QED
        BY <3>1 DEF Longer, TxInv
    <2>3. CASE i > t.count
      <3> DEFINE j == i - t.count
      <3>1. j \in 1..k /\ i = t.count + j
        BY <1>1, <2>3 DEF Longer
      <3> HIDE DEF j
      <3> QED
        BY <3>1 DEF Longer
    <2> QED
      BY <1>1, <2>2, <2>3
  <1> QED
    BY <1>2 DEF Longer, TxInv

(***************************************************************************)
(* _sio_writec, one byte that fits: it is the last of what waits.          *)
(***************************************************************************)
LEMMA PutByteFacts ==
  ASSUME NEW t, TxInv(t), Fits(t), NEW b \in SioBytes
  PROVE  TxInv(PutByte(t, b)) /\ Behind(Out(t), Out(PutByte(t, b)), <<b>>, 1)
  <1> DEFINE w == <<b>>
  <1>1. w \in Seq(SioBytes) /\ Len(w) = 1 /\ w[0 + 1] = b /\ w[1] = b
    OBVIOUS
  <1>2. t \in TxRecords /\ OutPointers(t)
    BY DEF TxInv
  <1>3. CASE t.sending
    <2> DEFINE u == Queued(t, b)
    <2>1. Storable(t) /\ t.last + 1 \in 0..BUF_SIZE
      BY <1>2, <1>3, SerialFacts DEF Fits, Storable, Slots
    <2>2. u = StoredAt(t, b, t.last + 1)
      BY <1>2 DEF Queued, StoredAt, TxRecords
    <2> HIDE DEF u
    <2>3. /\ u \in TxRecords /\ OutPointers(u)
          /\ u.next = t.next /\ u.sending = t.sending /\ u.ier = t.ier /\ u.thr = t.thr
          /\ u.count = t.count + 1 /\ u.last = t.last + 1
          /\ \A i \in 1..t.count : OutCell(u, i) = OutCell(t, i)
          /\ OutCell(u, t.count + 1) = b
      BY <1>2, <2>1, <2>2, StoreOne
    <2> HIDE DEF w
    <2>4. \A j \in 1..1 : OutCell(u, t.count + j) = w[0 + j]
      BY <1>1, <2>3
    <2>5. Longer(t, u, w, 0, 1)
      BY <2>3, <2>4 DEF Longer
    <2>6. TxInv(u)
      <3>1. \A j \in 1..1 : w[0 + j] \in SioBytes
        BY <1>1
      <3> QED
        BY <1>3, <2>5, <3>1, LongerInv
    <2>7. Behind(Out(t), Out(u), w, 1)
      BY <1>1, <2>5, <2>6, LongerOut
    <2>8. PutByte(t, b) = u
      BY <1>3 DEF PutByte, u
    <2> QED
      BY <2>6, <2>7, <2>8 DEF w
  <1>4. CASE ~ t.sending
    <2> DEFINE u == Prime(t, b)
    <2>1. t.count = 0 /\ t.last = 0 /\ t.next = 0 /\ t.thr = NoByte
      BY <1>4 DEF TxInv
    <2>2. /\ u \in TxRecords /\ u.count = 0 /\ u.last = 0 /\ u.next = 0 /\ u.thr = b /\ u.sending = TRUE
               /\ "TX" \in u.ier
      BY <1>2, <2>1 DEF TxRecords, CharsOrNone, Prime, Enable
    <2> HIDE DEF u
    <2>3. TxInv(u)
      BY <2>2 DEF TxInv, OutPointers
    <2>4. u.thr # NoByte
      BY <2>2, SerialFacts
    <2> DEFINE s == Out(t)
               v == Out(u)
    <2>5. s \in Seq(SioBytes) /\ Len(s) = 0
      BY <2>1, NoneHeld
    <2>6. v \in Seq(SioBytes) /\ Len(v) = 1 /\ v[1] = b
      <3>1. v \in Seq(SioBytes) /\ Len(v) = 1 + u.count /\ v[1] = u.thr
        BY <2>3, <2>4, OneHeld
      <3> QED
        BY <2>2, <3>1
    <2> HIDE DEF s, v, w
    <2>7. Behind(s, v, w, 1)
      BY <1>1, <2>5, <2>6 DEF Behind
    <2>8. PutByte(t, b) = u
      BY <1>4 DEF PutByte, u
    <2> QED
      BY <2>3, <2>7, <2>8 DEF s, v, w
  <1> QED
    BY <1>3, <1>4

\* The first of the waiting characters goes to the UART.
Sent(t) == [t EXCEPT !.thr = t.buffer[t.next], !.next = Wrapped(t.next), !.count = @ - 1]

(***************************************************************************)
(* _isr_sio, TX event: the first cell goes to the UART, and nothing that   *)
(* waits is lost or overtaken.                                             *)
(***************************************************************************)
LEMMA SentFacts ==
  ASSUME NEW t, TxInv(t), t.thr = NoByte, t.sending, t.count > 0, NEW u, u = Sent(t)
  PROVE  TxInv(u) /\ Out(u) = Out(t)
  <1>1. /\ BUF_SIZE \in Nat /\ BUF_SIZE > 0 /\ t.next \in 0..(BUF_SIZE - 1) /\ t.last \in 0..BUF_SIZE
        /\ t.count \in Nat /\ t.count <= BUF_SIZE
        /\ t \in TxRecords /\ t.buffer \in [Slots -> CharsOrNone]
    BY SerialFacts DEF TxInv, TxRecords, Slots
  <1>2. /\ u.buffer = t.buffer /\ u.last = t.last /\ u.count = t.count - 1 /\ u.next = Wrapped(t.next)
        /\ u.sending = t.sending /\ u.ier = t.ier /\ u.thr = t.buffer[t.next]
    BY <1>1 DEF TxRecords, Sent
  <1> DEFINE n == t.next
             m == Wrapped(t.next)
             c == t.count
             l == t.last
             B == BUF_SIZE
  <1>3. m \in 0..(B - 1) /\ (m = n + 1 \/ (m = 0 /\ n = B - 1))
    BY <1>1 DEF Wrapped
  <1> HIDE DEF n, m, c, l, B
  <1>4. \A i \in 1..(c - 1) : (m + i - 1) % B = (n + (i + 1) - 1) % B
    <2>1. TAKE i \in 1..(c - 1)
    <2>2. CASE m = n + 1
      <3>1. m + i - 1 = n + (i + 1) - 1
        BY <1>1, <2>2 DEF n, c
      <3> QED
        BY <3>1
    <2>3. CASE m = 0 /\ n = B - 1
      <3> DEFINE x == m + i - 1
                 y == n + (i + 1) - 1
      <3>1. x \in Nat /\ x < B /\ y = x + B /\ y \in Nat /\ y < B + B /\ y >= B
        BY <1>1, <2>3 DEF c, B
      <3> HIDE DEF x, y
      <3>2. x % B = x /\ y % B = y - B
        BY <1>1, <3>1, ModIs DEF B
      <3>3. x % B = y % B
        BY <1>1, <3>1, <3>2 DEF B
      <3> QED
        BY <3>3 DEF x, y
    <2> QED
      BY <1>3, <2>2, <2>3
  <1>5. \A i \in 1..(c - 1) : OutCell(u, i) = OutCell(t, i + 1)
    BY <1>2, <1>4 DEF OutCell, n, m, B
  <1>6. OutCell(t, 1) = t.buffer[t.next]
    <2> DEFINE x == t.next + 1 - 1
    <2>1. x = t.next /\ x \in Nat /\ x < BUF_SIZE
      BY <1>1
    <2> HIDE DEF x
    <2>2. x % BUF_SIZE = x
      BY <1>1, <2>1, ModIs
    <2> QED
      BY <2>1, <2>2 DEF OutCell, x
  <1>7. 1 \in 1..c /\ u.thr = OutCell(t, 1) /\ u.thr \in SioBytes
    <2>1. 1 \in 1..t.count
      BY <1>1
    <2>2. OutCell(t, 1) \in SioBytes
      BY <2>1 DEF TxInv
    <2> QED
      BY <1>2, <1>6, <2>1, <2>2 DEF c
  <1>8. u \in TxRecords
    <2>1. t.count - 1 \in 0..BUF_SIZE /\ Wrapped(t.next) \in Slots
      BY <1>1, <1>3 DEF m, B, Slots
    <2>2. t.buffer[t.next] \in CharsOrNone
      BY <1>2, <1>7 DEF CharsOrNone
    <2> QED
      BY <1>1, <2>1, <2>2 DEF TxRecords, Sent
  <1>9. OutPointers(u)
    <2>1. (n + c = l \/ n + c = l + B) /\ l \in 0..B /\ c \in Nat /\ c > 0 /\ n \in Nat /\ B \in Nat
      BY <1>1 DEF TxInv, OutPointers, n, c, l, B
    <2>2. m + (c - 1) = l \/ m + (c - 1) = l + B \/ (m = 0 /\ c - 1 = 0 /\ l = B)
      BY <1>3, <2>1
    <2> QED
      BY <1>2, <2>2 DEF OutPointers, m, c, l, B
  <1>10. \A i \in 1..u.count : OutCell(u, i) \in SioBytes
    <2>1. TAKE i \in 1..u.count
    <2>2. i \in 1..(c - 1) /\ i + 1 \in 1..t.count
      BY <1>1, <1>2 DEF c
    <2> QED
      BY <1>5, <2>2 DEF TxInv
  <1>11. TxInv(u)
    BY <1>2, <1>8, <1>9, <1>10 DEF TxInv
  <1> DEFINE s == Out(t)
             v == Out(u)
  <1>12. u.thr # NoByte
    BY <1>7, SerialFacts
  <1>13. s \in Seq(SioBytes) /\ Len(s) = c /\ \A i \in 1..c : s[i] = OutCell(t, i)
    BY NoneHeld DEF c
  <1>14. v \in Seq(SioBytes) /\ Len(v) = 1 + (c - 1) /\ v[1] = OutCell(t, 1) /\ \A i \in 1..(c - 1) :
           v[1 + i] = OutCell(t, i + 1)
    <2>1. v \in Seq(SioBytes) /\ Len(v) = 1 + u.count /\ v[1] = u.thr /\ \A i \in 1..u.count :
            v[1 + i] = OutCell(u, i)
      BY <1>11, <1>12, OneHeld
    <2> HIDE DEF v
    <2> QED
      BY <1>2, <1>5, <1>7, <2>1 DEF c
  <1> HIDE DEF s, v
  <1>15. \A i \in 1..Len(v) : v[i] = s[i]
    <2>1. TAKE i \in 1..Len(v)
    <2>2. CASE i = 1
      BY <1>7, <1>13, <1>14, <2>2
    <2>3. CASE i # 1
      <3> DEFINE j == i - 1
      <3>1. j \in 1..(c - 1) /\ 1 + j = i /\ j + 1 = i /\ i \in 1..c
        BY <1>1, <1>14, <2>3 DEF c
      <3> HIDE DEF j
      <3> QED
        BY <1>13, <1>14, <3>1
    <2> QED
      BY <2>2, <2>3
  <1>16. v = s
    <2>1. Len(v) = Len(s)
      BY <1>1, <1>13, <1>14 DEF c
    <2> QED
      BY <1>13, <1>14, <1>15, <2>1, SameSeq
  <1> QED
    BY <1>11, <1>16 DEF s, v

(***************************************************************************)
(* The UART is done with a character, which was the first of those that    *)
(* wait.                                                                   *)
(***************************************************************************)
LEMMA LeavesFacts ==
  ASSUME NEW t, TxInv(t), t.thr # NoByte, NEW u, u = [t EXCEPT !.thr = NoByte]
  PROVE  TxInv(u) /\ Out(t) # <<>> /\ Head(Out(t)) = t.thr /\ Tail(Out(t)) = Out(u)
  <1>1. t \in TxRecords
    BY DEF TxInv
  <1>2. /\ u.buffer = t.buffer /\ u.last = t.last /\ u.count = t.count /\ u.next = t.next
        /\ u.sending = t.sending /\ u.ier = t.ier /\ u.thr = NoByte /\ u \in TxRecords
    BY <1>1 DEF TxRecords, CharsOrNone
  <1>3. TxInv(u) /\ \A i \in 1..t.count : OutCell(u, i) = OutCell(t, i)
    BY <1>2 DEF TxInv, OutPointers, OutCell
  <1>4. t.count \in Nat
    BY <1>1, SerialFacts DEF TxRecords
  <1> DEFINE s == Out(t)
             v == Out(u)
             c == t.count
             r == Tail(s)
  <1>5. c \in Nat /\ s \in Seq(SioBytes) /\ Len(s) = 1 + c /\ s[1] = t.thr /\ \A i \in 1..c :
          s[1 + i] = OutCell(t, i)
    BY <1>4, OneHeld
  <1>6. v \in Seq(SioBytes) /\ Len(v) = c /\ \A i \in 1..c : v[i] = OutCell(t, i)
    <2>1. v \in Seq(SioBytes) /\ Len(v) = u.count /\ \A i \in 1..u.count : v[i] = OutCell(u, i)
      BY <1>2, <1>3, NoneHeld
    <2> HIDE DEF v
    <2> QED
      BY <1>2, <1>3, <2>1
  <1> HIDE DEF s, v, c
  <1>7. s # <<>> /\ Head(s) = s[1] /\ r \in Seq(SioBytes) /\ Len(r) = c /\ \A i \in 1..c : r[i] = s[1 + i]
    BY <1>5
  <1> HIDE DEF r
  <1>8. r = v
    <2>1. \A i \in 1..Len(r) : r[i] = v[i]
      BY <1>5, <1>6, <1>7
    <2> QED
      BY <1>6, <1>7, <2>1, SameSeq
  <1> QED
    BY <1>3, <1>5, <1>7, <1>8 DEF s, v, r

Reset(t) == Disable([t EXCEPT !.count = 0, !.last = 0, !.next = 0, !.sending = FALSE], "TX")

(***************************************************************************)
(* _isr_sio, TX event, nothing waits: the output variables are reset.      *)
(***************************************************************************)
LEMMA ResetFacts ==
  ASSUME NEW t, TxInv(t), t.thr = NoByte, ~ (t.sending /\ t.count > 0), NEW u, u = Reset(t)
  PROVE  TxInv(u) /\ Out(u) = Out(t)
  <1>1. t \in TxRecords /\ t.count = 0
    BY SerialFacts DEF TxInv, TxRecords
  <1>2. /\ u.count = 0 /\ u.last = 0 /\ u.next = 0 /\ u.sending = FALSE /\ u.thr = NoByte /\ u \in TxRecords
    BY <1>1, SerialFacts DEF TxRecords, Reset, Disable
  <1>3. TxInv(u)
    BY <1>2 DEF TxInv, OutPointers
  <1> DEFINE s == Out(t)
             v == Out(u)
  <1>4. s \in Seq(SioBytes) /\ Len(s) = 0 /\ v \in Seq(SioBytes) /\ Len(v) = 0
    <2>1. s \in Seq(SioBytes) /\ Len(s) = 0
      BY <1>1, NoneHeld
    <2>2. v \in Seq(SioBytes) /\ Len(v) = 0
      BY <1>2, <1>3, NoneHeld
    <2> QED
      BY <2>1, <2>2
  <1> HIDE DEF s, v
  <1>5. s = v
    BY <1>4
  <1> QED
    BY <1>3, <1>5 DEF s, v

(***************************************************************************)
(* _sio_writes: what waits to leave grows by the first k bytes of the      *)
(* text.                                                                   *)
(***************************************************************************)
LEMMA WritesFacts ==
  ASSUME NEW t, TxInv(t), NEW w \in Seq(SioBytes), w # <<>>,
         ~ (t.sending /\ t.count < BUF_SIZE /\ t.last \notin Slots),
         NEW u, u = IF t.sending THEN Appended(t, w) ELSE PutByte(Appended(t, w), w[1])
  PROVE  TxInv(u) /\ \E k \in Nat : Behind(Out(t), Out(u), w, k)
  <1>1. t \in TxRecords /\ OutPointers(t) /\ BUF_SIZE \in Nat /\ BUF_SIZE > 0 /\ 0 \in Slots
          /\ t.count \in Nat
    BY SerialFacts DEF TxInv, TxRecords
  <1>2. t.count < BUF_SIZE => t.last \in Slots
    BY <1>1 DEF TxInv
  <1>3. PICK k \in Nat : Skipped(t) + k <= Len(w) /\ Longer(t, Appended(t, w), w, Skipped(t), k)
    BY <1>1, <1>2, AppendedFacts
  <1> DEFINE a == Appended(t, w)
  <1>4. CASE t.sending
    <2>1. u = a /\ Skipped(t) = 0
      BY <1>4 DEF Skipped
    <2> HIDE DEF a
    <2>2. k <= Len(w) /\ Longer(t, u, w, 0, k)
      BY <1>3, <2>1 DEF a
    <2>3. \A j \in 1..k : w[0 + j] \in SioBytes
      BY <2>2
    <2>4. TxInv(u)
      BY <1>4, <2>2, <2>3, LongerInv
    <2> QED
      BY <2>2, <2>4, LongerOut
  <1>5. CASE ~ t.sending
    <2>1. u = PutByte(a, w[1]) /\ Skipped(t) = 1 /\ t.count = 0 /\ t.thr = NoByte /\ t.next = 0
      BY <1>5 DEF Skipped, TxInv
    <2> HIDE DEF a
    <2>2. 1 + k <= Len(w) /\ Longer(t, a, w, 1, k)
      BY <1>3, <2>1 DEF a
    <2>3. a \in TxRecords /\ OutPointers(a) /\ a.sending = FALSE /\ a.count = k /\ \A j \in 1..k :
            OutCell(a, j) = w[1 + j]
      <3>1. a \in TxRecords /\ OutPointers(a) /\ a.sending = FALSE
        BY <1>1, <1>5, <2>2 DEF Longer, TxRecords
      <3>2. a.count = k
        BY <2>1, <2>2 DEF Longer
      <3>3. \A j \in 1..k : 0 + j = j
        OBVIOUS
      <3>4. \A j \in 1..k : OutCell(a, j) = w[1 + j]
        BY <2>1, <2>2, <3>3 DEF Longer
      <3> QED
        BY <3>1, <3>2, <3>4
    <2>4. u = Prime(a, w[1]) /\ w[1] \in SioBytes
      BY <2>1, <2>2, <2>3 DEF PutByte
    <2>5. /\ u.buffer = a.buffer /\ u.last = a.last /\ u.count = a.count /\ u.next = a.next
          /\ u.sending = TRUE /\ "TX" \in u.ier /\ u.thr = w[1] /\ u \in TxRecords
      BY <2>3, <2>4 DEF TxRecords, CharsOrNone, Prime, Enable
    <2>6. \A j \in 1..k : OutCell(u, j) = w[1 + j]
      BY <2>3, <2>5 DEF OutCell
    <2>7. TxInv(u)
      <3>1. \A j \in 1..u.count : OutCell(u, j) \in SioBytes
        BY <2>2, <2>3, <2>5, <2>6
      <3> QED
        BY <2>3, <2>5, <3>1 DEF TxInv, OutPointers
    <2>8. u.thr # NoByte
      BY <2>4, <2>5, SerialFacts
    <2> DEFINE s == Out(t)
               v == Out(u)
    <2>9. s \in Seq(SioBytes) /\ Len(s) = 0
      BY <2>1, NoneHeld
    <2>10. v \in Seq(SioBytes) /\ Len(v) = 1 + k /\ v[1] = w[1] /\ \A i \in 1..k : v[1 + i] = w[1 + i]
      <3>1. v \in Seq(SioBytes) /\ Len(v) = 1 + u.count /\ v[1] = u.thr /\ \A i \in 1..u.count :
              v[1 + i] = OutCell(u, i)
        BY <2>7, <2>8, OneHeld
      <3> HIDE DEF v
      <3> QED
        BY <2>3, <2>5, <2>6, <3>1
    <2> HIDE DEF s, v
    <2>11. \A j \in 1..(k + 1) : v[Len(s) + j] = w[j]
      <3>1. TAKE j \in 1..(k + 1)
      <3>2. Len(s) + j = j
        BY <2>9
      <3>3. CASE j = 1
        BY <2>10, <3>2, <3>3
      <3>4. CASE j # 1
        <4> DEFINE i == j - 1
        <4>1. i \in 1..k /\ j = 1 + i
          BY <3>4
        <4> HIDE DEF i
        <4> QED
          BY <2>10, <3>2, <4>1
      <3> QED
        BY <3>3, <3>4
    <2>12. Behind(s, v, w, k + 1)
      <3>1. Len(v) = Len(s) + (k + 1) /\ k + 1 \in 0..Len(w) /\ \A i \in 1..Len(s) : v[i] = s[i]
        BY <2>2, <2>9, <2>10
      <3> QED
        BY <2>9, <2>10, <2>11, <3>1 DEF Behind
    <2>13. k + 1 \in Nat
      OBVIOUS
    <2> QED
      BY <2>7, <2>12, <2>13 DEF s, v
  <1> QED
    BY <1>4, <1>5

Comes == SIO_CHARS \cup {LF}

RxCell(r, i) == r.buffer[r.next + i - 1]

RxInv(r) ==
  /\ r \in [buffer : [Slots -> CharsOrNone], last : 0..BUF_SIZE, next : 0..BUF_SIZE, count : 0..BUF_SIZE]
  /\ r.next + r.count = r.last
  /\ \A i \in 1..r.count : RxCell(r, i) \in Comes

\* Nobody is blocked while a character waits.
SerialInv ==
  /\ TxInv(tx) /\ RxInv(rx)
  /\ readers \in Nat /\ (readers > 0 => rx.count = 0)

\* What waits to be read.
In(r) == [i \in 1..r.count |-> r.buffer[r.next + i - 1]]

(***************************************************************************)
(* What waits to be read: the cells from _innext on.                       *)
(***************************************************************************)
LEMMA InFacts ==
  ASSUME NEW r, RxInv(r)
  PROVE  /\ r.count \in Nat /\ r.next \in Nat /\ In(r) \in Seq(Comes) /\ Len(In(r)) = r.count
         /\ \A i \in 1..r.count : In(r)[i] = RxCell(r, i)
  <1>1. r.count \in Nat /\ r.next \in Nat
    BY SerialFacts DEF RxInv
  <1>2. In(r) = [i \in 1..r.count |-> RxCell(r, i)]
    BY DEF In, RxCell
  <1>3. \A i \in 1..r.count : RxCell(r, i) \in Comes
    BY DEF RxInv
  <1> HIDE DEF In
  <1> QED
    BY <1>1, <1>2, <1>3

Kept(r, b) == [r EXCEPT !.buffer[r.last] = b, !.last = @ + 1, !.count = @ + 1]

(***************************************************************************)
(* _isr_sio, RX event: the character that is kept is the last of what      *)
(* waits.                                                                  *)
(***************************************************************************)
LEMMA KeptFacts ==
  ASSUME NEW r, RxInv(r), r.count < BUF_SIZE, r.last \in Slots, NEW b \in Comes, NEW u, u = Kept(r, b)
  PROVE  RxInv(u) /\ In(u) = Append(In(r), b) /\ Len(In(r)) < BUF_SIZE
  <1>1. /\ BUF_SIZE \in Nat /\ r.next \in Nat /\ r.count \in Nat /\ r.last \in Nat
             /\ r.next + r.count = r.last
        /\ r.last < BUF_SIZE /\ r.buffer \in [Slots -> CharsOrNone]
        /\ r \in [buffer :
             [Slots -> CharsOrNone], last : 0..BUF_SIZE, next : 0..BUF_SIZE, count : 0..BUF_SIZE]
    BY SerialFacts DEF RxInv, Slots
  <1>2. b \in CharsOrNone
    BY DEF Comes, CharsOrNone, SioBytes
  <1>3. /\ u.buffer = [r.buffer EXCEPT ![r.last] = b] /\ u.last = r.last + 1 /\ u.count = r.count + 1
             /\ u.next = r.next
    BY <1>1 DEF Kept
  <1>4. u \in [buffer : [Slots -> CharsOrNone], last : 0..BUF_SIZE, next : 0..BUF_SIZE, count : 0..BUF_SIZE]
    <2>1. r.last + 1 \in 0..BUF_SIZE /\ r.count + 1 \in 0..BUF_SIZE
      BY <1>1
    <2>2. [r.buffer EXCEPT ![r.last] = b] \in [Slots -> CharsOrNone]
      BY <1>1, <1>2
    <2> QED
      BY <1>1, <2>1, <2>2 DEF Kept
  <1>5. \A i \in 1..r.count : RxCell(u, i) = RxCell(r, i)
    <2>1. TAKE i \in 1..r.count
    <2>2. r.next + i - 1 \in Slots /\ r.next + i - 1 # r.last
      BY <1>1 DEF Slots
    <2> QED
      BY <1>1, <1>3, <2>2 DEF RxCell
  <1>6. RxCell(u, r.count + 1) = b
    <2>1. r.next + (r.count + 1) - 1 = r.last
      BY <1>1
    <2> QED
      BY <1>1, <1>3, <2>1 DEF RxCell
  <1>7. RxInv(u)
    <2>1. \A i \in 1..u.count : RxCell(u, i) \in Comes
      <3>1. TAKE i \in 1..u.count
      <3>2. CASE i = r.count + 1
        BY <1>6, <3>2
      <3>3. CASE i # r.count + 1
        <4>1. i \in 1..r.count
          BY <1>1, <1>3, <3>3
        <4> QED
          BY <1>5, <4>1 DEF RxInv
      <3> QED
        BY <3>2, <3>3
    <2>2. u.next + u.count = u.last
      BY <1>1, <1>3
    <2> QED
      BY <1>4, <2>1, <2>2 DEF RxInv
  <1> DEFINE s == In(r)
             v == In(u)
             c == r.count
             a == Append(s, b)
  <1>8. c \in Nat /\ s \in Seq(Comes) /\ Len(s) = c /\ \A i \in 1..c : s[i] = RxCell(r, i)
    BY InFacts
  <1>9. v \in Seq(Comes) /\ Len(v) = c + 1 /\ \A i \in 1..(c + 1) : v[i] = RxCell(u, i)
    BY <1>3, <1>7, InFacts
  <1> HIDE DEF s, v, c
  <1>10. a \in Seq(Comes) /\ Len(a) = c + 1 /\ a[c + 1] = b /\ \A i \in 1..c : a[i] = s[i]
    BY <1>8
  <1> HIDE DEF a
  <1>11. \A i \in 1..Len(v) : v[i] = a[i]
    <2>1. TAKE i \in 1..Len(v)
    <2>2. CASE i = c + 1
      <3>1. i \in 1..(c + 1) /\ RxCell(u, i) = b
        BY <1>6, <1>8, <2>2 DEF c
      <3> QED
        BY <1>9, <1>10, <2>2, <3>1
    <2>3. CASE i # c + 1
      <3>1. i \in 1..c /\ i \in 1..(c + 1)
        BY <1>8, <1>9, <2>3
      <3>2. RxCell(u, i) = RxCell(r, i)
        BY <1>5, <3>1 DEF c
      <3> QED
        BY <1>8, <1>9, <1>10, <3>1, <3>2
    <2> QED
      BY <2>2, <2>3
  <1>12. v = a
    BY <1>9, <1>10, <1>11, SameSeq
  <1>13. Len(s) < BUF_SIZE
    BY <1>8 DEF c
  <1> QED
    BY <1>7, <1>12, <1>13 DEF s, v, a

Read(r, n) == Drained([r EXCEPT !.next = @ + n, !.count = @ - n])

(***************************************************************************)
(* _sio_readc and _sio_reads: what is read is the first of what waits.     *)
(***************************************************************************)
LEMMA ReadFacts ==
  ASSUME NEW r, RxInv(r), NEW n \in Nat, n > 0, n <= r.count, NEW u, u = Read(r, n)
  PROVE  /\ RxInv(u) /\ n \in 1..Len(In(r)) /\ r.buffer[r.next + n - 1] = In(r)[n]
         /\ In(u) = SubSeq(In(r), n + 1, Len(In(r))) /\ u.count <= r.count
  <1>1. /\ BUF_SIZE \in Nat /\ r.next \in Nat /\ r.count \in Nat /\ r.last \in Nat
             /\ r.next + r.count = r.last
        /\ r.last <= BUF_SIZE /\ r.buffer \in [Slots -> CharsOrNone]
        /\ r \in [buffer :
             [Slots -> CharsOrNone], last : 0..BUF_SIZE, next : 0..BUF_SIZE, count : 0..BUF_SIZE]
    BY SerialFacts DEF RxInv
  <1> DEFINE m == [r EXCEPT !.next = @ + n, !.count = @ - n]
  <1>2. /\ m.buffer = r.buffer /\ m.last = r.last /\ m.count = r.count - n /\ m.next = r.next + n
        /\ m \in [buffer :
             [Slots -> CharsOrNone], last : 0..BUF_SIZE, next : 0..BUF_SIZE, count : 0..BUF_SIZE]
    <2>1. r.count - n \in 0..BUF_SIZE /\ r.next + n \in 0..BUF_SIZE
      BY <1>1
    <2> QED
      BY <1>1, <2>1
  <1>3. u = Drained(m)
    BY DEF Read
  <1> HIDE DEF m
  <1>4. u.buffer = r.buffer /\ u.count = r.count - n
    BY <1>2, <1>3 DEF Drained
  <1>5. u.count > 0 => u = m
    BY <1>1, <1>2, <1>3 DEF Drained
  <1>6. u \in [buffer : [Slots -> CharsOrNone], last : 0..BUF_SIZE, next : 0..BUF_SIZE, count : 0..BUF_SIZE]
        /\ u.next + u.count = u.last
    <2>1. CASE m.count < 1
      <3>1. u = [m EXCEPT !.last = 0, !.next = 0] /\ m.count = 0
        BY <1>1, <1>2, <1>3, <2>1 DEF Drained
      <3>2. u.buffer = m.buffer /\ u.last = 0 /\ u.next = 0 /\ u.count = m.count
        BY <1>2, <3>1
      <3>3. 0 \in 0..BUF_SIZE
        BY <1>1
      <3>4. u \in [buffer :
              [Slots -> CharsOrNone], last : 0..BUF_SIZE, next : 0..BUF_SIZE, count : 0..BUF_SIZE]
        BY <1>2, <3>1, <3>3
      <3> QED
        BY <3>1, <3>2, <3>4
    <2>2. CASE ~ (m.count < 1)
      <3>1. u = m
        BY <1>3, <2>2 DEF Drained
      <3> QED
        BY <1>1, <1>2, <3>1
    <2> QED
      BY <2>1, <2>2
  <1>7. \A i \in 1..u.count : RxCell(u, i) = RxCell(r, n + i)
    <2>1. TAKE i \in 1..u.count
    <2>2. u = m /\ u.next = r.next + n
      <3>1. u.count > 0
        BY <1>1, <1>4
      <3> QED
        BY <1>2, <1>5, <3>1
    <2>3. u.next + i - 1 = r.next + (n + i) - 1
      BY <1>1, <2>2
    <2> QED
      BY <1>4, <2>3 DEF RxCell
  <1>8. \A i \in 1..u.count : n + i \in 1..r.count
    BY <1>1, <1>4
  <1>9. RxInv(u)
    BY <1>6, <1>7, <1>8 DEF RxInv
  <1> DEFINE s == In(r)
             v == In(u)
             c == r.count
             t == SubSeq(s, n + 1, Len(s))
  <1>10. c \in Nat /\ s \in Seq(Comes) /\ Len(s) = c /\ \A i \in 1..c : s[i] = RxCell(r, i)
    BY InFacts
  <1>11. v \in Seq(Comes) /\ Len(v) = c - n /\ \A i \in 1..(c - n) : v[i] = RxCell(u, i)
    BY <1>4, <1>9, InFacts
  <1> HIDE DEF s, v
  <1>12. t \in Seq(Comes) /\ Len(t) = c - n /\ \A i \in 1..(c - n) : t[i] = s[n + i]
    <2> HIDE DEF c
    <2>1. n <= c
      BY DEF c
    <2>2. t = [i \in 1..(c - n) |-> s[n + i]]
      <3>1. Len(s) - (n + 1) + 1 = c - n
        BY <1>10, <2>1
      <3>2. t = [i \in 1..(Len(s) - (n + 1) + 1) |-> s[(n + 1) + i - 1]]
        OBVIOUS
      <3>3. \A i \in 1..(c - n) : (n + 1) + i - 1 = n + i
        BY <1>10
      <3> HIDE DEF t
      <3> QED
        BY <3>1, <3>2, <3>3
    <2>3. \A i \in 1..(c - n) : s[n + i] \in Comes
      <3>1. TAKE i \in 1..(c - n)
      <3>2. n + i \in 1..Len(s)
        BY <1>10, <2>1
      <3> QED
        BY <1>10, <3>2
    <2>4. c - n \in Nat
      BY <1>10, <2>1
    <2> HIDE DEF t
    <2> QED
      BY <2>2, <2>3, <2>4
  <1> HIDE DEF t
  <1>13. v = t
    <2>1. \A i \in 1..Len(v) : v[i] = t[i]
      <3>1. TAKE i \in 1..Len(v)
      <3>2. i \in 1..(c - n) /\ i \in 1..u.count /\ n + i \in 1..c
        BY <1>4, <1>8, <1>11
      <3>3. v[i] = RxCell(r, n + i) /\ t[i] = s[n + i] /\ s[n + i] = RxCell(r, n + i)
        BY <1>7, <1>10, <1>11, <1>12, <3>2
      <3> QED
        BY <3>3
    <2> QED
      BY <1>11, <1>12, <2>1, SameSeq
  <1>14. n \in 1..Len(s) /\ r.buffer[r.next + n - 1] = s[n]
    BY <1>10 DEF RxCell
  <1>15. u.count <= r.count
    BY <1>1, <1>4
  <1> QED
    BY <1>9, <1>13, <1>14, <1>15 DEF s, v, t, c

\* What a process may write at one call.
Texts == {<<c>> : c \in SIO_CHARS \cup {CR}} \cup {<<CR, LF>>} \cup SIO_TEXTS

SameIn == In(rx') = In(rx)
SameOut == Out(tx') = Out(tx)

\* What a step does to the two queues.
LineEffect ==
  \/ SameIn /\ SameOut /\ eax' = eax /\ wire' = wire
  \/ Len(In(rx)) < BUF_SIZE /\ (\E c \in Comes : In(rx') = Append(In(rx), c)) /\ SameOut /\ eax' = eax
       /\ wire' = wire
  \/ In(rx) = <<>> /\ eax' \in Comes /\ SameIn /\ SameOut /\ wire' = wire
  \/ (\E n \in 1..Len(In(rx)) : eax' = In(rx)[n] /\ In(rx') = SubSeq(In(rx), n + 1, Len(In(rx)))) /\ SameOut
       /\ wire' = wire
  \/ (\E w \in Texts : \E n \in 1..Len(w) : Out(tx') = Out(tx) \o SubSeq(w, 1, n)) /\ SameIn /\ eax' = eax
       /\ wire' = wire
  \/ Out(tx) # <<>> /\ wire' = Head(Out(tx)) /\ Out(tx') = Tail(Out(tx)) /\ SameIn /\ eax' = eax

\* The invariant after a step.
SoundAfter == TxInv(tx') /\ RxInv(rx') /\ readers' \in Nat /\ (readers' > 0 => rx'.count = 0)

(***************************************************************************)
(* The invariant of the serial line, after a step.                         *)
(***************************************************************************)
LEMMA SoundAgain == SoundAfter => SerialInv'
  BY DEF SoundAfter, SerialInv

(***************************************************************************)
(* A character comes in, or a process blocks.                              *)
(***************************************************************************)
LEMMA InputStep ==
  ASSUME SerialInv, NEW c \in SioBytes, RxWake(c) \/ RxStore(c) \/ BlockReader
  PROVE  SoundAfter /\ LineEffect
  <1>1. TxInv(tx) /\ RxInv(rx) /\ readers \in Nat /\ (readers > 0 => rx.count = 0)
    BY DEF SerialInv
  <1> DEFINE b == IF c = CR THEN LF ELSE c
  <1>2. b \in Comes
    BY DEF Comes, SioBytes
  <1> HIDE DEF b
  <1>3. CASE RxWake(c)
    <2>1. readers > 0 /\ readers' = readers - 1 /\ eax' = b /\ rx' = rx /\ tx' = tx /\ wire' = wire
      BY <1>3 DEF RxWake, b
    <2>2. In(rx) = <<>>
      <3> DEFINE s == In(rx)
      <3>1. s \in Seq(Comes) /\ Len(s) = 0
        BY <1>1, <2>1, InFacts
      <3> HIDE DEF s
      <3>2. s = <<>>
        BY <3>1
      <3> QED
        BY <3>2 DEF s
    <2>3. LineEffect
      BY <1>2, <2>1, <2>2 DEF LineEffect, SameIn, SameOut
    <2> QED
      BY <1>1, <2>1, <2>3 DEF SoundAfter
  <1>4. CASE RxStore(c)
    <2>1. readers = 0 /\ readers' = readers /\ tx' = tx /\ eax' = eax /\ wire' = wire /\ rx.count < BUF_SIZE
      BY <1>4 DEF RxStore, Room
    <2>2. CASE rx.last \in Slots
      <3>1. rx' = Kept(rx, b)
        BY <1>4, <2>2 DEF RxStore, Kept, b
      <3>2. RxInv(rx') /\ In(rx') = Append(In(rx), b) /\ Len(In(rx)) < BUF_SIZE
        BY <1>1, <1>2, <2>1, <2>2, <3>1, KeptFacts
      <3>3. LineEffect
        BY <1>2, <2>1, <3>2 DEF LineEffect, SameOut
      <3> QED
        BY <1>1, <2>1, <3>2, <3>3 DEF SoundAfter
    <2>3. CASE rx.last \notin Slots
      <3>1. rx' = rx
        BY <1>4, <2>3 DEF RxStore
      <3>2. LineEffect
        BY <2>1, <3>1 DEF LineEffect, SameIn, SameOut
      <3> QED
        BY <1>1, <2>1, <3>1, <3>2 DEF SoundAfter
    <2> QED
      BY <2>2, <2>3
  <1>5. CASE BlockReader
    <2>1. rx.count = 0 /\ readers' = readers + 1 /\ tx' = tx /\ eax' = eax /\ wire' = wire /\ rx' = rx
      BY <1>5 DEF BlockReader
    <2>2. LineEffect
      BY <2>1 DEF LineEffect, SameIn, SameOut
    <2> QED
      BY <1>1, <2>1, <2>2 DEF SoundAfter
  <1> QED
    BY <1>3, <1>4, <1>5

(***************************************************************************)
(* A process reads one character or more.                                  *)
(***************************************************************************)
LEMMA ReadStep ==
  ASSUME SerialInv, ReadCharacter \/ \E n \in 1..BUF_SIZE : ReadMany(n)
  PROVE  SoundAfter /\ LineEffect
  <1>1. TxInv(tx) /\ RxInv(rx) /\ readers \in Nat /\ (readers > 0 => rx.count = 0) /\ rx.count \in Nat
          /\ rx.next \in Nat
    BY InFacts DEF SerialInv
  <1>2. PICK n \in Nat : /\ n > 0 /\ n <= rx.count /\ eax' = rx.buffer[rx.next + n - 1] /\ rx' = Read(rx, n)
                         /\ readers' = readers /\ tx' = tx /\ wire' = wire
    <2>1. CASE ReadCharacter
      <3>1. rx.next + 1 - 1 = rx.next /\ 1 \in Nat /\ 1 > 0 /\ 1 <= rx.count
        BY <1>1, <2>1 DEF ReadCharacter
      <3>2. eax' = rx.buffer[rx.next + 1 - 1] /\ rx' = Read(rx, 1) /\ readers' = readers /\ tx' = tx
              /\ wire' = wire
        BY <2>1, <3>1 DEF ReadCharacter, Read
      <3> QED
        BY <3>1, <3>2
    <2>2. CASE \E m \in 1..BUF_SIZE : ReadMany(m)
      <3>1. PICK m \in 1..BUF_SIZE : ReadMany(m)
        BY <2>2
      <3> DEFINE d == IF m < rx.count THEN m ELSE rx.count
      <3>2. d \in Nat /\ d > 0 /\ d <= rx.count
        <4>1. rx.count >= 1
          BY <3>1 DEF ReadMany
        <4>2. m \in Nat /\ m >= 1
          BY SerialFacts
        <4> QED
          BY <1>1, <4>1, <4>2
      <3>3. eax' = rx.buffer[rx.next + d - 1] /\ rx' = Read(rx, d) /\ readers' = readers /\ tx' = tx
              /\ wire' = wire
        BY <3>1 DEF ReadMany, Read
      <3> HIDE DEF d
      <3> QED
        BY <3>2, <3>3
    <2> QED
      BY <2>1, <2>2
  <1>3. /\ RxInv(rx') /\ n \in 1..Len(In(rx)) /\ rx.buffer[rx.next + n - 1] = In(rx)[n]
        /\ In(rx') = SubSeq(In(rx), n + 1, Len(In(rx))) /\ rx'.count <= rx.count
    BY <1>1, <1>2, ReadFacts
  <1>4. LineEffect
    BY <1>2, <1>3 DEF LineEffect, SameOut
  <1>5. rx'.count \in Nat
    BY <1>3, InFacts
  <1>6. readers' > 0 => rx'.count = 0
    BY <1>1, <1>2, <1>3, <1>5
  <1> QED
    BY <1>1, <1>2, <1>3, <1>4, <1>6 DEF SoundAfter

(***************************************************************************)
(* A call that appends to the output does to the line what AbsLine says of *)
(* a write, or nothing when there was no room.                             *)
(***************************************************************************)
LEMMA WroteEffect ==
  ASSUME SerialInv, NEW w \in Texts, NEW n \in Nat, Behind(Out(tx), Out(tx'), w, n), rx' = rx, eax' = eax,
         wire' = wire
  PROVE  LineEffect
  <1>1. Out(tx') = Out(tx) \o SubSeq(w, 1, n)
    BY Grown
  <1>2. CASE n = 0
    <2> DEFINE s == Out(tx)
               v == Out(tx')
    <2>1. s \in Seq(SioBytes) /\ v \in Seq(SioBytes) /\ Len(v) = Len(s) + 0 /\ \A i \in 1..Len(s) :
            v[i] = s[i]
      BY <1>2 DEF Behind
    <2> HIDE DEF s, v
    <2>2. v = s
      <3>1. Len(v) = Len(s)
        BY <2>1
      <3> QED
        BY <2>1, <3>1, SameSeq
    <2> QED
      BY <2>2 DEF LineEffect, SameIn, SameOut, s, v
  <1>3. CASE n > 0
    <2>1. n \in 1..Len(w)
      BY <1>3 DEF Behind
    <2> QED
      BY <1>1, <2>1 DEF LineEffect, SameIn
  <1> QED
    BY <1>2, <1>3

(***************************************************************************)
(* _sio_writec; of a line feed's two bytes the second may not fit.         *)
(***************************************************************************)
LEMMA WritecStep ==
  ASSUME SerialInv, NEW c \in SioBytes, Writec(c)
  PROVE  SoundAfter /\ LineEffect
  <1>1. TxInv(tx) /\ RxInv(rx) /\ readers \in Nat /\ (readers > 0 => rx.count = 0)
    BY DEF SerialInv
  <1>2. rx' = rx /\ readers' = readers /\ eax' = eax /\ wire' = wire
    BY DEF Writec
  <1>3. ASSUME TxInv(tx'), LineEffect
        PROVE  SoundAfter /\ LineEffect
    BY <1>1, <1>2, <1>3 DEF SoundAfter
  <1>4. ASSUME tx' = tx
        PROVE  LineEffect
    BY <1>2, <1>4 DEF LineEffect, SameIn, SameOut
  <1> DEFINE first == PutByte(tx, CR)
  <1>5. Fits(tx) => TxInv(first) /\ Behind(Out(tx), Out(first), <<CR>>, 1)
    BY <1>1, SerialFacts, PutByteFacts
  <1>6. <<CR>> \in Texts /\ <<CR, LF>> \in Texts /\ (c # LF => <<c>> \in Texts)
    BY DEF Texts, SioBytes
  <1>7. CASE ~ Fits(tx)
    <2>1. tx' = tx
      BY <1>7 DEF Writec
    <2> QED
      BY <1>1, <1>3, <1>4, <2>1
  <1>8. CASE Fits(tx) /\ c # LF
    <2>1. tx' = PutByte(tx, c)
      BY <1>8 DEF Writec
    <2>2. TxInv(tx') /\ Behind(Out(tx), Out(tx'), <<c>>, 1)
      BY <1>1, <1>8, <2>1, PutByteFacts
    <2>3. LineEffect
      BY <1>2, <1>6, <1>8, <2>2, WroteEffect
    <2> QED
      BY <1>3, <2>2, <2>3
  <1>9. CASE Fits(tx) /\ c = LF /\ ~ Fits(first)
    <2>1. tx' = first
      BY <1>9 DEF Writec
    <2>2. TxInv(tx') /\ Behind(Out(tx), Out(tx'), <<CR>>, 1)
      BY <1>5, <1>9, <2>1
    <2>3. LineEffect
      BY <1>2, <1>6, <2>2, WroteEffect
    <2> QED
      BY <1>3, <2>2, <2>3
  <1>10. CASE Fits(tx) /\ c = LF /\ Fits(first)
    <2>1. tx' = PutByte(first, LF)
      BY <1>10 DEF Writec
    <2> HIDE DEF first
    <2>2. TxInv(first) /\ Behind(Out(tx), Out(first), <<CR>>, 1)
      BY <1>5, <1>10
    <2>3. TxInv(tx') /\ Behind(Out(first), Out(tx'), <<LF>>, 1)
      BY <1>10, <2>1, <2>2, SerialFacts, PutByteFacts
    <2>4. Behind(Out(tx), Out(tx'), <<CR, LF>>, 2)
      <3> DEFINE s == Out(tx)
                 u == Out(first)
                 v == Out(tx')
                 w == <<CR, LF>>
      <3>1. s \in Seq(SioBytes) /\ u \in Seq(SioBytes) /\ Len(u) = Len(s) + 1
              /\ (\A i \in 1..Len(s) : u[i] = s[i]) /\ u[Len(s) + 1] = CR
        <4>1. <<CR>>[1] = CR /\ 1 \in 1..1
          OBVIOUS
        <4>2. u[Len(s) + 1] = <<CR>>[1]
          BY <2>2, <4>1 DEF Behind
        <4> QED
          BY <2>2, <4>1, <4>2 DEF Behind
      <3>2. v \in Seq(SioBytes) /\ Len(v) = Len(u) + 1 /\ (\A i \in 1..Len(u) : v[i] = u[i])
              /\ v[Len(u) + 1] = LF
        <4>1. <<LF>>[1] = LF /\ 1 \in 1..1
          OBVIOUS
        <4>2. v[Len(u) + 1] = <<LF>>[1]
          BY <2>3, <4>1 DEF Behind
        <4> QED
          BY <2>3, <4>1, <4>2 DEF Behind
      <3>3. w \in Seq(SioBytes) /\ Len(w) = 2 /\ w[1] = CR /\ w[2] = LF
        BY SerialFacts
      <3> HIDE DEF s, u, v, w
      <3>4. \A i \in 1..Len(s) : v[i] = s[i]
        BY <3>1, <3>2
      <3>5. Len(s) \in Nat /\ v[Len(s) + 1] = CR /\ v[Len(s) + 2] = LF
        BY <3>1, <3>2
      <3>6. \A j \in 1..2 : v[Len(s) + j] = w[j]
        BY <3>3, <3>5
      <3>7. Len(v) = Len(s) + 2 /\ 2 \in 0..Len(w)
        BY <3>1, <3>2, <3>3
      <3> QED
        BY <3>1, <3>2, <3>3, <3>4, <3>6, <3>7 DEF Behind, s, v, w
    <2>5. LineEffect
      BY <1>2, <1>6, <2>4, WroteEffect
    <2> QED
      BY <1>3, <2>3, <2>5
  <1> QED
    BY <1>7, <1>8, <1>9, <1>10

(***************************************************************************)
(* _sio_writes                                                             *)
(***************************************************************************)
LEMMA WritesStep ==
  ASSUME SerialInv, NEW w \in SIO_TEXTS, Writes(w)
  PROVE  SoundAfter /\ LineEffect
  <1>1. TxInv(tx) /\ RxInv(rx) /\ readers \in Nat /\ (readers > 0 => rx.count = 0)
    BY DEF SerialInv
  <1>2. rx' = rx /\ readers' = readers /\ eax' = eax /\ wire' = wire
    BY DEF Writes
  <1>3. w \in Seq(SioBytes) /\ w # <<>> /\ w \in Texts
    BY SerialFacts DEF Texts
  <1>4. CASE tx.sending /\ tx.count < BUF_SIZE /\ tx.last \notin Slots
    <2>1. tx' = tx
      BY <1>4 DEF Writes
    <2> QED
      BY <1>1, <1>2, <2>1 DEF SoundAfter, LineEffect, SameIn, SameOut
  <1>5. CASE ~ (tx.sending /\ tx.count < BUF_SIZE /\ tx.last \notin Slots)
    <2>1. tx' = IF tx.sending THEN Appended(tx, w) ELSE PutByte(Appended(tx, w), w[1])
      BY <1>5 DEF Writes
    <2>2. TxInv(tx') /\ \E k \in Nat : Behind(Out(tx), Out(tx'), w, k)
      BY <1>1, <1>3, <1>5, <2>1, WritesFacts
    <2>3. PICK k \in Nat : Behind(Out(tx), Out(tx'), w, k)
      BY <2>2
    <2>4. LineEffect
      BY <1>2, <1>3, <2>3, WroteEffect
    <2> QED
      BY <1>1, <1>2, <2>2, <2>4 DEF SoundAfter
  <1> QED
    BY <1>4, <1>5

(***************************************************************************)
(* The UART and the TX events.                                             *)
(***************************************************************************)
LEMMA LineStep ==
  ASSUME SerialInv, UartSends \/ TxNext \/ TxDone
  PROVE  SoundAfter /\ LineEffect
  <1>1. TxInv(tx) /\ RxInv(rx) /\ readers \in Nat /\ (readers > 0 => rx.count = 0)
    BY DEF SerialInv
  <1>2. rx' = rx /\ readers' = readers /\ eax' = eax
    BY DEF UartSends, TxNext, TxDone
  <1>3. CASE UartSends
    <2>1. tx.thr # NoByte /\ wire' = tx.thr /\ tx' = [tx EXCEPT !.thr = NoByte]
      BY <1>3 DEF UartSends
    <2>2. TxInv(tx') /\ Out(tx) # <<>> /\ Head(Out(tx)) = tx.thr /\ Tail(Out(tx)) = Out(tx')
      BY <1>1, <2>1, LeavesFacts
    <2> QED
      BY <1>1, <1>2, <2>1, <2>2 DEF SoundAfter, LineEffect, SameIn
  <1>4. CASE TxNext
    <2>1. tx.thr = NoByte /\ tx.sending /\ tx.count > 0 /\ wire' = wire /\ tx' = Sent(tx)
      BY <1>4 DEF TxNext, TxPending, Sent
    <2>2. TxInv(tx') /\ Out(tx') = Out(tx)
      BY <1>1, <2>1, SentFacts
    <2> QED
      BY <1>1, <1>2, <2>1, <2>2 DEF SoundAfter, LineEffect, SameIn, SameOut
  <1>5. CASE TxDone
    <2>1. tx.thr = NoByte /\ ~ (tx.sending /\ tx.count > 0) /\ wire' = wire /\ tx' = Reset(tx)
      BY <1>5 DEF TxDone, TxPending, Reset
    <2>2. TxInv(tx') /\ Out(tx') = Out(tx)
      BY <1>1, <2>1, ResetFacts
    <2> QED
      BY <1>1, <1>2, <2>1, <2>2 DEF SoundAfter, LineEffect, SameIn, SameOut
  <1> QED
    BY <1>3, <1>4, <1>5

(***************************************************************************)
(* Every step keeps the invariant and is a step of AbsLine, or none.       *)
(***************************************************************************)
LEMMA SerialStep == SerialInv /\ [SerialNext]_serialVars => SerialInv' /\ LineEffect
  <1> SUFFICES ASSUME SerialInv, [SerialNext]_serialVars
               PROVE  SoundAfter /\ LineEffect
    BY SoundAgain
  <1>1. CASE UNCHANGED serialVars \/ SerialCorrupted
    <2>1. rx' = rx /\ tx' = tx /\ readers' = readers /\ eax' = eax /\ wire' = wire
      BY <1>1 DEF serialVars, SerialCorrupted
    <2> QED
      BY <2>1 DEF SerialInv, SoundAfter, LineEffect, SameIn, SameOut
  <1>2. CASE \E c \in SioBytes : RxWake(c) \/ RxStore(c) \/ BlockReader
    BY <1>2, InputStep
  <1>3. CASE BlockReader
    <2>1. CR \in SioBytes
      BY SerialFacts
    <2> QED
      BY <1>3, <2>1, InputStep
  <1>4. CASE ReadCharacter \/ \E n \in 1..BUF_SIZE : ReadMany(n)
    BY <1>4, ReadStep
  <1>5. CASE \E c \in SioBytes : Writec(c)
    BY <1>5, WritecStep
  <1>6. CASE \E w \in SIO_TEXTS : Writes(w)
    BY <1>6, WritesStep
  <1>7. CASE UartSends \/ TxNext \/ TxDone
    BY <1>7, LineStep
  <1> QED
    BY <1>1, <1>2, <1>3, <1>4, <1>5, <1>6, <1>7 DEF SerialNext, SerialInput, SerialOutput

(***************************************************************************)
(* _sio_init begins with both queues empty.                                *)
(***************************************************************************)
LEMMA SerialBegins == SerialInit =>
  SerialInv /\ In(rx) = <<>> /\ Out(tx) = <<>> /\ eax = NoByte /\ wire = NoByte
  <1> SUFFICES ASSUME SerialInit
               PROVE  SerialInv /\ In(rx) = <<>> /\ Out(tx) = <<>> /\ eax = NoByte /\ wire = NoByte
    OBVIOUS
  <1>1. BUF_SIZE \in Nat /\ BUF_SIZE > 0 /\ 0 \in Slots /\ 0 \in 0..BUF_SIZE
    BY SerialFacts
  <1>2. [i \in Slots |-> NoByte] \in [Slots -> CharsOrNone]
    BY DEF CharsOrNone
  <1>3. tx \in TxRecords
          /\ rx \in [buffer :
               [Slots -> CharsOrNone], last : 0..BUF_SIZE, next : 0..BUF_SIZE, count : 0..BUF_SIZE]
    <2>1. NoByte \in CharsOrNone
      BY DEF CharsOrNone
    <2> DEFINE f == [i \in Slots |-> NoByte]
    <2> HIDE DEF f
    <2>2. f \in [Slots -> CharsOrNone]
      BY <1>2 DEF f
    <2>3. rx = [buffer |-> f, last |-> 0, next |-> 0, count |-> 0]
          /\ tx = [buffer |-> f, last |-> 0, next |-> 0, count |-> 0, sending |-> FALSE, ier |-> {"RX"}, thr |-> NoByte]
      BY DEF SerialInit, f
    <2> QED
      BY <1>1, <2>1, <2>2, <2>3 DEF TxRecords
  <1>4. /\ tx.count = 0 /\ tx.last = 0 /\ tx.next = 0 /\ tx.sending = FALSE /\ tx.thr = NoByte
        /\ rx.count = 0 /\ rx.next = 0 /\ rx.last = 0 /\ readers = 0 /\ eax = NoByte /\ wire = NoByte
    BY DEF SerialInit
  <1>5. TxInv(tx) /\ RxInv(rx)
    BY <1>3, <1>4 DEF TxInv, OutPointers, RxInv
  <1>6. SerialInv
    BY <1>4, <1>5 DEF SerialInv
  <1> DEFINE s == In(rx)
             v == Out(tx)
  <1>7. s \in Seq(Comes) /\ Len(s) = 0
    BY <1>4, <1>5, InFacts
  <1>8. v \in Seq(SioBytes) /\ Len(v) = 0
    BY <1>4, <1>5, NoneHeld
  <1> HIDE DEF s, v
  <1>9. s = <<>> /\ v = <<>>
    BY <1>7, <1>8
  <1> QED
    BY <1>4, <1>6, <1>9 DEF s, v

(***************************************************************************)
(* As long as a byte waits in the output buffer, `_sending' is on and so   *)
(* are TX interrupts: whatever the order of calls and interrupts, up to an *)
(* overrun _isr_sio is never left with bytes that nothing will send.       *)
(***************************************************************************)
THEOREM OutputGoesOn == SerialSpec => []TransmissionGoesOn
  <1>1. SerialInv => TransmissionGoesOn
    <2> SUFFICES ASSUME SerialInv
                 PROVE  TransmissionGoesOn
      OBVIOUS
    <2>1. tx.sending => "TX" \in tx.ier
      BY DEF SerialInv, TxInv
    <2>2. ~ tx.sending => ~ (tx.count > 0)
      BY DEF SerialInv, TxInv
    <2> QED
      BY <2>1, <2>2 DEF TransmissionGoesOn
  <1>2. SerialInit => SerialInv
    BY SerialBegins
  <1>3. SerialInv /\ [SerialNext]_serialVars => SerialInv'
    BY SerialStep
  <1> QED
    BY <1>1, <1>2, <1>3, PTL DEF SerialSpec

(***************************************************************************)
(* sio.c is two queues of characters up to an overrun: every call and      *)
(* every interrupt, in any order, appends at the end of one of them, takes *)
(* from its front, or leaves both alone.                                   *)
(***************************************************************************)
THEOREM LineRefines == SerialSpec => ImplementsAbsLine
  <1>1. SerialInit => SerialInv
    BY SerialBegins
  <1>2. SerialInv /\ [SerialNext]_serialVars => SerialInv'
    BY SerialStep
  <1>3. SerialInit => Line!Init
    BY SerialBegins, Zenon DEF Line!Init, In, Out, Holds, NoByte
  <1>4. SerialInv /\ [SerialNext]_serialVars => [Line!Next]_(Line!linevars)
    <2> SUFFICES ASSUME LineEffect
                 PROVE  [Line!Next]_(Line!linevars)
      BY SerialStep
    <2>1. CASE SameIn /\ SameOut /\ eax' = eax /\ wire' = wire
      BY <2>1 DEF Line!linevars, SameIn, SameOut, In, Out, Holds
    <2>2. CASE Len(In(rx)) < BUF_SIZE /\ (\E c \in Comes : In(rx') = Append(In(rx), c)) /\ SameOut
            /\ eax' = eax /\ wire' = wire
      <3>1. Line!Arrive
        BY <2>2 DEF Line!Arrive, SameOut, In, Out, Holds, Comes
      <3> QED
        BY <3>1 DEF Line!Next
    <2>3. CASE In(rx) = <<>> /\ eax' \in Comes /\ SameIn /\ SameOut /\ wire' = wire
      <3>1. Line!Deliver
        BY <2>3 DEF Line!Deliver, SameIn, SameOut, In, Out, Holds, Comes
      <3> QED
        BY <3>1 DEF Line!Next
    <2>4. CASE (\E n \in 1..Len(In(rx)) : eax' = In(rx)[n] /\ In(rx') = SubSeq(In(rx), n + 1, Len(In(rx))))
            /\ SameOut /\ wire' = wire
      <3>1. Line!Take
        BY <2>4, Zenon DEF Line!Take, SameOut, In, Out, Holds
      <3> QED
        BY <3>1 DEF Line!Next
    <2>5. CASE (\E w \in Texts : \E n \in 1..Len(w) : Out(tx') = Out(tx) \o SubSeq(w, 1, n)) /\ SameIn
            /\ eax' = eax /\ wire' = wire
      <3>1. Line!Write
        BY <2>5, Zenon DEF Line!Write, SameIn, In, Out, Holds, Texts
      <3> QED
        BY <3>1 DEF Line!Next
    <2>6. CASE Out(tx) # <<>> /\ wire' = Head(Out(tx)) /\ Out(tx') = Tail(Out(tx)) /\ SameIn /\ eax' = eax
      <3>1. Line!Leave
        BY <2>6, Zenon DEF Line!Leave, SameIn, In, Out, Holds
      <3> QED
        BY <3>1 DEF Line!Next
    <2> QED
      BY <2>1, <2>2, <2>3, <2>4, <2>5, <2>6 DEF LineEffect
  <1> QED
    BY <1>1, <1>2, <1>3, <1>4, PTL DEF SerialSpec, ImplementsAbsLine, Line!Spec
=============================================================================
