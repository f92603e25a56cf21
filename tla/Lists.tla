-------------------------------- MODULE Lists --------------------------------
(***************************************************************************)
(* What is proved about linked lists, whoever keeps them: queue.c, the     *)
(* screens and the allocator follow links from a first node to a null      *)
(* pointer, and take nodes out and put nodes in.  Here too is induction    *)
(* over the natural numbers, in the form of a set that is all of them.     *)
(***************************************************************************)
EXTENDS Integers, Sequences, FiniteSetTheorems, FunctionTheorems, WellFoundedInduction, TLAPS

(***************************************************************************)
(* There is a least number in a set that is not empty.                     *)
(***************************************************************************)
LEMMA LeastOf ==
  ASSUME NEW T \in SUBSET Nat, T # {}
  PROVE  \E x \in T : \A y \in T : x <= y
  <1> DEFINE R == OpToRel(<, Nat)
  <1>1. IsWellFoundedOn(R, Nat)
    BY NatLessThanWellFounded, Zenon
  <1>2. \A x, y \in Nat : <<y, x>> \in R <=> y < x
    BY Zenon DEF OpToRel
  <1> HIDE DEF R
  <1>3. PICK x \in T : \A y \in T : ~ (<<y, x>> \in R)
    BY <1>1, WFMin, Zenon
  <1>4. \A y \in T : ~ (y < x)
    BY <1>2, <1>3, Zenon
  <1> QED
    BY <1>4

(***************************************************************************)
(* Two sequences of the same elements are the same.                        *)
(***************************************************************************)
LEMMA SameSeq ==
  ASSUME NEW T, NEW s \in Seq(T), NEW t \in Seq(T), Len(s) = Len(t), \A i \in 1..Len(s) : s[i] = t[i]
  PROVE  s = t
  OBVIOUS

(***************************************************************************)
(* A set with 0 and the successor of each of its members has all numbers.  *)
(***************************************************************************)
LEMMA SetInduction ==
  ASSUME NEW T \in SUBSET Nat, 0 \in T, \A n \in T : n + 1 \in T
  PROVE  T = Nat
  <1> SUFFICES ASSUME T # Nat PROVE FALSE
    OBVIOUS
  <1>1. PICK x \in Nat \ T : \A y \in Nat \ T : x <= y
    <2>1. Nat \ T \in SUBSET Nat /\ Nat \ T # {}
      OBVIOUS
    <2> QED
      BY <2>1, LeastOf, Zenon
  <1>2. x # 0 /\ x - 1 \in Nat
    BY <1>1
  <1>3. x - 1 \in T
    BY <1>1, <1>2
  <1> QED
    BY <1>1, <1>2, <1>3

-----------------------------------------------------------------------------
\* at[i] is the node i links after the first one, nil from the end of the list on.
Traversal(at, N, first, nx, nil) ==
  at = [i \in 0..N |-> IF i = 0 THEN first ELSE IF at[i - 1] = nil THEN nil ELSE nx[at[i - 1]]]

(***************************************************************************)
(* The recursive function that follows the links of a list is there.       *)
(***************************************************************************)
LEMMA TraversalExists ==
  ASSUME NEW N \in Nat, NEW first, NEW nx, NEW nil
  PROVE  \E at : Traversal(at, N, first, nx, nil)
  <1> DEFINE T == {m \in Nat : \E at : Traversal(at, m, first, nx, nil)}
  <1>1. 0 \in T
    <2>1. Traversal([i \in 0..0 |-> first], 0, first, nx, nil)
      BY DEF Traversal
    <2> QED
      BY <2>1
  <1>2. ASSUME NEW m \in T
        PROVE  m + 1 \in T
    <2>1. PICK f : Traversal(f, m, first, nx, nil)
      BY <1>2
    <2> DEFINE h == [i \in 0..(m + 1) |-> IF i <= m THEN f[i] ELSE IF f[m] = nil THEN nil ELSE nx[f[m]]]
    <2>2. Traversal(h, m + 1, first, nx, nil)
      BY <2>1 DEF Traversal
    <2>3. \E at : Traversal(at, m + 1, first, nx, nil)
      BY <2>2
    <2> QED
      BY <2>3
  <1>3. N \in T
    <2> HIDE DEF T
    <2>1. T \in SUBSET Nat
      BY DEF T
    <2> QED
      BY <2>1, <1>1, <1>2, SetInduction
  <1> QED
    BY <1>3

\* The nodes M form a list of len nodes, numbered from the first one on by pos.
Numbered(M, pos, len, first, nx, nil) ==
  /\ len \in Nat /\ nil \notin M
  /\ pos \in [M -> 0..(len - 1)]
  /\ \A m, n \in M : pos[m] = pos[n] => m = n
  /\ \A i \in 0..(len - 1) : \E n \in M : pos[n] = i
  /\ IF len = 0 THEN first = nil ELSE first \in M /\ pos[first] = 0
  /\ \A n \in M : IF pos[n] = len - 1 THEN nx[n] = nil ELSE nx[n] \in M /\ pos[nx[n]] = pos[n] + 1

IsList(M, len, first, nx, nil) == \E pos : Numbered(M, pos, len, first, nx, nil)

(***************************************************************************)
(* Following the links of a list visits its nodes in their order.          *)
(***************************************************************************)
LEMMA Visits ==
  ASSUME NEW N \in Nat, NEW at, NEW M, NEW pos, NEW len, NEW first, NEW nx, NEW nil,
         Traversal(at, N, first, nx, nil), Numbered(M, pos, len, first, nx, nil)
  PROVE  \A i \in 0..N : IF i < len THEN at[i] \in M /\ pos[at[i]] = i ELSE at[i] = nil
  <1> DEFINE Right(i) == IF i < len THEN at[i] \in M /\ pos[at[i]] = i ELSE at[i] = nil
             T == {i \in Nat : i <= N => Right(i)}
  <1>1. 0 \in T
    BY DEF Traversal, Numbered
  <1>2. ASSUME NEW i \in T
        PROVE  i + 1 \in T
    <2>1. SUFFICES ASSUME i + 1 <= N PROVE Right(i + 1)
      BY <1>2
    <2>2. Right(i)
      BY <1>2, <2>1
    <2>3. at[i + 1] = IF at[i] = nil THEN nil ELSE nx[at[i]]
      <3>1. i + 1 \in 0..N /\ i + 1 # 0 /\ (i + 1) - 1 = i
        BY <1>2, <2>1
      <3> QED
        BY <3>1 DEF Traversal
    <2> QED
      BY <1>2, <2>2, <2>3 DEF Numbered
  <1>3. T = Nat
    <2> HIDE DEF T
    <2>1. T \in SUBSET Nat
      BY DEF T
    <2> QED
      BY <2>1, <1>1, <1>2, SetInduction
  <1> QED
    BY <1>3

(***************************************************************************)
(* A list has as many nodes as it is long.                                 *)
(***************************************************************************)
LEMMA Counted ==
  ASSUME NEW M, NEW len, NEW first, NEW nx, NEW nil, IsList(M, len, first, nx, nil)
  PROVE  IsFiniteSet(M) /\ Cardinality(M) = len
  <1>1. PICK pos : Numbered(M, pos, len, first, nx, nil)
    BY DEF IsList
  <1>2. len \in Nat /\ pos \in Bijection(M, 0..(len - 1))
    BY <1>1 DEF Numbered, Bijection, Injection, Surjection, IsInjective
  <1>3. IsFiniteSet(0..(len - 1)) /\ Cardinality(0..(len - 1)) = len
    BY <1>2, FS_Interval
  <1>4. ExistsBijection(M, 0..(len - 1)) /\ ExistsBijection(0..(len - 1), M)
    BY <1>2, Fun_ExistsBijSymmetric DEF ExistsBijection
  <1> QED
    BY <1>3, <1>4, FS_Bijection

(***************************************************************************)
(* What a traversal long enough finds is the nodes of the list.            *)
(***************************************************************************)
LEMMA Members ==
  ASSUME NEW N \in Nat, NEW at, NEW M, NEW len, NEW first, NEW nx, NEW nil,
         Traversal(at, N, first, nx, nil), IsList(M, len, first, nx, nil), len <= N
  PROVE  {at[i] : i \in 0..N} \ {nil} = M
  <1>1. PICK pos : Numbered(M, pos, len, first, nx, nil)
    BY DEF IsList
  <1>2. \A i \in 0..N : IF i < len THEN at[i] \in M /\ pos[at[i]] = i ELSE at[i] = nil
    BY <1>1, Visits
  <1>3. \A n \in M : pos[n] \in 0..N /\ at[pos[n]] = n
    BY <1>1, <1>2 DEF Numbered
  <1> QED
    BY <1>1, <1>2, <1>3 DEF Numbered

(***************************************************************************)
(* What a list is like, without its numbers.                               *)
(***************************************************************************)
LEMMA ListFacts ==
  ASSUME NEW M, NEW len, NEW first, NEW nx, NEW nil, IsList(M, len, first, nx, nil)
  PROVE  /\ len \in Nat /\ nil \notin M
         /\ IF len = 0 THEN M = {} /\ first = nil ELSE first \in M
         /\ \A n \in M : nx[n] \in M \cup {nil} /\ nx[n] # n /\ nx[n] # first
         /\ \A m, n \in M : nx[m] = nx[n] => m = n
         /\ len # 0 => \E n \in M : nx[n] = nil
         /\ \A n \in M : n # first => \E m \in M : nx[m] = n
  <1>1. PICK pos : Numbered(M, pos, len, first, nx, nil)
    BY DEF IsList
  <1>2. /\ len \in Nat /\ nil \notin M /\ pos \in [M -> 0..(len - 1)]
        /\ \A m, n \in M : pos[m] = pos[n] => m = n
        /\ \A i \in 0..(len - 1) : \E n \in M : pos[n] = i
        /\ IF len = 0 THEN first = nil ELSE first \in M /\ pos[first] = 0
        /\ \A n \in M : IF pos[n] = len - 1 THEN nx[n] = nil ELSE nx[n] \in M /\ pos[nx[n]] = pos[n] + 1
    BY <1>1 DEF Numbered
  <1>3. len = 0 => M = {}
    BY <1>2
  <1>4. len # 0 => \E n \in M : nx[n] = nil
    <2>1. len # 0 => len - 1 \in 0..(len - 1)
      BY <1>2
    <2> QED
      BY <1>2, <2>1
  <1>5. ASSUME NEW n \in M, n # first
        PROVE  \E m \in M : nx[m] = n
    <2>1. pos[n] # 0 /\ pos[n] - 1 \in 0..(len - 1) /\ pos[n] - 1 # len - 1
      BY <1>2, <1>3, <1>5
    <2>2. PICK m \in M : pos[m] = pos[n] - 1
      BY <1>2, <2>1
    <2>3. nx[m] \in M /\ pos[nx[m]] = pos[n]
      BY <1>2, <2>1, <2>2
    <2> QED
      BY <1>2, <2>3
  <1>6. \A n \in M : nx[n] \in M \cup {nil} /\ nx[n] # n
    BY <1>2
  <1>7. \A n \in M : nx[n] # first
    BY <1>2
  <1>8. \A m, n \in M : nx[m] = nx[n] => m = n
    BY <1>2
  <1> QED
    BY <1>2, <1>3, <1>4, <1>5, <1>6, <1>7, <1>8

(***************************************************************************)
(* A list is the same as long as the links of its nodes are.               *)
(***************************************************************************)
LEMMA SameLinks ==
  ASSUME NEW M, NEW len, NEW first, NEW nx, NEW nil, IsList(M, len, first, nx, nil),
         NEW to, \A m \in M : to[m] = nx[m]
  PROVE  IsList(M, len, first, to, nil)
  BY DEF IsList, Numbered

(***************************************************************************)
(* An empty list.                                                          *)
(***************************************************************************)
LEMMA EmptyList ==
  ASSUME NEW nx, NEW nil
  PROVE  IsList({}, 0, nil, nx, nil)
  <1>1. Numbered({}, [n \in {} |-> 0], 0, nil, nx, nil)
    BY DEF Numbered
  <1> QED
    BY <1>1 DEF IsList

(***************************************************************************)
(* Node n is taken out: what led to it leads to the one after it.          *)
(***************************************************************************)
LEMMA TakenOut ==
  ASSUME NEW M, NEW len, NEW first, NEW nx, NEW nil, IsList(M, len, first, nx, nil),
         NEW n \in M, NEW to,
         \A m \in M \ {n} : nx[m] = n => to[m] = nx[n],
         \A m \in M \ {n} : nx[m] # n => to[m] = nx[m],
         NEW head, first = n => head = nx[n], first # n => head = first, NEW l, l = len - 1
  PROVE  IsList(M \ {n}, l, head, to, nil)
  <1>1. PICK pos : Numbered(M, pos, len, first, nx, nil)
    BY DEF IsList
  <1> DEFINE L == M \ {n}
             less == [m \in L |-> IF pos[m] > pos[n] THEN pos[m] - 1 ELSE pos[m]]
  <1>2. /\ len \in Nat /\ nil \notin M /\ pos \in [M -> 0..(len - 1)]
        /\ \A m, k \in M : pos[m] = pos[k] => m = k
        /\ \A i \in 0..(len - 1) : \E m \in M : pos[m] = i
        /\ IF len = 0 THEN first = nil ELSE first \in M /\ pos[first] = 0
        /\ \A m \in M : IF pos[m] = len - 1 THEN nx[m] = nil ELSE nx[m] \in M /\ pos[nx[m]] = pos[m] + 1
    BY <1>1 DEF Numbered
  <1>3. len # 0 /\ len - 1 \in Nat /\ first \in M /\ pos[first] = 0 /\ pos[n] \in 0..(len - 1)
    BY <1>2
  <1>4. \A m \in L : /\ pos[m] \in 0..(len - 1) /\ pos[m] # pos[n]
                     /\ less[m] = IF pos[m] > pos[n] THEN pos[m] - 1 ELSE pos[m]
    BY <1>2
  <1>5. less \in [L -> 0..(len - 1 - 1)]
    <2>1. \A m \in L : less[m] \in 0..(len - 1 - 1)
      BY <1>3, <1>4
    <2> QED
      BY <2>1
  <1> HIDE DEF less
  <1>6. \A m, k \in L : less[m] = less[k] => m = k
    <2>1. \A m, k \in L : less[m] = less[k] => pos[m] = pos[k]
      BY <1>3, <1>4
    <2> QED
      BY <1>2, <2>1
  <1>7. ASSUME NEW i \in 0..(len - 1 - 1)
        PROVE  \E m \in L : less[m] = i
    <2>1. CASE i < pos[n]
      <3>1. PICK m \in M : pos[m] = i
        BY <1>2, <1>3, <2>1
      <3> QED
        BY <1>3, <1>4, <2>1, <3>1
    <2>2. CASE i >= pos[n]
      <3>1. i + 1 \in 0..(len - 1)
        BY <1>3
      <3>2. PICK m \in M : pos[m] = i + 1
        BY <1>2, <3>1
      <3> QED
        BY <1>3, <1>4, <2>2, <3>2
    <2> QED
      BY <1>3, <2>1, <2>2
  <1>8. IF len - 1 = 0 THEN head = nil ELSE head \in L /\ less[head] = 0
    <2>1. CASE first = n
      BY <1>2, <1>3, <1>4, <2>1
    <2>2. CASE first # n
      <3>1. pos[n] # 0 /\ len - 1 # 0
        BY <1>2, <1>3, <2>2
      <3> QED
        BY <1>3, <1>4, <2>2, <3>1
    <2> QED
      BY <2>1, <2>2
  <1>9. ASSUME NEW m \in L
        PROVE  IF less[m] = len - 1 - 1 THEN to[m] = nil ELSE to[m] \in L /\ less[to[m]] = less[m] + 1
    <2>1. CASE nx[m] = n
      <3>1. pos[m] # len - 1 /\ pos[n] = pos[m] + 1 /\ to[m] = nx[n] /\ less[m] = pos[m]
        BY <1>2, <1>3, <1>4, <2>1
      <3>2. CASE pos[n] = len - 1
        BY <1>2, <1>3, <3>1, <3>2
      <3>3. CASE pos[n] # len - 1
        <4>1. nx[n] \in M /\ pos[nx[n]] = pos[n] + 1
          BY <1>2, <3>3
        <4>2. nx[n] \in L /\ less[nx[n]] = pos[n]
          BY <1>3, <1>4, <4>1
        <4> QED
          BY <1>3, <1>4, <3>1, <3>3, <4>2
      <3> QED
        BY <3>2, <3>3
    <2>2. CASE nx[m] # n
      <3>1. to[m] = nx[m]
        BY <2>2
      <3>2. CASE pos[m] = len - 1
        BY <1>2, <1>3, <1>4, <3>1, <3>2
      <3>3. CASE pos[m] # len - 1
        <4>1. nx[m] \in L /\ pos[nx[m]] = pos[m] + 1
          BY <1>2, <2>2, <3>3
        <4> QED
          BY <1>3, <1>4, <3>1, <3>3, <4>1
      <3> QED
        BY <3>2, <3>3
    <2> QED
      BY <2>1, <2>2
  <1>10. Numbered(L, less, len - 1, head, to, nil)
    BY <1>2, <1>3, <1>5, <1>6, <1>7, <1>8, <1>9 DEF Numbered
  <1> QED
    BY <1>10 DEF IsList

(***************************************************************************)
(* Node n is put in before node c: what led to c leads to it.              *)
(***************************************************************************)
LEMMA PutBefore ==
  ASSUME NEW M, NEW len, NEW first, NEW nx, NEW nil, IsList(M, len, first, nx, nil),
         NEW n, n \notin M, n # nil, NEW c \in M, NEW to, to[n] = c,
         \A m \in M : nx[m] = c => to[m] = n,
         \A m \in M : nx[m] # c => to[m] = nx[m],
         NEW head, first = c => head = n, first # c => head = first, NEW l, l = len + 1
  PROVE  IsList(M \cup {n}, l, head, to, nil)
  <1>1. PICK pos : Numbered(M, pos, len, first, nx, nil)
    BY DEF IsList
  <1> DEFINE L == M \cup {n}
             more == [m \in L |-> IF m = n THEN pos[c] ELSE IF pos[m] >= pos[c] THEN pos[m] + 1 ELSE pos[m]]
  <1>2. /\ len \in Nat /\ nil \notin M /\ pos \in [M -> 0..(len - 1)]
        /\ \A m, k \in M : pos[m] = pos[k] => m = k
        /\ \A i \in 0..(len - 1) : \E m \in M : pos[m] = i
        /\ IF len = 0 THEN first = nil ELSE first \in M /\ pos[first] = 0
        /\ \A m \in M : IF pos[m] = len - 1 THEN nx[m] = nil ELSE nx[m] \in M /\ pos[nx[m]] = pos[m] + 1
    BY <1>1 DEF Numbered
  <1>3. len # 0 /\ first \in M /\ pos[first] = 0 /\ pos[c] \in 0..(len - 1)
    BY <1>2
  <1>4. /\ more[n] = pos[c]
        /\ \A m \in M : /\ m # n /\ pos[m] \in 0..(len - 1)
                        /\ more[m] = IF pos[m] >= pos[c] THEN pos[m] + 1 ELSE pos[m]
    BY <1>2
  <1>5. more \in [L -> 0..(len + 1 - 1)]
    <2>1. \A m \in L : more[m] \in 0..(len + 1 - 1)
      BY <1>2, <1>3, <1>4
    <2> QED
      BY <2>1
  <1> HIDE DEF more
  <1>6. \A m, k \in L : more[m] = more[k] => m = k
    <2>1. \A m, k \in M : more[m] = more[k] => pos[m] = pos[k]
      BY <1>3, <1>4
    <2>2. \A m \in M : more[m] # pos[c]
      BY <1>3, <1>4
    <2> QED
      BY <1>2, <1>4, <2>1, <2>2
  <1>7. ASSUME NEW i \in 0..(len + 1 - 1)
        PROVE  \E m \in L : more[m] = i
    <2>1. CASE i < pos[c]
      <3>1. PICK m \in M : pos[m] = i
        BY <1>2, <1>3, <2>1
      <3> QED
        BY <1>3, <1>4, <2>1, <3>1
    <2>2. CASE i = pos[c]
      BY <1>4, <2>2
    <2>3. CASE i > pos[c]
      <3>1. i - 1 \in 0..(len - 1) /\ i - 1 >= pos[c] /\ (i - 1) + 1 = i
        BY <1>2, <1>3, <2>3
      <3>2. PICK m \in M : pos[m] = i - 1
        BY <1>2, <3>1
      <3> QED
        BY <1>4, <3>1, <3>2
    <2> QED
      BY <1>3, <2>1, <2>2, <2>3
  <1>8. head \in L /\ more[head] = 0
    <2>1. CASE first = c
      BY <1>3, <1>4, <2>1
    <2>2. CASE first # c
      <3>1. pos[c] # 0
        BY <1>2, <1>3, <2>2
      <3> QED
        BY <1>3, <1>4, <2>2, <3>1
    <2> QED
      BY <2>1, <2>2
  <1>9. ASSUME NEW m \in L
        PROVE  IF more[m] = len + 1 - 1 THEN to[m] = nil ELSE to[m] \in L /\ more[to[m]] = more[m] + 1
    <2>1. CASE m = n
      BY <1>2, <1>3, <1>4, <2>1
    <2>2. CASE m # n /\ nx[m] = c
      <3>1. pos[m] # len - 1 /\ pos[c] = pos[m] + 1 /\ to[m] = n /\ more[m] = pos[m]
        BY <1>2, <1>3, <1>4, <2>2
      <3> QED
        BY <1>2, <1>3, <1>4, <3>1
    <2>3. CASE m # n /\ nx[m] # c
      <3>1. m \in M /\ to[m] = nx[m] /\ pos[m] \in 0..(len - 1)
        BY <1>2, <2>3
      <3>2. CASE pos[m] = len - 1
        BY <1>2, <1>3, <1>4, <3>1, <3>2
      <3>3. CASE pos[m] # len - 1
        <4>1. nx[m] \in M /\ pos[nx[m]] = pos[m] + 1 /\ pos[nx[m]] # pos[c]
          BY <1>2, <2>3, <3>1, <3>3
        <4> QED
          BY <1>2, <1>3, <1>4, <3>1, <3>3, <4>1
      <3> QED
        BY <3>2, <3>3
    <2> QED
      BY <2>1, <2>2, <2>3
  <1>10. Numbered(L, more, len + 1, head, to, nil)
    <2>1. len + 1 \in Nat /\ len + 1 # 0 /\ nil \notin L
      BY <1>2
    <2> QED
      BY <1>2, <1>5, <1>6, <1>7, <1>8, <1>9, <2>1 DEF Numbered
  <1> QED
    BY <1>10 DEF IsList

(***************************************************************************)
(* Node n is put behind the last one.                                      *)
(***************************************************************************)
LEMMA PutLast ==
  ASSUME NEW M, NEW len, NEW first, NEW nx, NEW nil, IsList(M, len, first, nx, nil),
         NEW n, n \notin M, n # nil, NEW to, to[n] = nil,
         \A m \in M : nx[m] = nil => to[m] = n,
         \A m \in M : nx[m] # nil => to[m] = nx[m],
         NEW head, len = 0 => head = n, len # 0 => head = first, NEW l, l = len + 1
  PROVE  IsList(M \cup {n}, l, head, to, nil)
  <1>1. PICK pos : Numbered(M, pos, len, first, nx, nil)
    BY DEF IsList
  <1> DEFINE L == M \cup {n}
             more == [m \in L |-> IF m = n THEN len ELSE pos[m]]
  <1>2. /\ len \in Nat /\ nil \notin M /\ pos \in [M -> 0..(len - 1)]
        /\ \A m, k \in M : pos[m] = pos[k] => m = k
        /\ \A i \in 0..(len - 1) : \E m \in M : pos[m] = i
        /\ IF len = 0 THEN first = nil ELSE first \in M /\ pos[first] = 0
        /\ \A m \in M : IF pos[m] = len - 1 THEN nx[m] = nil ELSE nx[m] \in M /\ pos[nx[m]] = pos[m] + 1
    BY <1>1 DEF Numbered
  <1>3. more[n] = len /\ \A m \in M : m # n /\ pos[m] \in 0..(len - 1) /\ more[m] = pos[m]
    BY <1>2
  <1>4. more \in [L -> 0..(len + 1 - 1)]
    <2>1. \A m \in L : more[m] \in 0..(len + 1 - 1)
      BY <1>2, <1>3
    <2> QED
      BY <2>1
  <1> HIDE DEF more
  <1>5. \A m, k \in L : more[m] = more[k] => m = k
    BY <1>2, <1>3
  <1>6. \A i \in 0..(len + 1 - 1) : \E m \in L : more[m] = i
    <2>1. \A i \in 0..(len + 1 - 1) : i = len \/ i \in 0..(len - 1)
      BY <1>2
    <2> QED
      BY <1>2, <1>3, <2>1
  <1>7. head \in L /\ more[head] = 0
    BY <1>2, <1>3
  <1>8. ASSUME NEW m \in L
        PROVE  IF more[m] = len + 1 - 1 THEN to[m] = nil ELSE to[m] \in L /\ more[to[m]] = more[m] + 1
    <2>1. CASE m = n
      BY <1>2, <1>3, <2>1
    <2>2. CASE m # n /\ pos[m] = len - 1
      BY <1>2, <1>3, <2>2
    <2>3. CASE m # n /\ pos[m] # len - 1
      BY <1>2, <1>3, <2>3
    <2> QED
      BY <2>1, <2>2, <2>3
  <1>9. Numbered(L, more, len + 1, head, to, nil)
    <2>1. len + 1 \in Nat /\ len + 1 # 0 /\ nil \notin L
      BY <1>2
    <2> QED
      BY <1>2, <1>4, <1>5, <1>6, <1>7, <1>8, <2>1 DEF Numbered
  <1> QED
    BY <1>9 DEF IsList

(***************************************************************************)
(* Node n is put before the first one, if there is any.                    *)
(***************************************************************************)
LEMMA PutFirst ==
  ASSUME NEW M, NEW len, NEW first, NEW nx, NEW nil, IsList(M, len, first, nx, nil),
         NEW n, n \notin M, n # nil, NEW to, to[n] = first,
         \A m \in M : to[m] = nx[m], NEW l, l = len + 1
  PROVE  IsList(M \cup {n}, l, n, to, nil)
  <1>1. CASE len = 0
    <2>1. M = {} /\ first = nil
      BY <1>1, ListFacts
    <2> QED
      BY <1>1, <2>1, PutLast
  <1>2. CASE len # 0
    <2>1. first \in M /\ \A m \in M : nx[m] # first
      BY <1>2, ListFacts
    <2> QED
      BY <2>1, PutBefore, SMTT(30)
  <1> QED
    BY <1>1, <1>2
==============================================================================
