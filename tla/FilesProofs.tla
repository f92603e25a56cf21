---------------------------- MODULE FilesProofs ----------------------------
(***************************************************************************)
(* What is proved about the file system: that the files on the disk are    *)
(* sound whenever the power fails, that nothing is leaked between calls,   *)
(* that sizes are covered and the boot sectors kept, and that every call   *)
(* has its effect on the files at one sector, for disks and directories of *)
(* any size.                                                               *)
(***************************************************************************)
EXTENDS Fat64, Lists

FilesSpec == Fat64Init /\ [][Fat64Next]_fat64Vars

-----------------------------------------------------------------------------
(* The chains: entry e has n[e] clusters, S[e][1], S[e][2] and so on. *)

InFile(c, n, S) == \E e \in DirEntries : \E i \in 1..n[e] : S[e][i] = c

\* The tag of the i-th cluster of e.
Link(n, S, e, i) ==
  <<IF i = 1 THEN FAT64_EOF ELSE S[e][i - 1], IF i = n[e] THEN FAT64_EOF ELSE S[e][i + 1]>>

\* The bytes that k clusters have.
Bytes(k) == FAT64_CLUSTER_SIZE * k

DiskTypes ==
  /\ tags \in [Clusters -> Int \X Int]
  /\ entries \in [DirEntries -> [valid : BOOLEAN, file : Int, size : Nat]]
  /\ intact \in BOOLEAN /\ outside \in BOOLEAN /\ losses \in Nat
  /\ \A c \in Clusters \ DataClusters : tags[c] = SystemTag(c)

Chains(n, S) ==
  /\ n \in [DirEntries -> Nat] /\ S \in [DirEntries -> [Nat -> Int]]
  /\ \A e \in DirEntries : ~ entries[e].valid => n[e] = 0
  /\ \A e \in Files : /\ n[e] = 0 => entries[e].file = FAT64_EOF
                      /\ n[e] # 0 => entries[e].file = S[e][1] /\ entries[e].size <= Bytes(n[e])
  /\ \A e \in DirEntries : \A i \in 1..n[e] : S[e][i] \in DataClusters /\ tags[S[e][i]] = Link(n, S, e, i)
  /\ \A e, g \in DirEntries : \A i \in 1..n[e] : \A j \in 1..n[g] : S[e][i] = S[g][j] => e = g /\ i = j

\* Where no clusters were lost, nor the boot sectors: what is taken belongs to a file, or is in X.
Accounted(n, S, X) ==
  losses = 0 /\ intact => \A c \in DataClusters : tags[c] # FreeTag => InFile(c, n, S) \/ c \in X

-----------------------------------------------------------------------------
(* The handle: a bad one, one of a file without a cluster, or one in a chain. *)

Handles ==
  [num : Int, first : Int, size : Nat, cluster : Int, prev : Int, next : Int,
   location : Int, abs : Nat, dirty : BOOLEAN]

\* The handle f of a file without a cluster.
Placeless(f, n) ==
  /\ n[f.num] = 0
  /\ f.first = FAT64_EOF /\ f.cluster = FAT64_EOF /\ f.next = FAT64_CLUSTER_TAG_FREE
  /\ f.location \in 0..(FAT64_CLUSTER_SIZE - 1)

\* The handle f is at the i-th cluster of its file.
Placed(f, n, S, i) ==
  /\ f.first = S[f.num][1] /\ f.size <= Bytes(n[f.num])
  /\ f.cluster = S[f.num][i] /\ <<f.prev, f.next>> = Link(n, S, f.num, i)
  /\ \/ f.location \in 0..(FAT64_CLUSTER_SIZE - 1) /\ f.abs = Bytes(i - 1) + f.location
     \/ /\ i = n[f.num] /\ f.location \in {FAT64_EOF, FAT64_CLUSTER_SIZE}
        /\ f.abs = Bytes(i)

Handle(f, n, S) ==
  \/ f.cluster = 0
  \/ f.num \in Files /\ Placeless(f, n)
  \/ f.num \in Files /\ \E i \in 1..n[f.num] : Placed(f, n, S, i)

\* One byte into cluster c, which is going to be the next one of file e.
HandleAhead(f, n, S, e, c) ==
  /\ f.num = e /\ f.first = S[e][1] /\ f.size <= Bytes(n[e] + 1)
  /\ f.cluster = c /\ f.prev = S[e][n[e]] /\ f.next = FAT64_EOF
  /\ f.location = 1 /\ f.abs = Bytes(n[e]) + 1

-----------------------------------------------------------------------------
(* What a call still has to write. *)

\* The directory is full, or a file was made when the disk was.
MayRuin == Files = DirEntries \/ \E e \in Files : entries[e].file = FAT64_EOF

Entry(e, c, s) == SetEntry(e, [valid |-> TRUE, file |-> c, size |-> s])

FreeMarks == {Mark(c, FAT64_CLUSTER_TAG_FREE, FAT64_CLUSTER_TAG_FREE) : c \in Clusters}

\* Marks of clusters that no file has any more; or nothing.
Frees(n, S) ==
  /\ writes \in Seq(FreeMarks)
  /\ \A k \in 1..Len(writes) : ~ InFile(writes[k].at, n, S) /\ writes[k].at \in DataClusters
  /\ Accounted(n, S, {writes[k].at : k \in 1..Len(writes)})

RuinsBoot == writes = <<BootSectors>> /\ MayRuin

\* The entry of a new file.
AddsEntry(n, S) ==
  \E e \in DirEntries \ Files, c \in DataClusters \cup {FAT64_EOF} :
    /\ writes = <<Entry(e, c, 0)>>
    /\ c # FAT64_EOF => ~ InFile(c, n, S) /\ tags[c] = <<FAT64_EOF, FAT64_EOF>>
    /\ Accounted(n, S, {c})

\* And before it the mark of its cluster.
MarksFirst(n, S) ==
  \E c \in FreeClusters :
    /\ \/ Files = DirEntries /\ writes = <<Mark(c, FAT64_EOF, FAT64_EOF), BootSectors>>
       \/ \E e \in DirEntries \ Files : writes = <<Mark(c, FAT64_EOF, FAT64_EOF), Entry(e, c, 0)>>
    /\ Accounted(n, S, {})

\* The new size of a file.
Resizes(n, S) ==
  \E e \in Files, s \in Nat :
    /\ \/ n[e] = 0 /\ writes = <<Entry(e, FAT64_EOF, s), BootSectors>>
       \/ writes = <<Entry(e, entries[e].file, s)>>
    /\ n[e] # 0 => s <= Bytes(n[e])
    /\ Accounted(n, S, {})

\* A file is led to a new cluster c.
Extends(n, S) ==
  \E e \in Files, c \in DataClusters, s \in Nat :
    LET last == S[e][n[e]]
        lead == Mark(last, tags[last][1], c)
        entry == Entry(e, entries[e].file, s)
    IN  /\ n[e] # 0 /\ s <= Bytes(n[e] + 1) /\ HandleAhead(file, n, S, e, c)
        /\ ~ InFile(c, n, S)
        /\ \/ tags[c] = <<last, FAT64_EOF>> /\ writes = <<lead, entry>> /\ Accounted(n, S, {c})
           \/ tags[c] = FreeTag /\ writes = <<Mark(c, last, FAT64_EOF), lead, entry>> /\ Accounted(n, S, {})

\* An entry is taken out, and clusters of its file freed after it.
Removes(n, S) ==
  \E e \in Files, s \in Nat, w \in Seq(FreeMarks) :
    /\ writes = <<SetEntry(e, [valid |-> FALSE, file |-> entries[e].file, size |-> s])>> \o w
    /\ \A k \in 1..Len(w) : \E i \in 1..n[e] : w[k].at = S[e][i]
    /\ file.cluster = 0
    /\ losses = 0 => \A i \in 1..n[e] : \E k \in 1..Len(w) : w[k].at = S[e][i]
    /\ Accounted(n, S, {})

Pending(n, S) ==
  \/ /\ Handle(file, n, S)
     /\ \/ Frees(n, S)
        \/ RuinsBoot
        \/ AddsEntry(n, S)
        \/ MarksFirst(n, S)
        \/ Resizes(n, S)
        \/ Removes(n, S)
  \/ Extends(n, S)

FilesInv ==
  /\ DiskTypes /\ file \in Handles
  /\ ~ intact => writes = <<>> /\ MayRuin
  /\ \E n, S : Chains(n, S) /\ Pending(n, S)

-----------------------------------------------------------------------------
(* The disk, chains and what the searches find. *)

(***************************************************************************)
(* The numbers of the disk: FAT64_EOF is neither a cluster nor an entry,   *)
(* and cluster 0 is not of the data.                                       *)
(***************************************************************************)
LEMMA DiskFacts ==
  /\ N_CLUSTERS \in Nat /\ TAG_CLUSTERS \in Nat /\ TAG_CLUSTERS >= 1 /\ N_CLUSTERS > TAG_CLUSTERS + 1
  /\ FAT64_CLUSTER_SIZE \in Nat /\ FAT64_CLUSTER_SIZE >= 2 /\ DIR_ENTRIES \in Nat /\ DIR_ENTRIES >= 1
  /\ Clusters \subseteq Nat /\ DataClusters \subseteq Clusters /\ 0 \notin DataClusters
  /\ FAT64_EOF \notin Clusters /\ FAT64_EOF \notin DirEntries /\ DirEntries \subseteq Nat
  BY Fat64Assumption DEF Clusters, DataClusters, RootDir, DirEntries, FAT64_EOF

(***************************************************************************)
(* The clusters of the system are taken.                                   *)
(***************************************************************************)
LEMMA SystemTaken ==
  \A c \in Clusters \ DataClusters : SystemTag(c) # FreeTag /\ SystemTag(c) \in Int \X Int
  BY Fat64Assumption
    DEF Clusters, DataClusters, RootDir, SystemTag, FreeTag, FAT64_EOF, FAT64_CLUSTER_TAG_FREE

(***************************************************************************)
(* Bytes goes up with the clusters.                                        *)
(***************************************************************************)
LEMMA BytesFacts ==
  /\ \A k \in Nat : Bytes(k) \in Nat /\ Bytes(k + 1) = Bytes(k) + FAT64_CLUSTER_SIZE
  /\ Bytes(0) = 0
  /\ \A j, k \in Nat : j <= k => Bytes(j) <= Bytes(k)
  BY DiskFacts DEF Bytes

(***************************************************************************)
(* Follow finds a chain whose clusters lead on to one another down to      *)
(* FAT64_EOF, as long as it has no more clusters than the disk.            *)
(***************************************************************************)
LEMMA FollowChain ==
  ASSUME NEW m \in Nat, m <= N_CLUSTERS, NEW s, NEW c, m = 0 => c = FAT64_EOF, m # 0 => c = s[1],
         \A i \in 1..m : s[i] \in Clusters,
         \A i \in 1..m : tags[s[i]][2] = IF i = m THEN FAT64_EOF ELSE s[i + 1]
  PROVE  Follow(c) = [k \in 1..m |-> s[k]]
  <1> DEFINE L == 1..(N_CLUSTERS + 1)
             Is(h) == h = [i \in L |-> IF i = 1 THEN c ELSE NextOf[h[i - 1]]]
             At == CHOOSE h : Is(h)
             Right(i) == At[i] = IF i <= m THEN s[i] ELSE FAT64_EOF
  <1>1. N_CLUSTERS \in Nat /\ FAT64_EOF \notin Clusters
    BY DiskFacts
  <1>2. Is(At)
    <2>1. PICK g : Traversal(g, N_CLUSTERS, c, NextOf, FAT64_EOF)
      BY <1>1, TraversalExists
    <2> DEFINE f == [i \in L |-> g[i - 1]]
    <2>2. NextOf[FAT64_EOF] = FAT64_EOF
      BY DEF NextOf
    <2>3. \A i \in L : f[i] = IF i = 1 THEN c ELSE NextOf[f[i - 1]]
      BY <1>1, <2>1, <2>2 DEF Traversal
    <2>4. Is(f)
      BY <2>3
    <2> HIDE DEF Is
    <2> QED
      BY <2>4, Zenon
  <1>3. Follow(c) = [i \in {j \in L : At[j] # FAT64_EOF} |-> At[i]]
    BY DEF Follow
  <1> HIDE DEF At
  <1>4. \A i \in L : At[i] = IF i = 1 THEN c ELSE NextOf[At[i - 1]]
    BY <1>2
  <1>5. \A x \in Clusters : NextOf[x] = tags[x][2]
    BY <1>1 DEF NextOf
  <1>6. NextOf[FAT64_EOF] = FAT64_EOF
    BY DEF NextOf
  <1> DEFINE T == {j \in Nat : j + 1 \in L => Right(j + 1)}
  <1>7. T = Nat
    <2>1. 0 \in T
      BY <1>1, <1>4
    <2>2. ASSUME NEW j \in T PROVE j + 1 \in T
      <3>1. SUFFICES ASSUME j + 2 \in L PROVE Right(j + 2)
        OBVIOUS
      <3>2. Right(j + 1)
        BY <1>1, <3>1
      <3>3. At[j + 2] = NextOf[At[j + 1]]
        BY <1>1, <1>4, <3>1
      <3>4. CASE j + 1 <= m
        BY <1>5, <3>2, <3>3, <3>4
      <3>5. CASE ~ (j + 1 <= m)
        BY <1>6, <3>2, <3>3, <3>5
      <3> QED
        BY <3>4, <3>5
    <2>3. T \in SUBSET Nat
      OBVIOUS
    <2> HIDE DEF T
    <2> QED
      BY <2>1, <2>2, <2>3, SetInduction
  <1>8. \A i \in L : Right(i)
    <2>1. TAKE i \in L
    <2>2. i - 1 \in Nat /\ (i - 1) + 1 = i
      BY <1>1
    <2>3. i - 1 \in T
      BY <1>7, <2>2
    <2> QED
      BY <2>2, <2>3
  <1>9. {j \in L : At[j] # FAT64_EOF} = 1..m
    BY <1>1, <1>8
  <1> QED
    BY <1>1, <1>3, <1>8, <1>9

(***************************************************************************)
(* Injective sequences in Clusters                                         *)
(***************************************************************************)
LEMMA ChainFits ==
  ASSUME NEW m \in Nat, NEW s, \A i \in 1..m : s[i] \in Clusters,
         \A i, j \in 1..m : s[i] = s[j] => i = j
  PROVE  m <= N_CLUSTERS
  <1> DEFINE f == [i \in 1..m |-> s[i]]
  <1>1. IsFiniteSet(Clusters) /\ Cardinality(Clusters) = N_CLUSTERS
    BY DiskFacts, FS_Interval DEF Clusters
  <1>2. IsFiniteSet(1..m) /\ Cardinality(1..m) = m
    BY FS_Interval
  <1>3. f \in [1..m -> Clusters] /\ \A i, j \in 1..m : f[i] = f[j] => i = j
    OBVIOUS
  <1>4. N_CLUSTERS \in Nat
    BY DiskFacts
  <1> HIDE DEF f
  <1>5. ~ (Cardinality(Clusters) < Cardinality(1..m))
    BY <1>1, <1>2, <1>3, FS_PigeonHole
  <1> QED
    BY <1>1, <1>2, <1>4, <1>5

(***************************************************************************)
(* get_free_cluster finds a free cluster where there is one.               *)
(***************************************************************************)
LEMMA FirstFreeFacts ==
  /\ FirstFree \in FreeClusters \cup {FAT64_EOF}
  <1>1. CASE FreeClusters = {}
    BY <1>1 DEF FirstFree
  <1>2. CASE FreeClusters # {}
    <2>1. FreeClusters \in SUBSET Nat
      BY DiskFacts DEF FreeClusters
    <2>2. \E c \in FreeClusters : \A b \in FreeClusters : c <= b
      BY <1>2, <2>1, LeastOf
    <2> QED
      BY <1>2, <2>2 DEF FirstFree
  <1> QED
    BY <1>1, <1>2

(***************************************************************************)
(* get_free_dir_entry finds a free entry unless the directory is full.     *)
(***************************************************************************)
LEMMA FreeDirEntryFacts ==
  /\ FreeDirEntry \in (DirEntries \ Files) \cup {FAT64_EOF}
  /\ FreeDirEntry = FAT64_EOF <=> Files = DirEntries
  <1> DEFINE free == {e \in DirEntries : ~ entries[e].valid}
  <1>1. FreeDirEntry = IF free = {} THEN FAT64_EOF ELSE CHOOSE e \in free : \A g \in free : e <= g
    BY DEF FreeDirEntry
  <1>2. free = DirEntries \ Files
    BY DEF Files
  <1>3. free \in SUBSET Nat /\ FAT64_EOF \notin free
    BY DiskFacts
  <1> HIDE DEF free
  <1>4. CASE free = {}
    BY <1>1, <1>2, <1>4 DEF Files
  <1>5. CASE free # {}
    <2>1. \E e \in free : \A g \in free : e <= g
      BY <1>3, <1>5, LeastOf
    <2> QED
      BY <1>1, <1>2, <1>3, <1>5, <2>1
  <1> QED
    BY <1>4, <1>5

-----------------------------------------------------------------------------
(* Handles, and the disk that a call leaves alone. *)

Fields(f, s, c, p, x, l, a, d) ==
  [num |-> f.num, first |-> f.first, size |-> s, cluster |-> c, prev |-> p, next |-> x,
   location |-> l, abs |-> a, dirty |-> d]
(***************************************************************************)
(* A handle is its fields: what the updates of fat64_getc and fat64_putc   *)
(* make of them.                                                           *)
(***************************************************************************)
LEMMA AllFields ==
  ASSUME NEW f \in Handles
  PROVE  f = Fields(f, f.size, f.cluster, f.prev, f.next, f.location, f.abs, f.dirty)
  BY DEF Handles, Fields

(***************************************************************************)
(* A byte further.                                                         *)
(***************************************************************************)
LEMMA AddOne ==
  ASSUME NEW f \in Handles, NEW g, g = [f EXCEPT !.location = @ + 1, !.abs = @ + 1]
  PROVE  g = Fields(f, f.size, f.cluster, f.prev, f.next, f.location + 1, f.abs + 1, f.dirty)
  BY DEF Handles, Fields

(***************************************************************************)
(* At the first byte of the next cluster.                                  *)
(***************************************************************************)
LEMMA NextFields ==
  ASSUME NEW f \in Handles, NEW g, NEW t \in Int \X Int,
         g = [OpenCluster(Saved(f), f.next, t) EXCEPT !.location = 0]
  PROVE  g = Fields(f, f.size, f.next, t[1], t[2], 0, f.abs, FALSE)
  BY DEF Handles, Fields, OpenCluster, Saved

(***************************************************************************)
(* Behind the last byte.                                                   *)
(***************************************************************************)
LEMMA EndFields ==
  ASSUME NEW f \in Handles, NEW g, NEW e, g = [Saved(f) EXCEPT !.location = e]
  PROVE  g = Fields(f, f.size, f.cluster, f.prev, f.next, e, f.abs, FALSE)
  BY DEF Handles, Fields, OpenCluster, Saved

(***************************************************************************)
(* Where nothing is left to write, the handle is in the chain of its file  *)
(* and nothing is leaked.                                                  *)
(***************************************************************************)
LEMMA AtRest ==
  ASSUME NEW n, NEW S, Pending(n, S), writes = <<>>
  PROVE  Handle(file, n, S) /\ Accounted(n, S, {})
  <1>1. CASE Frees(n, S)
    <2>1. {writes[k].at : k \in 1..Len(writes)} = {}
      OBVIOUS
    <2>2. CASE Handle(file, n, S)
      BY <1>1, <2>1, <2>2 DEF Frees
    <2>3. CASE ~ Handle(file, n, S)
      <3>1. Extends(n, S)
        BY <2>3 DEF Pending
      <3> QED
        BY <3>1 DEF Extends
    <2> QED
      BY <2>2, <2>3
  <1>2. CASE ~ Frees(n, S)
    <2>1. ~ RuinsBoot /\ ~ AddsEntry(n, S) /\ ~ MarksFirst(n, S) /\ ~ Resizes(n, S) /\ ~ Extends(n, S)
      BY DEF RuinsBoot, AddsEntry, MarksFirst, Resizes, Extends
    <2>2. ~ Removes(n, S)
      <3> SUFFICES ASSUME Removes(n, S) PROVE FALSE
        OBVIOUS
      <3>1. PICK w \in Seq(FreeMarks) : \E x : writes = <<x>> \o w
        BY DEF Removes
      <3>2. \A x : Len(<<x>> \o w) = 1 + Len(w) /\ Len(w) \in Nat
        OBVIOUS
      <3>3. Len(writes) = 0
        OBVIOUS
      <3> QED
        BY <3>1, <3>2, <3>3
    <2> QED
      BY <1>2, <2>1, <2>2 DEF Pending
  <1> QED
    BY <1>1, <1>2

(***************************************************************************)
(* As long as the disk stays the same, so do the chains of its files.      *)
(***************************************************************************)
LEMMA SameChains ==
  ASSUME NEW n, NEW S, Chains(n, S), UNCHANGED diskVars
  PROVE  Chains(n, S)' /\ Files' = Files
  BY DEF Chains, Files, diskVars, Link

(***************************************************************************)
(* As long as the disk stays the same, its types do.                       *)
(***************************************************************************)
LEMMA SameTypes ==
  ASSUME DiskTypes, UNCHANGED diskVars, outside' \in BOOLEAN, losses' \in Nat
  PROVE  DiskTypes'
  BY DEF DiskTypes, diskVars

(***************************************************************************)
(* With nothing to write, what is taken is in the files.                   *)
(***************************************************************************)
LEMMA NothingPending ==
  ASSUME NEW n, NEW S, Accounted(n, S, {})', writes' = <<>>
  PROVE  Frees(n, S)'
  <1>1. {writes'[k].at : k \in 1..Len(writes')} = {}
    OBVIOUS
  <1>2. writes' \in Seq(FreeMarks)
    OBVIOUS
  <1> QED
    BY <1>1, <1>2 DEF Frees

(***************************************************************************)
(* A bad handle goes with every disk.                                      *)
(***************************************************************************)
LEMMA BadHandleFits == BadHandle \in Handles /\ \A n, S : Handle(BadHandle, n, S) /\ Handle(BadHandle, n, S)'
  BY DEF BadHandle, Handles, Handle

(***************************************************************************)
(* Within a cluster the absolute place of a handle is the bytes before the *)
(* cluster and its location.                                               *)
(***************************************************************************)
LEMMA AbsPlace ==
  ASSUME NEW f \in Handles, NEW n, NEW S, NEW i \in Nat, Placed(f, n, S, i),
         f.location \in 0..(FAT64_CLUSTER_SIZE - 1)
  PROVE f.abs = Bytes(i - 1) + f.location
  BY DiskFacts DEF Placed, FAT64_EOF

(***************************************************************************)
(* A byte further, fat64_getc and fat64_putc leave the handle in the chain *)
(* of its file.                                                            *)
(***************************************************************************)
LEMMA ByteOnFits ==
  ASSUME NEW n, NEW S, DiskTypes, Chains(n, S), NEW f \in Handles, Handle(f, n, S),
         f.cluster # 0, f.location \in 0..(FAT64_CLUSTER_SIZE - 1),
         NEW atEnd \in {FAT64_EOF, FAT64_CLUSTER_SIZE}
  PROVE  ByteOn(f, atEnd) \in Handles /\ Handle(ByteOn(f, atEnd), n, S)
  <1> DEFINE g == [f EXCEPT !.location = @ + 1, !.abs = @ + 1]
             h == ByteOn(f, atEnd)
  <1>1. /\ g \in Handles /\ g.num = f.num /\ g.first = f.first /\ g.size = f.size /\ g.cluster = f.cluster
        /\ g.prev = f.prev /\ g.next = f.next /\ g.location = f.location + 1 /\ g.abs = f.abs + 1
    <2>1. f.size \in Nat /\ f.cluster \in Int /\ f.prev \in Int /\ f.next \in Int /\ f.location + 1 \in Int
          /\ f.abs + 1 \in Nat /\ f.dirty \in BOOLEAN
      BY DEF Handles
    <2>2. g = Fields(f, f.size, f.cluster, f.prev, f.next, f.location + 1, f.abs + 1, f.dirty)
      BY AddOne
    <2> HIDE DEF g
    <2> QED
      BY <2>1, <2>2 DEF Handles, Fields
  <1>2. FAT64_CLUSTER_SIZE \in Nat /\ FAT64_CLUSTER_SIZE >= 2
    BY DiskFacts
  <1>3. CASE f.location + 1 < FAT64_CLUSTER_SIZE
    <2>1. h = g
      BY <1>1, <1>3 DEF ByteOn
    <2> HIDE DEF g, h
    <2>2. CASE f.num \in Files /\ Placeless(f, n)
      <3>1. Placeless(g, n)
        BY <1>1, <1>2, <1>3, <2>2 DEF Placeless
      <3> QED
        BY <1>1, <2>1, <2>2, <3>1 DEF Handle, h
    <2>3. CASE f.num \in Files /\ \E i \in 1..n[f.num] : Placed(f, n, S, i)
      <3>1. PICK i \in 1..n[f.num] : Placed(f, n, S, i)
        BY <2>3
      <3>2. n[f.num] \in Nat /\ i \in Nat /\ i >= 1 /\ i - 1 \in Nat
        BY <2>3 DEF Chains, Files
      <3>3. f.abs = Bytes(i - 1) + f.location /\ Bytes(i - 1) \in Nat
        BY <3>1, <3>2, AbsPlace, BytesFacts
      <3>4. Placed(g, n, S, i)
        BY <1>1, <1>2, <1>3, <3>1, <3>2, <3>3 DEF Placed
      <3> QED
        BY <1>1, <2>1, <2>3, <3>4 DEF Handle, h
    <2> QED
      BY <2>2, <2>3 DEF Handle
  <1>4. CASE ~ (f.location + 1 < FAT64_CLUSTER_SIZE)
    <2>1. f.location + 1 = FAT64_CLUSTER_SIZE
      BY <1>2, <1>4
    <2>2. CASE f.next = FAT64_EOF
      <3>1. /\ h \in Handles /\ h.num = f.num /\ h.first = f.first /\ h.size = f.size /\ h.cluster = f.cluster
            /\ h.prev = f.prev /\ h.next = f.next /\ h.location = atEnd /\ h.abs = f.abs + 1
        <4>1. h = [Saved(g) EXCEPT !.location = atEnd]
          BY <1>1, <1>2, <1>4, <2>2 DEF ByteOn
        <4>2. atEnd \in Int /\ FALSE \in BOOLEAN
          BY <1>2 DEF FAT64_EOF
        <4> HIDE DEF g, h
        <4>3. h = Fields(g, g.size, g.cluster, g.prev, g.next, atEnd, g.abs, FALSE)
          BY <1>1, <4>1, EndFields
        <4>4. g.size \in Nat /\ g.cluster \in Int /\ g.prev \in Int /\ g.next \in Int /\ g.abs \in Nat
          BY <1>1 DEF Handles
        <4> QED
          BY <1>1, <4>2, <4>3, <4>4 DEF Handles, Fields
      <3> HIDE DEF g, h
      <3>2. f.num \in Files /\ ~ Placeless(f, n) 
        BY <2>2 DEF Handle, Placeless, FAT64_EOF, FAT64_CLUSTER_TAG_FREE
      <3>3. PICK i \in 1..n[f.num] : Placed(f, n, S, i)
        BY <3>2 DEF Handle
      <3>4. n[f.num] \in Nat /\ i \in Nat /\ i >= 1 /\ i - 1 \in Nat /\ f.num \in DirEntries
        BY <3>2 DEF Chains, Files
      <3>5. i = n[f.num]
        <4>1. f.next = Link(n, S, f.num, i)[2]
          BY <3>3 DEF Placed, Link
        <4>2. i # n[f.num] => S[f.num][i + 1] \in DataClusters
          BY <3>4 DEF Chains
        <4> QED
          BY <2>2, <4>1, <4>2, DiskFacts DEF Link
      <3>6. /\ f.abs = Bytes(i - 1) + f.location /\ Bytes(i - 1) \in Nat
             /\ Bytes((i - 1) + 1) = Bytes(i - 1) + FAT64_CLUSTER_SIZE
        BY <3>3, <3>4, AbsPlace, BytesFacts
      <3>7. (i - 1) + 1 = i
        BY <3>4
      <3>8. f.abs + 1 = Bytes(i)
        BY <1>2, <2>1, <3>6, <3>7
      <3>9. Placed(h, n, S, i)
        BY <3>1, <3>3, <3>5, <3>8 DEF Placed
      <3> QED
        BY <3>1, <3>2, <3>9 DEF Handle, h
    <2>3. CASE f.next # FAT64_EOF
      <3> DEFINE t == TagOf(f.next)
      <3>1. t \in Int \X Int
        BY DEF TagOf, DiskTypes, FreeTag, FAT64_CLUSTER_TAG_FREE
      <3>2. /\ h \in Handles /\ h.num = f.num /\ h.first = f.first /\ h.size = f.size /\ h.cluster = f.next
            /\ h.prev = t[1] /\ h.next = t[2] /\ h.location = 0 /\ h.abs = f.abs + 1
        <4> HIDE DEF t
        <4>1. h = [OpenCluster(Saved(g), g.next, t) EXCEPT !.location = 0]
          BY <1>1, <1>2, <1>4, <2>3 DEF ByteOn, t
        <4> HIDE DEF g, h
        <4>2. h = Fields(g, g.size, g.next, t[1], t[2], 0, g.abs, FALSE)
          BY <1>1, <3>1, <4>1, NextFields
        <4>3. g.size \in Nat /\ g.next \in Int /\ t[1] \in Int /\ t[2] \in Int /\ g.abs \in Nat
          BY <1>1, <3>1 DEF Handles
        <4>4. 0 \in Int /\ FALSE \in BOOLEAN
          OBVIOUS
        <4> QED
          BY <1>1, <4>2, <4>3, <4>4 DEF Handles, Fields
      <3> HIDE DEF g, h
      <3>3. CASE Placeless(f, n)
        <4>1. h.cluster = 0
          BY <3>2, <3>3 DEF Placeless, FAT64_CLUSTER_TAG_FREE
        <4> QED
          BY <3>2, <4>1 DEF Handle, h
      <3>4. CASE f.num \in Files /\ \E i \in 1..n[f.num] : Placed(f, n, S, i)
        <4>1. PICK i \in 1..n[f.num] : Placed(f, n, S, i)
          BY <3>4
        <4>2. n[f.num] \in Nat /\ i \in Nat /\ i >= 1 /\ i - 1 \in Nat /\ f.num \in DirEntries
          BY <3>4 DEF Chains, Files
        <4>3. f.next = Link(n, S, f.num, i)[2]
          BY <4>1 DEF Placed, Link
        <4>4. i # n[f.num] /\ f.next = S[f.num][i + 1]
          BY <2>3, <4>3 DEF Link
        <4>5. i + 1 \in 1..n[f.num]
          BY <4>2, <4>4
        <4>6. f.next \in DataClusters /\ t = Link(n, S, f.num, i + 1)
          <5>1. S[f.num][i + 1] \in DataClusters /\ tags[S[f.num][i + 1]] = Link(n, S, f.num, i + 1)
            BY <4>2, <4>5 DEF Chains
          <5> QED
            BY <4>4, <5>1, DiskFacts DEF TagOf
        <4>7. /\ f.abs = Bytes(i - 1) + f.location /\ Bytes(i - 1) \in Nat
               /\ Bytes((i - 1) + 1) = Bytes(i - 1) + FAT64_CLUSTER_SIZE
          BY <4>1, <4>2, AbsPlace, BytesFacts
        <4>8. (i - 1) + 1 = i /\ (i + 1) - 1 = i
          BY <4>2
        <4>9. f.abs + 1 = Bytes((i + 1) - 1) + 0
          BY <1>2, <2>1, <4>7, <4>8
        <4>10. <<h.prev, h.next>> = Link(n, S, f.num, i + 1)
          BY <3>2, <4>6 DEF Link
        <4>11. Placed(h, n, S, i + 1)
          BY <1>2, <3>2, <4>1, <4>4, <4>9, <4>10 DEF Placed
        <4> QED
          BY <3>2, <3>4, <4>5, <4>11 DEF Handle, h
      <3> QED
        BY <3>3, <3>4 DEF Handle
    <2> QED
      BY <2>2, <2>3
  <1> QED
    BY <1>3, <1>4

-----------------------------------------------------------------------------
(* The calls on an open file: getc, flush and close. *)

\* What is known between two calls.
Resting(n, S) == Chains(n, S) /\ Handle(file, n, S) /\ Accounted(n, S, {})

(***************************************************************************)
(* Between two calls of the program nothing is pending.                    *)
(***************************************************************************)
LEMMA AtRestInv ==
  ASSUME FilesInv, BetweenCalls
  PROVE  DiskTypes /\ file \in Handles /\ \E n, S : Resting(n, S)
  <1>1. PICK n, S : Chains(n, S) /\ Pending(n, S)
    BY DEF FilesInv
  <1>2. Handle(file, n, S) /\ Accounted(n, S, {})
    BY <1>1, AtRest DEF BetweenCalls
  <1> QED
    BY <1>1, <1>2 DEF FilesInv, Resting

(***************************************************************************)
(* A call leaves the disk alone until its first sector is written.         *)
(***************************************************************************)
LEMMA CallKeeps ==
  ASSUME DiskTypes, BetweenCalls, UNCHANGED diskVars, file' \in Handles, outside' \in BOOLEAN,
         losses' \in Nat,
         NEW n, NEW S, Chains(n, S), Pending(n, S)'
  PROVE  FilesInv'
  <1>1. DiskTypes' /\ Chains(n, S)'
    BY SameTypes, SameChains
  <1>2. intact'
    BY DEF BetweenCalls, diskVars
  <1> QED
    BY <1>1, <1>2 DEF FilesInv

(***************************************************************************)
(* A handle says the same of the same files.                               *)
(***************************************************************************)
LEMMA SameHandle ==
  ASSUME NEW n, NEW S, Files' = Files, Handle(file', n, S)
  PROVE  Handle(file, n, S)'
  BY DEF Handle, Placeless, Placed, Link

(***************************************************************************)
(* What is taken on a disk that stays the same is still accounted for.     *)
(***************************************************************************)
LEMMA SameAccounts ==
  ASSUME NEW n, NEW S, UNCHANGED diskVars, Accounted(n, S, {}), losses' = 0 => losses = 0
  PROVE  Accounted(n, S, {})'
  BY DEF Accounted, InFile, diskVars

(***************************************************************************)
(* save_cluster reaches the boot sectors only from a file that was made on *)
(* a full disk.                                                            *)
(***************************************************************************)
LEMMA Saving ==
  ASSUME NEW n, NEW S, Chains(n, S), NEW f \in Handles, Handle(f, n, S)
  PROVE  SaveWrites(f) = <<>> \/ (SaveWrites(f) = <<BootSectors>> /\ MayRuin)
  <1>1. CASE f.cluster # FAT64_EOF
    BY <1>1 DEF SaveWrites
  <1>2. CASE f.cluster = FAT64_EOF
    <2>1. f.cluster # 0
      BY <1>2 DEF FAT64_EOF
    <2>2. f.num \in Files
      BY <2>1 DEF Handle
    <2>3. f.num \in DirEntries /\ n[f.num] \in Nat
      BY <2>2 DEF Files, Chains
    <2>4. \A i \in 1..n[f.num] : S[f.num][i] # FAT64_EOF
      <3>1. \A i \in 1..n[f.num] : S[f.num][i] \in DataClusters
        BY <2>3 DEF Chains
      <3> QED
        BY <3>1, DiskFacts
    <2>5. n[f.num] = 0
      BY <1>2, <2>1, <2>4 DEF Handle, Placeless, Placed
    <2>6. entries[f.num].file = FAT64_EOF
      BY <2>2, <2>5 DEF Chains
    <2> QED
      BY <2>2, <2>6 DEF MayRuin, SaveWrites
  <1> QED
    BY <1>1, <1>2

(***************************************************************************)
(* A call that has at most the cluster of the handle to save keeps the     *)
(* invariant.                                                              *)
(***************************************************************************)
LEMMA SavesOnly ==
  ASSUME DiskTypes, BetweenCalls, NEW n, NEW S, Resting(n, S),
         UNCHANGED <<diskVars, outside, losses>>,
         file' \in Handles, Handle(file', n, S), writes' = <<>>
           \/ writes' = SaveWrites(file), file \in Handles
  PROVE  FilesInv'
  <1>1. losses \in Nat /\ outside \in BOOLEAN /\ UNCHANGED <<diskVars, losses>>
    BY DEF DiskTypes
  <1>2. Handle(file, n, S)' /\ Accounted(n, S, {})'
    BY <1>1, SameHandle, SameChains, SameAccounts DEF Resting
  <1>3. MayRuin' <=> MayRuin
    BY DEF MayRuin, Files, diskVars
  <1>4. Pending(n, S)'
    <2>1. CASE writes' = <<>>
      BY <1>2, <2>1, NothingPending DEF Pending
    <2>2. CASE writes' = <<BootSectors>> /\ MayRuin
      BY <1>2, <1>3, <2>2 DEF Pending, RuinsBoot
    <2> QED
      BY <2>1, <2>2, Saving DEF Resting
  <1> QED
    BY <1>1, <1>4, CallKeeps DEF Resting

(***************************************************************************)
(* fat64_getc                                                              *)
(***************************************************************************)
LEMMA GetcInv == ASSUME FilesInv, Getc PROVE FilesInv'
  <1>1. BetweenCalls /\ UNCHANGED <<diskVars, outside, losses>>
    BY DEF Getc
  <1>2. DiskTypes /\ file \in Handles
    BY <1>1, AtRestInv
  <1>3. PICK n, S : Resting(n, S)
    BY <1>1, AtRestInv
  <1>4. file' = ByteOn(file, FAT64_CLUSTER_SIZE) /\ file.cluster # 0
          /\ file.location \in 0..(FAT64_CLUSTER_SIZE - 1)
    BY DEF Getc
  <1>5. file' \in Handles /\ Handle(file', n, S)
    BY <1>2, <1>3, <1>4, ByteOnFits DEF Resting
  <1>6. writes' = <<>> \/ writes' = SaveWrites(file)
    BY DEF Getc
  <1> QED
    BY <1>1, <1>2, <1>3, <1>5, <1>6, SavesOnly

(***************************************************************************)
(* fat64_getc or fat64_putc behind the buffer of the handle.               *)
(***************************************************************************)
LEMMA RunsOutsideInv == ASSUME FilesInv, RunsOutside PROVE FilesInv'
  <1>1. BetweenCalls /\ UNCHANGED <<diskVars, losses, writes, file>> /\ outside' = TRUE
    BY DEF RunsOutside
  <1>2. DiskTypes /\ file \in Handles
    BY <1>1, AtRestInv
  <1>3. PICK n, S : Resting(n, S)
    BY <1>1, AtRestInv
  <1>4. Handle(file, n, S)' /\ Accounted(n, S, {})' /\ writes' = <<>>
    BY <1>1, <1>3, SameHandle, SameChains, SameAccounts DEF Resting, BetweenCalls
  <1>5. Pending(n, S)'
    BY <1>4, NothingPending DEF Pending
  <1>6. losses' \in Nat /\ outside' \in BOOLEAN /\ file' \in Handles /\ UNCHANGED diskVars
    BY <1>1, <1>2 DEF DiskTypes
  <1> QED
    BY <1>1, <1>2, <1>3, <1>5, <1>6, CallKeeps DEF Resting

(***************************************************************************)
(* fat64_flush                                                             *)
(***************************************************************************)
LEMMA FlushInv == ASSUME FilesInv, Flush PROVE FilesInv'
  <1>1. BetweenCalls /\ UNCHANGED <<diskVars, outside, losses>>
    BY DEF Flush
  <1>2. DiskTypes /\ file \in Handles
    BY <1>1, AtRestInv
  <1>3. PICK n, S : Resting(n, S)
    BY <1>1, AtRestInv
  <1>4. file' = Fields(file, file.size, file.cluster, file.prev, file.next, file.location, file.abs, FALSE)
    BY <1>2 DEF Flush, Saved, Handles, Fields
  <1>5. file' \in Handles /\ Handle(file', n, S)
    <2>1. /\ file' \in Handles /\ file'.num = file.num /\ file'.first = file.first /\ file'.size = file.size
          /\ file'.cluster = file.cluster /\ file'.prev = file.prev /\ file'.next = file.next
          /\ file'.location = file.location /\ file'.abs = file.abs
      BY <1>2, <1>4 DEF Handles, Fields
    <2> QED
      BY <1>3, <2>1 DEF Resting, Handle, Placeless, Placed
  <1>6. writes' = <<>> \/ writes' = SaveWrites(file)
    BY DEF Flush
  <1> QED
    BY <1>1, <1>2, <1>3, <1>5, <1>6, SavesOnly

(***************************************************************************)
(* fat64_close                                                             *)
(***************************************************************************)
LEMMA CloseInv == ASSUME FilesInv, Close PROVE FilesInv'
  <1>1. BetweenCalls /\ UNCHANGED <<diskVars, outside, losses>>
    BY DEF Close
  <1>2. DiskTypes /\ file \in Handles
    BY <1>1, AtRestInv
  <1>3. PICK n, S : Resting(n, S)
    BY <1>1, AtRestInv
  <1>4. file' \in Handles /\ Handle(file', n, S)
    BY BadHandleFits DEF Close
  <1>5. writes' = <<>> \/ writes' = SaveWrites(file)
    BY DEF Close
  <1> QED
    BY <1>1, <1>2, <1>3, <1>4, <1>5, SavesOnly

-----------------------------------------------------------------------------
(* The calls on the directory: open and touch; and the power that fails. *)

(***************************************************************************)
(* What the pieces of a call's writes are, put together.                   *)
(***************************************************************************)
LEMMA Joins ==
  /\ \A x, y : <<x>> \o <<y>> = <<x, y>>
  /\ \A x, y, z : <<x, y>> \o <<z>> = <<x, y, z>>
  /\ \A x : <<x>> \o <<>> = <<x>> /\ <<>> \o <<x>> = <<x>>
  /\ <<>> \o <<>> = <<>>
  <1>1. ASSUME NEW x, NEW y PROVE <<x>> \o <<y>> = <<x, y>>
    <2> DEFINE s == <<x>> \o <<y>>
               t == <<x, y>>
    <2>1. s \in Seq({x, y}) /\ t \in Seq({x, y}) /\ Len(s) = 2 /\ Len(t) = 2
      OBVIOUS
    <2>2. s[1] = x /\ s[2] = y /\ t[1] = x /\ t[2] = y
      OBVIOUS
    <2> HIDE DEF s, t
    <2>3. \A i \in 1..2 : s[i] = t[i]
      BY <2>2
    <2>4. s = t
      BY <2>1, <2>3, SameSeq
    <2> QED
      BY <2>4 DEF s, t
  <1>2. ASSUME NEW x, NEW y, NEW z PROVE <<x, y>> \o <<z>> = <<x, y, z>>
    <2> DEFINE s == <<x, y>> \o <<z>>
               t == <<x, y, z>>
    <2>1. s \in Seq({x, y, z}) /\ t \in Seq({x, y, z}) /\ Len(s) = 3 /\ Len(t) = 3
      OBVIOUS
    <2>2. s[1] = x /\ s[2] = y /\ s[3] = z /\ t[1] = x /\ t[2] = y /\ t[3] = z
      OBVIOUS
    <2> HIDE DEF s, t
    <2>3. \A i \in 1..3 : s[i] = t[i]
      BY <2>2
    <2>4. s = t
      BY <2>1, <2>3, SameSeq
    <2> QED
      BY <2>4 DEF s, t
  <1>3. ASSUME NEW x PROVE <<x>> \o <<>> = <<x>>
    OBVIOUS
  <1>4. ASSUME NEW x PROVE <<>> \o <<x>> = <<x>>
    OBVIOUS
  <1>5. <<>> \o <<>> = <<>>
    OBVIOUS
  <1> QED
    BY <1>1, <1>2, <1>3, <1>4, <1>5

(***************************************************************************)
(* fat64_dir_entry puts the handle at the first cluster of the file, or at *)
(* none.                                                                   *)
(***************************************************************************)
LEMMA OpenEntryInv == ASSUME FilesInv, NEW e \in DirEntries, OpenEntry(e) PROVE FilesInv'
  <1>1. BetweenCalls /\ UNCHANGED <<diskVars, outside, losses, writes>> /\ e \in Files
    BY DEF OpenEntry, Files
  <1>2. DiskTypes /\ file \in Handles
    BY <1>1, AtRestInv
  <1>3. PICK n, S : Resting(n, S)
    BY <1>1, AtRestInv
  <1> DEFINE c == entries[e].file
             t == TagOf(c)
  <1>4. c \in Int /\ entries[e].size \in Nat /\ e \in Int
    BY <1>2, DiskFacts DEF DiskTypes
  <1>5. t \in Int \X Int
    BY <1>2 DEF TagOf, DiskTypes, FreeTag, FAT64_CLUSTER_TAG_FREE
  <1>6. file' = [num |-> e, first |-> c, size |-> entries[e].size, cluster |-> c, prev |-> t[1], next |-> t[2],
                 location |-> 0, abs |-> 0, dirty |-> FALSE]
    BY DEF OpenEntry, OpenCluster, BadHandle
  <1> HIDE DEF t
  <1>7. file' \in Handles
    BY <1>4, <1>5, <1>6 DEF Handles
  <1>8. Handle(file', n, S)
    <2>1. n[e] \in Nat /\ FAT64_CLUSTER_SIZE - 1 \in Nat
      BY <1>3, DiskFacts DEF Resting, Chains
    <2>2. CASE n[e] = 0
      <3>1. c = FAT64_EOF
        BY <1>1, <1>3, <2>2 DEF Resting, Chains
      <3>2. t = FreeTag
        BY <3>1, DiskFacts DEF TagOf, t
      <3>3. Placeless(file', n)
        BY <1>6, <2>1, <2>2, <3>1, <3>2 DEF Placeless, FreeTag
      <3> QED
        BY <1>1, <1>6, <3>3 DEF Handle
    <2>3. CASE n[e] # 0
      <3>1. c = S[e][1] /\ entries[e].size <= Bytes(n[e]) /\ 1 \in 1..n[e]
        BY <1>1, <1>3, <2>1, <2>3 DEF Resting, Chains
      <3>2. S[e][1] \in DataClusters /\ tags[S[e][1]] = Link(n, S, e, 1)
        BY <1>3, <3>1 DEF Resting, Chains
      <3>3. t = Link(n, S, e, 1)
        BY <3>1, <3>2, DiskFacts DEF TagOf, t
      <3>4. Bytes(1 - 1) + 0 = 0
        BY BytesFacts
      <3>5. <<t[1], t[2]>> = Link(n, S, e, 1)
        BY <3>3 DEF Link
      <3>6. Placed(file', n, S, 1)
        BY <1>6, <2>1, <3>1, <3>4, <3>5 DEF Placed
      <3> QED
        BY <1>1, <1>6, <3>1, <3>6 DEF Handle
    <2> QED
      BY <2>2, <2>3
  <1>9. writes' = <<>>
    BY <1>1 DEF BetweenCalls
  <1> QED
    BY <1>1, <1>2, <1>3, <1>7, <1>8, <1>9, SavesOnly

(***************************************************************************)
(* fat64_touch: the mark of the new cluster, if one is free, and the       *)
(* entry, if one is.                                                       *)
(***************************************************************************)
LEMMA TouchInv == ASSUME FilesInv, Touch PROVE FilesInv'
  <1>1. BetweenCalls /\ UNCHANGED <<diskVars, outside, losses, file>>
    BY DEF Touch
  <1>2. DiskTypes /\ file \in Handles
    BY <1>1, AtRestInv
  <1>3. PICK n, S : Resting(n, S)
    BY <1>1, AtRestInv
  <1>4. Handle(file, n, S)' /\ Accounted(n, S, {})' /\ Chains(n, S)'
    BY <1>1, <1>3, SameHandle, SameAccounts, SameChains DEF Resting
  <1> DEFINE e == FreeDirEntry
             c == FirstFree
  <1>5. writes' = TouchWrites(e, c) /\ Files' = Files /\ FreeClusters' = FreeClusters
    BY <1>1 DEF Touch, Files, diskVars, FreeClusters
  <1>6. e \in (DirEntries \ Files) \cup {FAT64_EOF} /\ (e = FAT64_EOF <=> Files = DirEntries)
    BY FreeDirEntryFacts
  <1>7. c \in FreeClusters \cup {FAT64_EOF}
    BY FirstFreeFacts
  <1> HIDE DEF e, c
  <1>8. Pending(n, S)'
    <2>1. CASE c = FAT64_EOF /\ e = FAT64_EOF
      <3>1. writes' = <<BootSectors>>
        BY <1>5, <2>1 DEF TouchWrites
      <3>2. MayRuin'
        BY <1>5, <1>6, <2>1 DEF MayRuin
      <3> QED
        BY <1>4, <3>1, <3>2 DEF Pending, RuinsBoot
    <2>2. CASE c = FAT64_EOF /\ e # FAT64_EOF
      <3>1. writes' = <<Entry(e, FAT64_EOF, 0)>>
        BY <1>5, <2>2 DEF TouchWrites, Entry
      <3>2. Accounted(n, S, {FAT64_EOF})'
        BY <1>4 DEF Accounted
      <3>3. AddsEntry(n, S)'
        BY <1>5, <1>6, <2>2, <3>1, <3>2 DEF AddsEntry
      <3> QED
        BY <1>4, <3>3 DEF Pending
    <2>3. CASE c # FAT64_EOF /\ e = FAT64_EOF
      <3>1. writes' = <<Mark(c, FAT64_EOF, FAT64_EOF), BootSectors>>
        <4>1. writes' = <<Mark(c, FAT64_EOF, FAT64_EOF)>> \o <<BootSectors>>
          BY <1>5, <2>3, Zenon DEF TouchWrites
        <4> QED
          BY <4>1, Joins, Zenon
      <3>2. MarksFirst(n, S)'
        BY <1>4, <1>5, <1>6, <1>7, <2>3, <3>1 DEF MarksFirst
      <3> QED
        BY <1>4, <3>2 DEF Pending
    <2>4. CASE c # FAT64_EOF /\ e # FAT64_EOF
      <3>1. writes' = <<Mark(c, FAT64_EOF, FAT64_EOF), Entry(e, c, 0)>>
        <4>1. writes' = <<Mark(c, FAT64_EOF, FAT64_EOF)>> \o <<Entry(e, c, 0)>>
          BY <1>5, <2>4, Zenon DEF TouchWrites, Entry
        <4> QED
          BY <4>1, Joins, Zenon
      <3>2. MarksFirst(n, S)'
        BY <1>4, <1>5, <1>6, <1>7, <2>4, <3>1 DEF MarksFirst
      <3> QED
        BY <1>4, <3>2 DEF Pending
    <2> QED
      BY <2>1, <2>2, <2>3, <2>4
  <1>9. file' \in Handles /\ outside' \in BOOLEAN /\ losses' \in Nat /\ UNCHANGED diskVars
    BY <1>1, <1>2 DEF DiskTypes
  <1> QED
    BY <1>1, <1>2, <1>3, <1>8, <1>9, CallKeeps DEF Resting

(***************************************************************************)
(* When the power fails, nothing is pending any more and no file is open;  *)
(* what was to be written may be lost.                                     *)
(***************************************************************************)
LEMMA PowerOffInv == ASSUME FilesInv, PowerOff PROVE FilesInv'
  <1>1. UNCHANGED <<diskVars, outside>> /\ writes' = <<>> /\ file' = BadHandle
    BY DEF PowerOff
  <1>2. DiskTypes /\ (~ intact => writes = <<>> /\ MayRuin)
    BY DEF FilesInv
  <1>3. PICK n, S : Chains(n, S) /\ Pending(n, S)
    BY DEF FilesInv
  <1>4. losses' \in Nat /\ (losses' = 0 => losses = 0 /\ writes = <<>>)
    BY <1>2 DEF PowerOff, DiskTypes
  <1>5. Accounted(n, S, {})'
    <2>1. CASE losses' = 0
      <3>1. Accounted(n, S, {}) /\ losses = 0
        BY <1>3, <1>4, <2>1, AtRest
      <3> QED
        BY <1>1, <3>1, SameAccounts
    <2>2. CASE losses' # 0
      BY <2>2 DEF Accounted
    <2> QED
      BY <2>1, <2>2
  <1>6. Pending(n, S)'
    <2>1. Handle(file, n, S)'
      BY <1>1, BadHandleFits
    <2>2. Frees(n, S)'
      BY <1>1, <1>5, NothingPending
    <2> QED
      BY <2>1, <2>2 DEF Pending
  <1>7. DiskTypes' /\ Chains(n, S)'
    <2>1. UNCHANGED diskVars /\ outside' \in BOOLEAN
      BY <1>1, <1>2 DEF DiskTypes
    <2> QED
      BY <1>2, <1>3, <1>4, <2>1, SameTypes, SameChains
  <1>8. (~ intact => writes = <<>> /\ MayRuin)'
    BY <1>1, <1>2 DEF MayRuin, Files, diskVars
  <1>9. file' \in Handles
    BY <1>1, BadHandleFits
  <1> QED
    BY <1>3, <1>6, <1>7, <1>8, <1>9 DEF FilesInv

-----------------------------------------------------------------------------
(* fat64_putc, within a file and at its end. *)

\* The handle f after the byte is in its buffer.
Dirtied(f) ==
  Fields(f, IF f.abs + 1 > f.size THEN f.size + 1 ELSE f.size, f.cluster, f.prev, f.next, f.location, f.abs, TRUE)

SizeWrites(f) ==
  IF f.abs + 1 > f.size THEN <<Entry(f.num, f.first, f.size + 1)>> ELSE <<>>

(***************************************************************************)
(* The handle after fat64_putc has stored its byte.                        *)
(***************************************************************************)
LEMMA DirtyFields ==
  ASSUME NEW f \in Handles, NEW x, NEW g, g = [f EXCEPT !.dirty = TRUE, !.size = x]
  PROVE  g = Fields(f, x, f.cluster, f.prev, f.next, f.location, f.abs, TRUE)
  BY DEF Handles, Fields

(***************************************************************************)
(* The handle at a new cluster behind the last.                            *)
(***************************************************************************)
LEMMA ClusterFields ==
  ASSUME NEW f \in Handles, NEW c, NEW p, NEW q, NEW g,
         g = [OpenCluster(f, c, <<p, q>>) EXCEPT !.location = 0]
  PROVE  g = Fields(f, f.size, c, p, q, 0, f.abs, f.dirty)
  BY DEF Handles, Fields, OpenCluster

(***************************************************************************)
(* fat64_putc stores, writes the new size of the file, and moves on.       *)
(***************************************************************************)
LEMMA StoredFacts ==
  ASSUME NEW f \in Handles
  PROVE  /\ Stored(f).file = ByteOn(Dirtied(f), FAT64_EOF)
         /\ Stored(f).writes = SizeWrites(f) \o (IF EndsCluster(f) THEN SaveWrites(Dirtied(f)) ELSE <<>>)
         /\ Dirtied(f) \in Handles
  <1> DEFINE g == [f EXCEPT !.dirty = TRUE, !.size = IF f.abs + 1 > f.size THEN @ + 1 ELSE @]
  <1>1. g = Dirtied(f)
    <2> DEFINE x == IF f.abs + 1 > f.size THEN f.size + 1 ELSE f.size
    <2>1. g = [f EXCEPT !.dirty = TRUE, !.size = x]
      BY Zenon
    <2>2. Dirtied(f) = Fields(f, x, f.cluster, f.prev, f.next, f.location, f.abs, TRUE)
      BY DEF Dirtied
    <2> HIDE DEF g, x
    <2> QED
      BY <2>1, <2>2, DirtyFields
  <1>2. f.abs + 1 > f.size => g.size = f.size + 1
    BY <1>1 DEF Dirtied, Fields
  <1>3. EndsCluster(g) = EndsCluster(f)
    BY <1>1 DEF Dirtied, Fields, EndsCluster
  <1>4. Stored(f).file = ByteOn(g, FAT64_EOF)
    BY DEF Stored
  <1>5. Stored(f).writes = (IF f.abs + 1 > f.size
                            THEN <<SetEntry(f.num, [valid |-> TRUE, file |-> f.first, size |-> g.size])>>
                            ELSE <<>>) \o (IF EndsCluster(g) THEN SaveWrites(g) ELSE <<>>)
    BY DEF Stored
  <1>6. Dirtied(f) \in Handles
    <2>1. /\ f.num \in Int /\ f.first \in Int /\ f.cluster \in Int /\ f.prev \in Int /\ f.next \in Int
          /\ f.location \in Int /\ f.abs \in Nat /\ f.size \in Nat /\ f.size + 1 \in Nat
      BY DEF Handles
    <2> QED
      BY <2>1 DEF Dirtied, Fields, Handles
  <1> HIDE DEF g
  <1>7. Stored(f).writes = SizeWrites(f) \o (IF EndsCluster(g) THEN SaveWrites(g) ELSE <<>>)
    <2>1. CASE f.abs + 1 > f.size
      BY <1>2, <1>5, <2>1 DEF SizeWrites, Entry
    <2>2. CASE ~ (f.abs + 1 > f.size)
      BY <1>5, <2>2 DEF SizeWrites
    <2> QED
      BY <2>1, <2>2
  <1> QED
    BY <1>1, <1>3, <1>4, <1>6, <1>7

(***************************************************************************)
(* The byte that is stored leaves the size within the clusters of the      *)
(* file.                                                                   *)
(***************************************************************************)
LEMMA DirtiedFits ==
  ASSUME NEW n, NEW S, Chains(n, S), NEW f \in Handles, Handle(f, n, S),
         f.cluster # 0, f.location \in 0..(FAT64_CLUSTER_SIZE - 1)
  PROVE  /\ Handle(Dirtied(f), n, S) /\ f.num \in Files /\ entries[f.num].file = f.first
         /\ n[f.num] # 0 => f.cluster # FAT64_EOF /\ Dirtied(f).size <= Bytes(n[f.num])
         /\ n[f.num] = 0 => f.first = FAT64_EOF
  <1> DEFINE g == Dirtied(f)
  <1>1. /\ g.num = f.num /\ g.first = f.first /\ g.cluster = f.cluster /\ g.prev = f.prev /\ g.next = f.next
        /\ g.location = f.location /\ g.abs = f.abs
        /\ (g.size = f.size \/ (f.abs + 1 > f.size /\ g.size = f.size + 1))
    BY DEF Dirtied, Fields
  <1> HIDE DEF g
  <1>2. CASE f.num \in Files /\ Placeless(f, n)
    <2>1. Placeless(g, n)
      BY <1>1, <1>2 DEF Placeless
    <2>2. entries[f.num].file = f.first /\ n[f.num] = 0 /\ f.first = FAT64_EOF
      BY <1>2 DEF Chains, Placeless
    <2> QED
      BY <1>1, <1>2, <2>1, <2>2 DEF Handle, g
  <1>3. CASE f.num \in Files /\ \E i \in 1..n[f.num] : Placed(f, n, S, i)
    <2>1. PICK i \in 1..n[f.num] : Placed(f, n, S, i)
      BY <1>3
    <2>2. n[f.num] \in Nat /\ i \in Nat /\ i >= 1 /\ i <= n[f.num] /\ i - 1 \in Nat /\ f.num \in DirEntries
      BY <1>3 DEF Chains, Files
    <2>3. f.abs = Bytes(i - 1) + f.location
      BY <2>1, <2>2, AbsPlace
    <2>4. f.abs + 1 <= Bytes(n[f.num])
      <3>1. Bytes(i - 1) \in Nat /\ Bytes((i - 1) + 1) = Bytes(i - 1) + FAT64_CLUSTER_SIZE
        BY <2>2, BytesFacts
      <3>2. (i - 1) + 1 = i
        BY <2>2
      <3>3. Bytes(i) <= Bytes(n[f.num]) /\ Bytes(i) \in Nat /\ Bytes(n[f.num]) \in Nat
        BY <2>2, BytesFacts
      <3>4. f.location + 1 <= FAT64_CLUSTER_SIZE /\ FAT64_CLUSTER_SIZE \in Nat /\ f.location \in Nat
        BY DiskFacts
      <3> QED
        BY <2>3, <3>1, <3>2, <3>3, <3>4
    <2>5. g.size <= Bytes(n[f.num])
      <3>1. f.size <= Bytes(n[f.num])
        BY <2>1 DEF Placed
      <3>2. f.size \in Nat /\ f.abs \in Nat /\ Bytes(n[f.num]) \in Nat
        BY <2>2, BytesFacts DEF Handles
      <3> QED
        BY <1>1, <2>4, <3>1, <3>2
    <2>6. Placed(g, n, S, i)
      BY <1>1, <2>1, <2>5 DEF Placed
    <2>7. f.cluster \in DataClusters
      BY <2>1, <2>2 DEF Placed, Chains
    <2>8. entries[f.num].file = f.first /\ n[f.num] # 0
      BY <1>3, <2>1, <2>2 DEF Placed, Chains
    <2> QED
      BY <1>1, <1>3, <2>5, <2>6, <2>7, <2>8, DiskFacts DEF Handle, g
  <1> QED
    BY <1>2, <1>3 DEF Handle

(***************************************************************************)
(* fat64_putc within the clusters that the file has.                       *)
(***************************************************************************)
LEMMA PutcInv == ASSUME FilesInv, Putc PROVE FilesInv'
  <1>1. /\ BetweenCalls /\ UNCHANGED <<diskVars, outside, losses>> /\ file.cluster # 0
        /\ file.location \in 0..(FAT64_CLUSTER_SIZE - 1)
    BY DEF Putc
  <1>2. DiskTypes /\ file \in Handles
    BY <1>1, AtRestInv
  <1>3. PICK n, S : Resting(n, S)
    BY <1>1, AtRestInv
  <1> DEFINE g == Dirtied(file)
             e == file.num
             s == file.size + 1
  <1>4. /\ file' = ByteOn(g, FAT64_EOF) /\ g \in Handles
        /\ writes' = SizeWrites(file) \o (IF EndsCluster(file) THEN SaveWrites(g) ELSE <<>>)
    BY <1>2, StoredFacts DEF Putc
  <1>5. /\ Handle(g, n, S) /\ e \in Files /\ entries[e].file = file.first
        /\ n[e] # 0 => file.cluster # FAT64_EOF /\ g.size <= Bytes(n[e])
        /\ n[e] = 0 => file.first = FAT64_EOF
    BY <1>1, <1>2, <1>3, DirtiedFits DEF Resting
  <1>6. /\ g.cluster = file.cluster /\ g.location = file.location
        /\ file.abs + 1 > file.size => g.size = s
    BY DEF Dirtied, Fields
  <1> HIDE DEF g
  <1>7. file' \in Handles /\ Handle(file', n, S)
    BY <1>1, <1>2, <1>3, <1>4, <1>5, <1>6, ByteOnFits DEF Resting
  <1>8. /\ Handle(file, n, S)' /\ Accounted(n, S, {})' /\ Files' = Files /\ entries' = entries
    BY <1>1, <1>3, <1>7, SameHandle, SameAccounts, SameChains DEF Resting, diskVars
  <1>9. s \in Nat
    BY <1>2 DEF Handles
  <1>10. SaveWrites(g) = <<>> \/ (SaveWrites(g) = <<BootSectors>> /\ n[e] = 0)
    BY <1>5, <1>6 DEF SaveWrites
  <1> DEFINE w == IF EndsCluster(file) THEN SaveWrites(g) ELSE <<>>
  <1>11. w = <<>> \/ (w = <<BootSectors>> /\ n[e] = 0)
    BY <1>10
  <1>12. writes' = SizeWrites(file) \o w
    BY <1>4
  <1> HIDE DEF w, e, s
  <1>13. Pending(n, S)'
    <2>1. CASE ~ (file.abs + 1 > file.size)
      <3>1. SizeWrites(file) = <<>>
        BY <2>1 DEF SizeWrites
      <3>2. writes' = w
        BY <1>11, <1>12, <3>1, Joins, Zenon
      <3>3. CASE w = <<>>
        BY <1>8, <3>2, <3>3, NothingPending DEF Pending
      <3>4. CASE w = <<BootSectors>> /\ n[e] = 0
        <4>1. MayRuin'
          BY <1>5, <1>8, <3>4 DEF MayRuin
        <4> QED
          BY <1>8, <3>2, <3>4, <4>1 DEF Pending, RuinsBoot
      <3> QED
        BY <1>11, <3>3, <3>4
    <2>2. CASE file.abs + 1 > file.size
      <3>1. SizeWrites(file) = <<Entry(e, entries[e].file, s)>>
        BY <1>5, <2>2 DEF SizeWrites, e, s
      <3>2. n[e] # 0 => s <= Bytes(n[e])
        BY <1>5, <1>6, <2>2
      <3>3. CASE w = <<>>
        <4>1. writes' = <<Entry(e, entries[e].file, s)>>
          BY <1>12, <3>1, <3>3, Joins, Zenon
        <4>2. Resizes(n, S)'
          BY <1>5, <1>8, <1>9, <3>2, <4>1 DEF Resizes
        <4> QED
          BY <1>8, <4>2 DEF Pending
      <3>4. CASE w = <<BootSectors>> /\ n[e] = 0
        <4>1. writes' = <<Entry(e, entries[e].file, s), BootSectors>>
          BY <1>12, <3>1, <3>4, Joins, Zenon
        <4>2. entries[e].file = FAT64_EOF
          BY <1>5, <3>4
        <4>3. Resizes(n, S)'
          BY <1>5, <1>8, <1>9, <3>4, <4>1, <4>2 DEF Resizes
        <4> QED
          BY <1>8, <4>3 DEF Pending
      <3> QED
        BY <1>11, <3>3, <3>4
    <2> QED
      BY <2>1, <2>2
  <1>14. outside' \in BOOLEAN /\ losses' \in Nat /\ UNCHANGED diskVars
    BY <1>1, <1>2 DEF DiskTypes
  <1> QED
    BY <1>1, <1>2, <1>3, <1>7, <1>13, <1>14, CallKeeps DEF Resting

(***************************************************************************)
(* The clusters of a file are taken.                                       *)
(***************************************************************************)
LEMMA LinksTaken ==
  ASSUME NEW n, NEW S, Chains(n, S), NEW e \in DirEntries, NEW i \in 1..n[e]
  PROVE  S[e][i] \in DataClusters /\ tags[S[e][i]] = Link(n, S, e, i) /\ tags[S[e][i]] # FreeTag
  <1>1. n[e] \in Nat /\ S[e][i] \in DataClusters /\ tags[S[e][i]] = Link(n, S, e, i)
    BY DEF Chains
  <1>2. CASE i = 1
    BY <1>1, <1>2 DEF Link, FreeTag, FAT64_EOF, FAT64_CLUSTER_TAG_FREE
  <1>3. CASE i # 1
    <2>1. i - 1 \in 1..n[e]
      BY <1>1, <1>3
    <2>2. S[e][i - 1] \in DataClusters
      BY <2>1 DEF Chains
    <2>3. S[e][i - 1] # 0
      BY <2>2, DiskFacts
    <2> QED
      BY <1>1, <1>3, <2>3 DEF Link, FreeTag, FAT64_CLUSTER_TAG_FREE
  <1> QED
    BY <1>2, <1>3

(***************************************************************************)
(* A free cluster is in no file.                                           *)
(***************************************************************************)
LEMMA FreeIsLoose ==
  ASSUME NEW n, NEW S, DiskTypes, Chains(n, S), NEW c \in FreeClusters
  PROVE  c \in DataClusters /\ ~ InFile(c, n, S)
  <1>1. c \in Clusters /\ tags[c] = FreeTag
    BY DEF FreeClusters
  <1>2. c \in DataClusters
    BY <1>1, SystemTaken DEF DiskTypes
  <1>3. ~ InFile(c, n, S)
    BY <1>1, LinksTaken DEF InFile
  <1> QED
    BY <1>2, <1>3

(***************************************************************************)
(* fat64_putc at the end of the last cluster: three sectors, the mark of   *)
(* the new cluster first.                                                  *)
(***************************************************************************)
LEMMA PutcExtendsInv == ASSUME FilesInv, PutcExtends PROVE FilesInv'
  <1> DEFINE c == FirstFree
             f == [OpenCluster(file, c, <<file.cluster, FAT64_EOF>>) EXCEPT !.location = 0]
             e == file.num
             s == file.size + 1
  <1>1. /\ BetweenCalls /\ UNCHANGED <<diskVars, outside, losses>> /\ file.cluster # 0
        /\ file.location = FAT64_EOF /\ c # FAT64_EOF
        /\ file' = Stored(f).file /\ writes' = ExtendWrites(file, c) \o Stored(f).writes
    BY DEF PutcExtends
  <1>2. DiskTypes /\ file \in Handles
    BY <1>1, AtRestInv
  <1>3. PICK n, S : Resting(n, S)
    BY <1>1, AtRestInv
  <1>4. c \in FreeClusters /\ c \in DataClusters /\ ~ InFile(c, n, S) /\ tags[c] = FreeTag /\ c \in Int
    <2>1. c \in FreeClusters
      BY <1>1, FirstFreeFacts
    <2> QED
      BY <1>2, <1>3, <2>1, FreeIsLoose, DiskFacts DEF Resting, FreeClusters
  <1> HIDE DEF c
  <1>5. FAT64_CLUSTER_SIZE \in Nat /\ FAT64_CLUSTER_SIZE >= 2
    BY DiskFacts
  <1>6. e \in Files /\ \E i \in 1..n[e] : Placed(file, n, S, i)
    BY <1>1, <1>3 DEF Resting, Handle, Placeless, FAT64_EOF
  <1>7. PICK i \in 1..n[e] : Placed(file, n, S, i)
    BY <1>6
  <1>8. n[e] \in Nat /\ n[e] # 0 /\ e \in DirEntries /\ n[e] \in 1..n[e]
    BY <1>3, <1>6 DEF Resting, Chains, Files
  <1>9. i = n[e] /\ file.abs = Bytes(n[e])
    BY <1>1, <1>5, <1>7 DEF Placed, FAT64_EOF
  <1> DEFINE last == S[e][n[e]]
  <1>10. /\ file.cluster = last /\ file.prev = tags[last][1] /\ file.first = S[e][1]
         /\ file.size <= Bytes(n[e]) /\ last # c
    <2>1. tags[last] = Link(n, S, e, n[e])
      BY <1>3, <1>8, LinksTaken DEF Resting
    <2>2. last # c
      BY <1>4, <1>8 DEF InFile
    <2> QED
      BY <1>7, <1>9, <2>1, <2>2 DEF Placed, Link
  <1>11. file.size \in Nat /\ Bytes(n[e]) \in Nat /\ Bytes(n[e] + 1) = Bytes(n[e]) + FAT64_CLUSTER_SIZE
    BY <1>2, <1>8, BytesFacts DEF Handles
  <1>12. s \in Nat /\ s <= Bytes(n[e] + 1) /\ file.abs + 1 > file.size
    BY <1>5, <1>9, <1>10, <1>11
  <1>13. f = Fields(file, file.size, c, last, FAT64_EOF, 0, file.abs, file.dirty)
    BY <1>2, <1>10, ClusterFields
  <1> HIDE DEF f
  <1>14. f \in Handles
    <2>1. /\ file.num \in Int /\ file.first \in Int /\ file.abs \in Nat /\ file.dirty \in BOOLEAN
          /\ last \in Int /\ FAT64_EOF \in Int
      BY <1>2, <1>10 DEF Handles, FAT64_EOF
    <2> QED
      BY <1>4, <1>11, <1>13, <2>1 DEF Handles, Fields
  <1>15. /\ f.num = e /\ f.first = file.first /\ f.size = file.size /\ f.cluster = c /\ f.prev = last
         /\ f.next = FAT64_EOF /\ f.location = 0 /\ f.abs = file.abs
    BY <1>13 DEF Fields
  <1> DEFINE g == Dirtied(f)
  <1>16. file' = ByteOn(g, FAT64_EOF) /\ Stored(f).writes = SizeWrites(f) \o <<>> /\ g \in Handles
    <2>1. ~ EndsCluster(f)
      BY <1>5, <1>15 DEF EndsCluster
    <2> QED
      BY <1>1, <1>14, <2>1, StoredFacts
  <1>17. /\ g.num = e /\ g.first = file.first /\ g.size = s /\ g.cluster = c /\ g.prev = last
         /\ g.next = FAT64_EOF /\ g.location = 0 /\ g.abs = file.abs
    BY <1>12, <1>15 DEF Dirtied, Fields
  <1> HIDE DEF g
  <1>18. file' = [g EXCEPT !.location = @ + 1, !.abs = @ + 1]
    <2> DEFINE h == [g EXCEPT !.location = @ + 1, !.abs = @ + 1]
    <2>1. h.location = g.location + 1
      BY <1>16 DEF Handles
    <2>2. h.location < FAT64_CLUSTER_SIZE
      BY <1>5, <1>17, <2>1
    <2> QED
      BY <1>16, <2>2 DEF ByteOn
  <1>19. file' \in Handles /\ HandleAhead(file', n, S, e, c)
    <2>1. file' = Fields(g, g.size, g.cluster, g.prev, g.next, g.location + 1, g.abs + 1, g.dirty)
      BY <1>16, <1>18, AddOne
    <2>2. g.abs + 1 \in Nat /\ g.location + 1 \in Int
      BY <1>16 DEF Handles
    <2>3. file' \in Handles
      BY <1>16, <2>1, <2>2 DEF Handles, Fields
    <2>4. HandleAhead(file', n, S, e, c)
      BY <1>9, <1>10, <1>12, <1>17, <2>1 DEF HandleAhead, Fields
    <2> QED
      BY <2>3, <2>4
  <1>20. writes' = <<Mark(c, last, FAT64_EOF), Mark(last, tags[last][1], c), Entry(e, entries[e].file, s)>>
    <2>1. entries[e].file = file.first
      BY <1>3, <1>6, <1>8, <1>10 DEF Resting, Chains
    <2>2. SizeWrites(f) = <<Entry(e, entries[e].file, s)>>
      BY <1>12, <1>15, <2>1 DEF SizeWrites
    <2>3. ExtendWrites(file, c) = <<Mark(c, last, FAT64_EOF), Mark(last, tags[last][1], c)>>
      BY <1>10 DEF ExtendWrites
    <2>4. Stored(f).writes = <<Entry(e, entries[e].file, s)>>
      BY <1>16, <2>2, Joins, Zenon
    <2>5. writes' = ExtendWrites(file, c) \o Stored(f).writes
      BY <1>1
    <2>6. writes' = <<Mark(c, last, FAT64_EOF), Mark(last, tags[last][1], c)>> \o <<Entry(e, entries[e].file, s)>>
      BY <2>3, <2>4, <2>5
    <2> HIDE DEF last, e, s
    <2> QED
      BY <2>6, Joins
  <1>21. Accounted(n, S, {})' /\ UNCHANGED <<tags, entries>> /\ Files' = Files
    BY <1>1, <1>3, SameAccounts, SameChains DEF Resting, diskVars
  <1> HIDE DEF e, s
  <1>22. Extends(n, S)'
    BY <1>4, <1>6, <1>8, <1>12, <1>19, <1>20, <1>21 DEF Extends, InFile
  <1>23. outside' \in BOOLEAN /\ losses' \in Nat /\ UNCHANGED diskVars
    BY <1>1, <1>2 DEF DiskTypes
  <1>24. Pending(n, S)'
    BY <1>22 DEF Pending
  <1> QED
    BY <1>1, <1>2, <1>3, <1>19, <1>23, <1>24, CallKeeps DEF Resting

-----------------------------------------------------------------------------
(* fat64_rm. *)

(***************************************************************************)
(* The marks by which clusters are freed.                                  *)
(***************************************************************************)
LEMMA FreedFacts ==
  ASSUME NEW r \in Seq(Clusters)
  PROVE  /\ Freed(r) \in Seq(FreeMarks) /\ Len(Freed(r)) = Len(r)
         /\ \A k \in 1..Len(r) : Freed(r)[k].at = r[k]
  <1>1. Freed(r) = [i \in 1..Len(r) |-> Mark(r[i], FAT64_CLUSTER_TAG_FREE, FAT64_CLUSTER_TAG_FREE)]
    BY DEF Freed
  <1>2. \A i \in 1..Len(r) : r[i] \in Clusters
    OBVIOUS
  <1>3. Len(r) \in Nat
    OBVIOUS
  <1>4. Freed(r) \in [1..Len(r) -> FreeMarks]
    BY <1>1, <1>2 DEF FreeMarks
  <1>5. Freed(r) \in Seq(FreeMarks) /\ Len(Freed(r)) = Len(r)
    BY <1>3, <1>4
  <1>6. \A k \in 1..Len(r) : Freed(r)[k].at = r[k]
    BY <1>1 DEF Mark
  <1> QED
    BY <1>5, <1>6

(***************************************************************************)
(* The clusters that fat64_rm frees are all of the file, from the first    *)
(* one on.                                                                 *)
(***************************************************************************)
LEMMA RmClustersFacts ==
  ASSUME NEW n, NEW S, Chains(n, S), NEW f \in Handles, f.num \in Files, NEW i \in 1..n[f.num],
         Placed(f, n, S, i)
  PROVE  /\ RmClusters(f) \in Seq(Clusters)
         /\ \A k \in 1..Len(RmClusters(f)) : \E j \in 1..n[f.num] : RmClusters(f)[k] = S[f.num][j]
         /\ i = 1 => \A j \in 1..n[f.num] : \E k \in 1..Len(RmClusters(f)) : RmClusters(f)[k] = S[f.num][j]
  <1> DEFINE e == f.num
             m == n[e] - i
             s == [k \in 1..m |-> S[e][i + k]]
             a == S[e][1]
             r == <<a>> \o s
  <1>1. e \in DirEntries /\ n[e] \in Nat /\ m \in Nat /\ i \in Nat /\ i >= 1 /\ 1 \in 1..n[e] /\ i + m = n[e]
    BY DEF Files, Chains
  <1>2. \A j \in 1..n[e] : S[e][j] \in DataClusters /\ tags[S[e][j]] = Link(n, S, e, j)
    BY <1>1 DEF Chains
  <1>3. n[e] <= N_CLUSTERS
    <2>1. \A j \in 1..n[e] : S[e][j] \in Clusters
      BY <1>2, DiskFacts
    <2>2. \A j, k \in 1..n[e] : S[e][j] = S[e][k] => j = k
      BY <1>1 DEF Chains
    <2> QED
      BY <1>1, <2>1, <2>2, ChainFits
  <1>4. f.next = IF i = n[e] THEN FAT64_EOF ELSE S[e][i + 1]
    BY DEF Placed, Link
  <1>5. \A k \in 1..m : s[k] = S[e][i + k] /\ i + k \in 1..n[e] /\ i + k \in Nat /\ i + k # 1
    BY <1>1
  <1>6. s \in [1..m -> Clusters] /\ a \in Clusters
    <2>1. \A k \in 1..m : S[e][i + k] \in Clusters
      BY <1>2, <1>5, DiskFacts
    <2>2. a \in Clusters
      BY <1>1, <1>2, DiskFacts
    <2> QED
      BY <2>1, <2>2
  <1> HIDE DEF s, m
  <1>7. s \in Seq(Clusters) /\ Len(s) = m /\ a \in Clusters
    BY <1>1, <1>6
  <1>8. Follow(f.next) = [k \in 1..m |-> s[k]]
    <2>1. m <= N_CLUSTERS
      BY <1>1, <1>3, DiskFacts
    <2>2. m = 0 => f.next = FAT64_EOF
      BY <1>1, <1>4
    <2>3. m # 0 => f.next = s[1]
      BY <1>1, <1>4, <1>5
    <2>4. \A k \in 1..m : s[k] \in Clusters
      BY <1>6
    <2>5. \A k \in 1..m : tags[s[k]][2] = IF k = m THEN FAT64_EOF ELSE s[k + 1]
      <3>1. TAKE k \in 1..m
      <3>2. i + k \in 1..n[e] /\ s[k] = S[e][i + k]
        BY <1>5
      <3>3. tags[s[k]] = Link(n, S, e, i + k)
        BY <1>2, <3>2
      <3>4. tags[s[k]][2] = IF i + k = n[e] THEN FAT64_EOF ELSE S[e][(i + k) + 1]
        BY <3>3 DEF Link
      <3>5. i + k = n[e] <=> k = m
        BY <1>1
      <3>6. k # m => k + 1 \in 1..m /\ i + (k + 1) = (i + k) + 1
        BY <1>1
      <3>7. k # m => s[k + 1] = S[e][(i + k) + 1]
        BY <1>5, <3>6
      <3> QED
        BY <3>4, <3>5, <3>7
    <2> QED
      BY <1>1, <2>1, <2>2, <2>3, <2>4, <2>5, FollowChain, SMTT(30)
  <1>9. RmClusters(f) = r
    <2>1. f.first = a /\ a # FAT64_EOF
      BY <1>1, <1>2, DiskFacts DEF Placed
    <2>2. [k \in 1..m |-> s[k]] = s
      BY <1>6
    <2> QED
      BY <1>8, <2>1, <2>2 DEF RmClusters
  <1> HIDE DEF a
  <1>10. r \in Seq(Clusters) /\ Len(r) = m + 1 /\ r[1] = a /\ \A k \in 1..m : r[k + 1] = s[k]
    BY <1>1, <1>7
  <1> HIDE DEF r
  <1>11. \A k \in 1..(m + 1) : \E j \in 1..n[e] : r[k] = S[e][j]
    <2>1. TAKE k \in 1..(m + 1)
    <2>2. CASE k = 1
      BY <1>1, <1>10, <2>2 DEF a
    <2>3. CASE k # 1
      <3>1. k - 1 \in 1..m /\ (k - 1) + 1 = k
        BY <1>1, <2>3
      <3> QED
        BY <1>5, <1>10, <3>1
    <2> QED
      BY <2>2, <2>3
  <1>12. ASSUME i = 1, NEW j \in 1..n[e]
         PROVE  \E k \in 1..(m + 1) : r[k] = S[e][j]
    <2>1. CASE j = 1
      BY <1>1, <1>10, <2>1 DEF a
    <2>2. CASE j # 1
      <3>1. j - 1 \in 1..m /\ (j - 1) + 1 = j /\ 1 + (j - 1) = j /\ j \in 1..(m + 1)
        BY <1>1, <1>12, <2>2
      <3> QED
        BY <1>5, <1>10, <1>12, <3>1
    <2> QED
      BY <2>1, <2>2
  <1> QED
    BY <1>9, <1>10, <1>11, <1>12

(***************************************************************************)
(* fat64_rm: the entry goes first, then clusters of its file; all of them, *)
(* if the handle was at the first.                                         *)
(***************************************************************************)
LEMMA RmInv == ASSUME FilesInv, Rm PROVE FilesInv'
  <1>1. /\ BetweenCalls /\ UNCHANGED <<diskVars, outside>> /\ file.cluster # 0 /\ file' = BadHandle
        /\ writes' = RmWrites(file)
    BY DEF Rm
  <1>2. DiskTypes /\ file \in Handles
    BY <1>1, AtRestInv
  <1>3. PICK n, S : Resting(n, S)
    BY <1>1, AtRestInv
  <1>4. losses' \in Nat /\ (losses' = 0 => losses = 0 /\ file.cluster = file.first)
    BY <1>2 DEF Rm, DiskTypes
  <1> DEFINE e == file.num
             w == Freed(RmClusters(file))
  <1>5. e \in Files
    BY <1>1, <1>3 DEF Resting, Handle
  <1>6. /\ w \in Seq(FreeMarks) /\ file.first = entries[e].file
        /\ \A k \in 1..Len(w) : \E i \in 1..n[e] : w[k].at = S[e][i]
        /\ losses' = 0 => \A i \in 1..n[e] : \E k \in 1..Len(w) : w[k].at = S[e][i]
    <2>1. CASE Placeless(file, n)
      <3>1. RmClusters(file) = <<>> /\ n[e] = 0 /\ file.first = entries[e].file
        BY <1>3, <1>5, <2>1 DEF RmClusters, Placeless, Resting, Chains
      <3>2. RmClusters(file) \in Seq(Clusters) /\ Len(RmClusters(file)) = 0
        BY <3>1
      <3>3. w \in Seq(FreeMarks) /\ Len(w) = 0
        BY <3>2, FreedFacts
      <3> QED
        BY <3>1, <3>3
    <2>2. CASE \E i \in 1..n[e] : Placed(file, n, S, i)
      <3>1. PICK i \in 1..n[e] : Placed(file, n, S, i)
        BY <2>2
      <3> DEFINE r == RmClusters(file)
      <3>2. /\ r \in Seq(Clusters)
            /\ \A k \in 1..Len(r) : \E j \in 1..n[e] : r[k] = S[e][j]
            /\ i = 1 => \A j \in 1..n[e] : \E k \in 1..Len(r) : r[k] = S[e][j]
        BY <1>2, <1>3, <1>5, <3>1, RmClustersFacts DEF Resting
      <3>3. w \in Seq(FreeMarks) /\ Len(w) = Len(r) /\ \A k \in 1..Len(r) : w[k].at = r[k]
        BY <3>2, FreedFacts
      <3>4. e \in DirEntries /\ n[e] \in Nat /\ n[e] # 0 /\ 1 \in 1..n[e]
        BY <1>3, <1>5 DEF Resting, Chains, Files
      <3>5. file.cluster = S[e][i] /\ file.first = S[e][1]
        BY <3>1 DEF Placed
      <3>6. file.first = entries[e].file
        BY <1>3, <1>5, <3>4, <3>5 DEF Resting, Chains
      <3>7. losses' = 0 => i = 1
        BY <1>3, <1>4, <3>4, <3>5 DEF Resting, Chains
      <3> HIDE DEF w, r
      <3> QED
        BY <3>2, <3>3, <3>6, <3>7
    <2> QED
      BY <1>1, <1>3, <2>1, <2>2 DEF Resting, Handle
  <1> HIDE DEF w
  <1>7. Accounted(n, S, {})' /\ Files' = Files /\ entries' = entries
    BY <1>1, <1>3, <1>4, SameAccounts, SameChains DEF Resting, diskVars
  <1>8. file.size \in Nat
    BY <1>2 DEF Handles
  <1>9. writes' = <<SetEntry(e, [valid |-> FALSE, file |-> entries[e].file, size |-> file.size])>> \o w
    BY <1>1, <1>6 DEF RmWrites, w
  <1>10. file'.cluster = 0 /\ file' \in Handles /\ Handle(file, n, S)'
    BY <1>1, BadHandleFits DEF BadHandle
  <1> HIDE DEF e
  <1>11. Removes(n, S)'
    BY <1>5, <1>6, <1>7, <1>8, <1>9, <1>10 DEF Removes
  <1>12. Pending(n, S)'
    BY <1>10, <1>11 DEF Pending
  <1>13. outside' \in BOOLEAN /\ UNCHANGED diskVars
    BY <1>1, <1>2 DEF DiskTypes
  <1> QED
    BY <1>1, <1>2, <1>3, <1>4, <1>10, <1>12, <1>13, CallKeeps DEF Resting

-----------------------------------------------------------------------------
(* One sector is written: what it changes. *)

(***************************************************************************)
(* What one sector changes.                                                *)
(***************************************************************************)
LEMMA Written ==
  ASSUME WriteSector, DiskTypes
  PROVE  /\ writes' = Tail(writes) /\ UNCHANGED <<file, outside, losses>>
         /\ \A c, p, q : Head(writes) = Mark(c, p, q) =>
              tags' = [tags EXCEPT ![c] = <<p, q>>] /\ UNCHANGED <<entries, intact>>
         /\ \A e, to : Head(writes) = SetEntry(e, to) =>
              entries' = [entries EXCEPT ![e] = to] /\ UNCHANGED <<tags, intact>>
         /\ Head(writes) = BootSectors => ~ intact' /\ UNCHANGED <<tags, entries>>
  <1> DEFINE w == Head(writes)
  <1>1. /\ writes' = Tail(writes)
        /\ tags' = IF w.what = "tag" THEN [tags EXCEPT ![w.at] = w.to] ELSE tags
        /\ entries' = IF w.what = "entry" THEN [entries EXCEPT ![w.at] = w.to] ELSE entries
        /\ intact' = (intact /\ w.what # "boot sectors")
        /\ UNCHANGED <<file, outside, losses>>
    BY DEF WriteSector
  <1>2. intact \in BOOLEAN
    BY DEF DiskTypes
  <1> HIDE DEF w
  <1>3. ASSUME NEW c, NEW p, NEW q, w = Mark(c, p, q)
        PROVE  tags' = [tags EXCEPT ![c] = <<p, q>>] /\ UNCHANGED <<entries, intact>>
    <2>1. w.what = "tag" /\ w.at = c /\ w.to = <<p, q>>
      BY <1>3 DEF Mark
    <2> QED
      BY <1>1, <1>2, <2>1
  <1>4. ASSUME NEW e, NEW to, w = SetEntry(e, to)
        PROVE  entries' = [entries EXCEPT ![e] = to] /\ UNCHANGED <<tags, intact>>
    <2>1. w.what = "entry" /\ w.at = e /\ w.to = to
      BY <1>4 DEF SetEntry
    <2> QED
      BY <1>1, <1>2, <2>1
  <1>5. ASSUME w = BootSectors
        PROVE  ~ intact' /\ UNCHANGED <<tags, entries>>
    <2>1. w.what = "boot sectors"
      BY <1>5 DEF BootSectors
    <2> QED
      BY <1>1, <1>2, <2>1
  <1> QED
    BY <1>1, <1>3, <1>4, <1>5 DEF w

\* The tag of cluster c becomes t.
Tagged(c, t) == tags' = [tags EXCEPT ![c] = t] /\ UNCHANGED <<entries, intact, outside, losses>>

OnlyTag(c, t) == tags'[c] = t /\ \A x \in Clusters \ {c} : tags'[x] = tags[x]

(***************************************************************************)
(* The tag of a cluster in no file is changed.                             *)
(***************************************************************************)
LEMMA TagKeeps ==
  ASSUME NEW n, NEW S, DiskTypes, Chains(n, S), NEW c \in DataClusters, ~ InFile(c, n, S),
         NEW t \in Int \X Int,
         Tagged(c, t)
  PROVE  DiskTypes' /\ Chains(n, S)' /\ Files' = Files /\ OnlyTag(c, t)
  <1>1. c \in Clusters /\ tags \in [Clusters -> Int \X Int]
    BY DiskFacts DEF DiskTypes
  <1> USE DEF Tagged
  <1>2. tags'[c] = t /\ \A x \in Clusters \ {c} : tags'[x] = tags[x]
    BY <1>1
  <1>3. tags' \in [Clusters -> Int \X Int]
    BY <1>1
  <1>4. DiskTypes'
    <2>1. \A x \in Clusters \ DataClusters : tags'[x] = tags[x]
      BY <1>2
    <2> QED
      BY <1>3, <2>1 DEF DiskTypes
  <1>5. Files' = Files
    BY DEF Files
  <1>6. Chains(n, S)'
    <2>1. ASSUME NEW e \in DirEntries, NEW i \in 1..n[e]
          PROVE  S[e][i] \in DataClusters /\ tags'[S[e][i]] = Link(n, S, e, i)
      <3>1. S[e][i] \in DataClusters /\ tags[S[e][i]] = Link(n, S, e, i)
        BY LinksTaken
      <3>2. S[e][i] \in Clusters \ {c}
        BY <3>1, DiskFacts DEF InFile
      <3> QED
        BY <1>2, <3>1, <3>2
    <2> QED
      BY <1>5, <2>1 DEF Chains, Link
  <1> QED
    BY <1>2, <1>4, <1>5, <1>6 DEF OnlyTag

(***************************************************************************)
(* The entry of a file gets a new size.                                    *)
(***************************************************************************)
LEMMA SizeKeeps ==
  ASSUME NEW n, NEW S, DiskTypes, Chains(n, S), NEW e \in Files, NEW s \in Nat, n[e] # 0 => s <= Bytes(n[e]),
         entries' = [entries EXCEPT ![e] = [valid |-> TRUE, file |-> entries[e].file, size |-> s]],
         UNCHANGED <<tags, intact, outside, losses>>
  PROVE  /\ DiskTypes' /\ Chains(n, S)' /\ Files' = Files /\ \A g \in Files :
              entries'[g].file = entries[g].file
  <1>1. e \in DirEntries /\ entries \in [DirEntries -> [valid : BOOLEAN, file : Int, size : Nat]]
          /\ entries[e].valid
    BY DEF Files, DiskTypes
  <1> DEFINE r == [valid |-> TRUE, file |-> entries[e].file, size |-> s]
  <1>2. r.valid = TRUE /\ r.file = entries[e].file /\ r.size = s
          /\ r \in [valid : BOOLEAN, file : Int, size : Nat]
    BY <1>1
  <1>3. entries' = [entries EXCEPT ![e] = r]
    OBVIOUS
  <1> HIDE DEF r
  <1>4. entries' \in [DirEntries -> [valid : BOOLEAN, file : Int, size : Nat]]
    BY <1>1, <1>2, <1>3
  <1>5. entries'[e] = r /\ \A g \in DirEntries \ {e} : entries'[g] = entries[g]
    BY <1>1, <1>3
  <1>6. \A g \in DirEntries : /\ entries'[g].valid <=> entries[g].valid
                              /\ entries'[g].file = entries[g].file
                              /\ g # e => entries'[g].size = entries[g].size
    BY <1>1, <1>2, <1>5
  <1>7. Files' = Files
    BY <1>6 DEF Files
  <1>8. DiskTypes'
    BY <1>4 DEF DiskTypes
  <1>9. Chains(n, S)'
    <2>1. \A g \in DirEntries : ~ entries'[g].valid => n[g] = 0
      BY <1>6 DEF Chains
    <2>2. ASSUME NEW g \in Files
          PROVE  /\ n[g] = 0 => entries'[g].file = FAT64_EOF
                 /\ n[g] # 0 => entries'[g].file = S[g][1] /\ entries'[g].size <= Bytes(n[g])
      <3>1. g \in DirEntries
        BY DEF Files
      <3>2. CASE g = e
        BY <1>2, <1>5, <1>6, <3>1, <3>2 DEF Chains
      <3>3. CASE g # e
        BY <1>6, <3>1, <3>3 DEF Chains
      <3> QED
        BY <3>2, <3>3
    <2>3. /\ n \in [DirEntries -> Nat] /\ S \in [DirEntries -> [Nat -> Int]]
          /\ \A g \in DirEntries :
               \A i \in 1..n[g] : S[g][i] \in DataClusters /\ tags[S[g][i]] = Link(n, S, g, i)
          /\ \A f, g \in DirEntries :
               \A i \in 1..n[f] : \A j \in 1..n[g] : S[f][i] = S[g][j] => f = g /\ i = j
      BY DEF Chains
    <2>4. tags' = tags
      OBVIOUS
    <2>5. \A g \in Files' : /\ n[g] = 0 => entries'[g].file = FAT64_EOF
                            /\ n[g] # 0 => entries'[g].file = S[g][1] /\ entries'[g].size <= Bytes(n[g])
      BY <1>7, <2>2
    <2>6. \A g \in DirEntries :
            \A i \in 1..n[g] : S[g][i] \in DataClusters /\ tags'[S[g][i]] = Link(n, S, g, i)
      BY <2>3, <2>4
    <2> QED
      BY <2>1, <2>3, <2>5, <2>6, Zenon DEF Chains, Link
  <1> QED
    BY <1>6, <1>7, <1>8, <1>9 DEF Files

-----------------------------------------------------------------------------
(* What each kind of sector that is pending does. *)

(***************************************************************************)
(* The invariant again, on a disk that still starts.                       *)
(***************************************************************************)
LEMMA Afterwards ==
  ASSUME NEW n, NEW S, DiskTypes', file' \in Handles, Chains(n, S)', Pending(n, S)', intact'
  PROVE  FilesInv'
  BY DEF FilesInv

\* What the sector written means for the files: none, or one that is new, gone or longer.
Effect(n) ==
  \E m, R :
    /\ Chains(m, R)'
    /\ \/ Files' = Files /\ m = n
       \/ \E e \in DirEntries :
            /\ \A g \in DirEntries \ {e} : m[g] = n[g] /\ (g \in Files' <=> g \in Files)
            /\ \/ e \notin Files /\ e \in Files' /\ m[e] \in {0, 1}
               \/ e \in Files /\ e \notin Files'
               \/ e \in Files /\ e \in Files' /\ n[e] > 0 /\ m[e] = n[e] + 1

(***************************************************************************)
(* The sector of a cluster in no file means nothing to the files.          *)
(***************************************************************************)
LEMMA NoEffect ==
  ASSUME NEW n, NEW S, Chains(n, S)', Files' = Files
  PROVE  Effect(n)
  BY DEF Effect

(***************************************************************************)
(* A handle that stays the same says the same of the same files.           *)
(***************************************************************************)
LEMMA HandleGoesOn ==
  ASSUME NEW n, NEW S, UNCHANGED file, Files' = Files, Handle(file, n, S)
  PROVE  Handle(file, n, S)'
  BY DEF Handle, Placeless, Placed, Link

(***************************************************************************)
(* A cluster that no file has any more is freed.                           *)
(***************************************************************************)
LEMMA FreesStep ==
  ASSUME WriteSector, DiskTypes, file \in Handles, intact, NEW n, NEW S, Chains(n, S), Handle(file, n, S),
         Frees(n, S)
  PROVE  FilesInv' /\ Effect(n)
  <1>1. writes # <<>> /\ writes \in Seq(FreeMarks)
    BY DEF WriteSector, Frees
  <1>2. /\ Len(writes) \in Nat /\ Len(writes) >= 1 /\ Head(writes) = writes[1] /\ writes[1] \in FreeMarks
        /\ Tail(writes) \in Seq(FreeMarks) /\ Len(Tail(writes)) = Len(writes) - 1
        /\ \A k \in 1..(Len(writes) - 1) : Tail(writes)[k] = writes[k + 1]
    BY <1>1
  <1>3. PICK c \in Clusters : Head(writes) = Mark(c, FAT64_CLUSTER_TAG_FREE, FAT64_CLUSTER_TAG_FREE)
    BY <1>2 DEF FreeMarks
  <1>4. c = writes[1].at
    BY <1>2, <1>3 DEF Mark
  <1>5. c \in DataClusters /\ ~ InFile(c, n, S)
    BY <1>2, <1>4 DEF Frees
  <1>6. /\ tags' = [tags EXCEPT ![c] = FreeTag] /\ UNCHANGED <<entries, intact, file, outside, losses>>
        /\ writes' = Tail(writes)
    BY <1>3, Written DEF FreeTag
  <1>7. FreeTag \in Int \X Int
    BY DEF FreeTag, FAT64_CLUSTER_TAG_FREE
  <1>8. /\ DiskTypes' /\ Chains(n, S)' /\ Files' = Files
        /\ tags'[c] = FreeTag /\ \A x \in Clusters \ {c} : tags'[x] = tags[x]
    <2>1. Tagged(c, FreeTag)
      BY <1>6 DEF Tagged
    <2>2. DiskTypes' /\ Chains(n, S)' /\ Files' = Files /\ OnlyTag(c, FreeTag)
      BY <1>5, <1>7, <2>1, TagKeeps
    <2> QED
      BY <2>2 DEF OnlyTag
  <1>9. Frees(n, S)'
    <2>1. \A k \in 1..Len(writes') : k \in Nat /\ k + 1 \in 1..Len(writes) /\ writes'[k] = writes[k + 1]
      BY <1>2, <1>6
    <2>2. \A k \in 1..Len(writes') : ~ InFile(writes'[k].at, n, S) /\ writes'[k].at \in DataClusters
      BY <2>1 DEF Frees
    <2>3. ASSUME losses = 0, NEW x \in DataClusters, tags'[x] # FreeTag, ~ InFile(x, n, S)
          PROVE  \E k \in 1..Len(writes') : x = writes'[k].at
      <3>1. x # c /\ tags[x] # FreeTag
        BY <1>8, <2>3, DiskFacts
      <3>2. PICK k \in 1..Len(writes) : x = writes[k].at
        BY <2>3, <3>1 DEF Frees, Accounted
      <3>3. k # 1
        BY <1>4, <3>1, <3>2
      <3>4. k - 1 \in 1..Len(writes') /\ (k - 1) + 1 = k
        BY <1>2, <1>6, <3>3
      <3> QED
        BY <2>1, <3>2, <3>4
    <2>4. writes' \in Seq(FreeMarks)
      BY <1>2, <1>6
    <2>5. Accounted(n, S, {writes[k].at : k \in 1..Len(writes)})'
      BY <1>6, <2>3 DEF Accounted, InFile
    <2> QED
      BY <2>2, <2>4, <2>5 DEF Frees, InFile
  <1>10. Pending(n, S)'
    BY <1>6, <1>8, <1>9, HandleGoesOn DEF Pending
  <1>11. FilesInv'
    BY <1>6, <1>8, <1>10, Afterwards
  <1> QED
    BY <1>11, <1>8, NoEffect


(***************************************************************************)
(* The boot sectors are written over.                                      *)
(***************************************************************************)
LEMMA RuinsBootStep ==
  ASSUME WriteSector, DiskTypes, file \in Handles, NEW n, NEW S, Chains(n, S), Handle(file, n, S), RuinsBoot
  PROVE  FilesInv' /\ Effect(n)
  <1>1. Head(writes) = BootSectors /\ Tail(writes) = <<>> /\ MayRuin
    BY DEF RuinsBoot
  <1>2. writes' = <<>> /\ UNCHANGED <<tags, entries, file, outside, losses>> /\ ~ intact'
    BY <1>1, Written
  <1>3. intact' \in BOOLEAN
    BY DEF WriteSector, DiskTypes
  <1>4. Files' = Files /\ MayRuin'
    BY <1>1, <1>2 DEF Files, MayRuin
  <1>5. DiskTypes'
    BY <1>2, <1>3 DEF DiskTypes
  <1>6. Chains(n, S)'
    BY <1>2 DEF Chains, Files, Link
  <1>7. Frees(n, S)'
    BY <1>2, NothingPending DEF Accounted
  <1>8. Handle(file, n, S)'
    BY <1>2, <1>4, HandleGoesOn
  <1>9. Pending(n, S)'
    BY <1>7, <1>8 DEF Pending
  <1>10. FilesInv'
    BY <1>2, <1>4, <1>5, <1>6, <1>9 DEF FilesInv
  <1> QED
    BY <1>4, <1>6, <1>10, NoEffect


(***************************************************************************)
(* The cluster of a new file is marked before it has an entry: a failure   *)
(* of the power here leaks it.                                             *)
(***************************************************************************)
LEMMA MarksFirstStep ==
  ASSUME WriteSector, DiskTypes, file \in Handles, intact, NEW n, NEW S, Chains(n, S),
         Handle(file, n, S), MarksFirst(n, S)
  PROVE  FilesInv' /\ Effect(n)
  <1> DEFINE t == <<FAT64_EOF, FAT64_EOF>>
  <1>1. PICK c \in FreeClusters :
          /\ \/ Files = DirEntries /\ writes = <<Mark(c, FAT64_EOF, FAT64_EOF), BootSectors>>
             \/ \E e \in DirEntries \ Files : writes = <<Mark(c, FAT64_EOF, FAT64_EOF), Entry(e, c, 0)>>
          /\ Accounted(n, S, {})
    BY DEF MarksFirst
  <1>2. c \in DataClusters /\ ~ InFile(c, n, S)
    BY FreeIsLoose
  <1>3. Head(writes) = Mark(c, FAT64_EOF, FAT64_EOF)
    BY <1>1
  <1>4. tags' = [tags EXCEPT ![c] = t] /\ UNCHANGED <<entries, intact, file, outside, losses>>
          /\ writes' = Tail(writes)
    BY <1>3, Written
  <1>5. t \in Int \X Int /\ t # FreeTag
    BY DEF FreeTag, FAT64_EOF, FAT64_CLUSTER_TAG_FREE
  <1>6. /\ DiskTypes' /\ Chains(n, S)' /\ Files' = Files
        /\ tags'[c] = t /\ \A x \in Clusters \ {c} : tags'[x] = tags[x]
    <2>1. Tagged(c, t)
      BY <1>4 DEF Tagged
    <2>2. DiskTypes' /\ Chains(n, S)' /\ Files' = Files /\ OnlyTag(c, t)
      BY <1>2, <1>5, <2>1, TagKeeps
    <2> QED
      BY <2>2 DEF OnlyTag
  <1>7. Handle(file, n, S)'
    BY <1>4, <1>6, HandleGoesOn
  <1>8. ASSUME Files = DirEntries /\ writes = <<Mark(c, FAT64_EOF, FAT64_EOF), BootSectors>>
        PROVE  FilesInv'
    <2>1. writes' = <<BootSectors>>
      BY <1>4, <1>8
    <2>2. RuinsBoot'
      BY <1>6, <1>8, <2>1 DEF RuinsBoot, MayRuin
    <2> QED
      BY <1>4, <1>6, <1>7, <2>2, Afterwards DEF Pending
  <1>9. ASSUME NEW e \in DirEntries \ Files, writes = <<Mark(c, FAT64_EOF, FAT64_EOF), Entry(e, c, 0)>>
        PROVE  FilesInv'
    <2>1. writes' = <<Entry(e, c, 0)>>
      BY <1>4, <1>9
    <2>2. Accounted(n, S, {c})'
      BY <1>1, <1>4, <1>6, DiskFacts DEF Accounted, InFile
    <2>3. AddsEntry(n, S)'
      BY <1>2, <1>6, <2>1, <2>2 DEF AddsEntry, InFile
    <2> QED
      BY <1>4, <1>6, <1>7, <2>3, Afterwards DEF Pending
  <1>10. FilesInv'
    BY <1>1, <1>8, <1>9
  <1> QED
    BY <1>10, <1>6, NoEffect


(***************************************************************************)
(* The entry of a file gets its new size.                                  *)
(***************************************************************************)
LEMMA ResizesStep ==
  ASSUME WriteSector, DiskTypes, file \in Handles, intact, NEW n, NEW S, Chains(n, S),
         Handle(file, n, S), Resizes(n, S)
  PROVE  FilesInv' /\ Effect(n)
  <1>1. PICK e \in Files, s \in Nat :
          /\ \/ n[e] = 0 /\ writes = <<Entry(e, FAT64_EOF, s), BootSectors>>
             \/ writes = <<Entry(e, entries[e].file, s)>>
          /\ n[e] # 0 => s <= Bytes(n[e])
          /\ Accounted(n, S, {})
    BY DEF Resizes
  <1>2. n[e] = 0 => entries[e].file = FAT64_EOF
    BY DEF Chains
  <1>3. Head(writes) = Entry(e, entries[e].file, s)
    BY <1>1, <1>2
  <1>4. /\ entries' = [entries EXCEPT ![e] = [valid |-> TRUE, file |-> entries[e].file, size |-> s]]
        /\ UNCHANGED <<tags, intact, file, outside, losses>> /\ writes' = Tail(writes)
    BY <1>3, Written DEF Entry
  <1>5. DiskTypes' /\ Chains(n, S)' /\ Files' = Files /\ \A g \in Files : entries'[g].file = entries[g].file
    BY <1>1, <1>4, SizeKeeps
  <1>6. Handle(file, n, S)'
    BY <1>4, <1>5, HandleGoesOn
  <1>7. ASSUME n[e] = 0 /\ writes = <<Entry(e, FAT64_EOF, s), BootSectors>>
        PROVE  FilesInv'
    <2>1. writes' = <<BootSectors>>
      BY <1>4, <1>7
    <2>2. MayRuin'
      BY <1>2, <1>5, <1>7 DEF MayRuin
    <2>3. RuinsBoot'
      BY <2>1, <2>2 DEF RuinsBoot
    <2> QED
      BY <1>4, <1>5, <1>6, <2>3, Afterwards DEF Pending
  <1>8. ASSUME writes = <<Entry(e, entries[e].file, s)>>
        PROVE  FilesInv'
    <2>1. writes' = <<>>
      BY <1>4, <1>8
    <2>2. Accounted(n, S, {})'
      BY <1>1, <1>4 DEF Accounted, InFile
    <2>3. Frees(n, S)'
      BY <2>1, <2>2, NothingPending
    <2> QED
      BY <1>4, <1>5, <1>6, <2>3, Afterwards DEF Pending
  <1>9. FilesInv'
    BY <1>1, <1>7, <1>8
  <1> QED
    BY <1>9, <1>5, NoEffect

(***************************************************************************)
(* Entry e gets its file, with the cluster c or none.                      *)
(***************************************************************************)
LEMMA AddsEntryStep ==
  ASSUME WriteSector, DiskTypes, file \in Handles, intact, NEW n, NEW S, Chains(n, S),
         Handle(file, n, S), AddsEntry(n, S)
  PROVE  FilesInv' /\ Effect(n)
  <1>1. PICK e \in DirEntries \ Files, c \in DataClusters \cup {FAT64_EOF} :
          /\ writes = <<Entry(e, c, 0)>>
          /\ c # FAT64_EOF => ~ InFile(c, n, S) /\ tags[c] = <<FAT64_EOF, FAT64_EOF>>
          /\ Accounted(n, S, {c})
    BY DEF AddsEntry
  <1> DEFINE r == [valid |-> TRUE, file |-> c, size |-> 0]
  <1>2. Head(writes) = SetEntry(e, r) /\ Tail(writes) = <<>>
    BY <1>1 DEF Entry
  <1>3. entries' = [entries EXCEPT ![e] = r] /\ UNCHANGED <<tags, intact, file, outside, losses>>
          /\ writes' = <<>>
    BY <1>2, Written
  <1>4. /\ r.valid = TRUE /\ r.file = c /\ r.size = 0 /\ r \in [valid : BOOLEAN, file : Int, size : Nat]
        /\ (c \in Clusters \/ c = FAT64_EOF)
    BY DiskFacts DEF FAT64_EOF
  <1> HIDE DEF r
  <1>5. e \in DirEntries /\ n[e] = 0 /\ n \in [DirEntries -> Nat] /\ S \in [DirEntries -> [Nat -> Int]]
        /\ entries \in [DirEntries -> [valid : BOOLEAN, file : Int, size : Nat]]
    BY <1>1 DEF Chains, Files, DiskTypes
  <1>6. entries'[e] = r /\ \A g \in DirEntries \ {e} : entries'[g] = entries[g]
    BY <1>3, <1>5
  <1>7. Files' = Files \cup {e}
    BY <1>4, <1>6 DEF Files
  <1>8. DiskTypes'
    <2>1. entries' \in [DirEntries -> [valid : BOOLEAN, file : Int, size : Nat]]
      BY <1>3, <1>4, <1>5
    <2> QED
      BY <1>3, <2>1 DEF DiskTypes
  <1>9. \E m, R : /\ m \in [DirEntries -> Nat] /\ R \in [DirEntries -> [Nat -> Int]]
                  /\ \A g \in DirEntries \ {e} : m[g] = n[g] /\ R[g] = S[g]
                  /\ c = FAT64_EOF => m[e] = 0
                  /\ c # FAT64_EOF => m[e] = 1 /\ R[e][1] = c
    <2>1. CASE c = FAT64_EOF
      BY <1>5, <2>1
    <2>2. CASE c # FAT64_EOF
      <3> DEFINE m == [n EXCEPT ![e] = 1]
                 s == [S[e] EXCEPT ![1] = c]
                 R == [S EXCEPT ![e] = s]
      <3>1. c \in Int /\ S[e] \in [Nat -> Int]
        BY <1>5, <2>2, DiskFacts
      <3>2. s \in [Nat -> Int] /\ s[1] = c
        BY <3>1
      <3> HIDE DEF s
      <3>3. /\ m \in [DirEntries -> Nat] /\ R \in [DirEntries -> [Nat -> Int]] /\ m[e] = 1 /\ R[e] = s
            /\ \A g \in DirEntries \ {e} : m[g] = n[g] /\ R[g] = S[g]
        BY <1>5, <3>2
      <3> HIDE DEF m, R
      <3> QED
        BY <2>2, <3>2, <3>3
    <2> QED
      BY <2>1, <2>2
  <1>10. PICK m, R : /\ m \in [DirEntries -> Nat] /\ R \in [DirEntries -> [Nat -> Int]]
                     /\ \A g \in DirEntries \ {e} : m[g] = n[g] /\ R[g] = S[g]
                     /\ c = FAT64_EOF => m[e] = 0
                     /\ c # FAT64_EOF => m[e] = 1 /\ R[e][1] = c
    BY <1>9
  <1>11. \A g \in DirEntries : \A i \in 1..m[g] :
           \/ g # e /\ i \in 1..n[g] /\ R[g][i] = S[g][i]
           \/ g = e /\ i = 1 /\ c # FAT64_EOF /\ R[g][i] = c
    BY <1>10
  <1>12. Chains(m, R)'
    <2>1. \A g \in DirEntries : ~ entries'[g].valid => m[g] = 0
      <3>1. TAKE g \in DirEntries
      <3>2. CASE g = e
        BY <1>4, <1>6, <3>2
      <3>3. CASE g # e
        BY <1>6, <1>10, <3>3 DEF Chains
      <3> QED
        BY <3>2, <3>3
    <2>2. \A g \in Files' : /\ m[g] = 0 => entries'[g].file = FAT64_EOF
                            /\ m[g] # 0 => entries'[g].file = R[g][1] /\ entries'[g].size <= Bytes(m[g])
      <3>1. TAKE g \in Files'
      <3>2. CASE g = e
        <4>1. Bytes(1) \in Nat
          BY BytesFacts
        <4> QED
          BY <1>4, <1>6, <1>10, <3>2, <4>1
      <3>3. CASE g # e
        <4>1. g \in Files /\ g \in DirEntries
          BY <1>7, <3>3 DEF Files
        <4> QED
          BY <1>6, <1>10, <3>3, <4>1 DEF Chains
      <3> QED
        BY <3>2, <3>3
    <2>3. \A g \in DirEntries :
            \A i \in 1..m[g] : R[g][i] \in DataClusters /\ tags'[R[g][i]] = Link(m, R, g, i)
      <3>1. TAKE g \in DirEntries
      <3>2. TAKE i \in 1..m[g]
      <3>3. CASE g # e
        <4>1. i \in 1..n[g] /\ R[g] = S[g] /\ m[g] = n[g]
          BY <1>10, <3>3
        <4>2. S[g][i] \in DataClusters /\ tags[S[g][i]] = Link(n, S, g, i)
          BY <4>1 DEF Chains
        <4> QED
          BY <1>3, <4>1, <4>2 DEF Link
      <3>4. CASE g = e
        <4>1. i = 1 /\ c # FAT64_EOF /\ R[g][i] = c /\ m[g] = 1
          BY <1>10, <3>4
        <4> QED
          BY <1>1, <1>3, <4>1 DEF Link
      <3> QED
        BY <3>3, <3>4
    <2>4. \A f, g \in DirEntries : \A i \in 1..m[f] : \A j \in 1..m[g] : R[f][i] = R[g][j] => f = g /\ i = j
      <3>1. c # FAT64_EOF => \A g \in DirEntries : \A i \in 1..n[g] : S[g][i] # c
        BY <1>1 DEF InFile
      <3>2. \A f, g \in DirEntries : \A i \in 1..n[f] : \A j \in 1..n[g] : S[f][i] = S[g][j] => f = g /\ i = j
        BY DEF Chains
      <3> QED
        BY <1>11, <3>1, <3>2
    <2> QED
      BY <1>10, <2>1, <2>2, <2>3, <2>4, Zenon DEF Chains, Link
  <1>13. Accounted(m, R, {})'
    <2>1. \A x : InFile(x, n, S) => InFile(x, m, R)
      BY <1>5, <1>10 DEF InFile
    <2>2. c # FAT64_EOF => InFile(c, m, R)
      <3>1. c # FAT64_EOF => 1 \in 1..m[e]
        BY <1>10
      <3> QED
        BY <1>5, <1>10, <3>1 DEF InFile
    <2> QED
      BY <1>1, <1>3, <2>1, <2>2, DiskFacts DEF Accounted, InFile
  <1>14. Handle(file, m, R)'
    <2>1. CASE file.cluster = 0
      BY <1>3, <2>1 DEF Handle
    <2>2. CASE file.num \in Files
      <3>1. file.num \in DirEntries \ {e} /\ m[file.num] = n[file.num] /\ R[file.num] = S[file.num]
        BY <1>1, <1>10, <2>2 DEF Files
      <3>2. Handle(file', m, R)
        BY <1>3, <2>2, <3>1 DEF Handle, Placeless, Placed, Link
      <3>3. file'.num \in Files' \/ file'.cluster = 0
        BY <1>3, <1>7, <2>2
      <3> QED
        BY <3>2, <3>3 DEF Handle, Placeless, Placed, Link
    <2> QED
      BY <2>1, <2>2 DEF Handle
  <1>15. Pending(m, R)'
    BY <1>3, <1>13, <1>14, NothingPending DEF Pending
  <1>16. FilesInv'
    BY <1>3, <1>8, <1>12, <1>15, Afterwards
  <1>17. Effect(n)
    <2>1. e \in DirEntries /\ e \notin Files /\ e \in Files' /\ m[e] \in {0, 1}
      BY <1>1, <1>7, <1>10
    <2>2. \A g \in DirEntries \ {e} : m[g] = n[g] /\ (g \in Files' <=> g \in Files)
      BY <1>7, <1>10
    <2> QED
      BY <1>12, <2>1, <2>2 DEF Effect
  <1> QED
    BY <1>16, <1>17


(***************************************************************************)
(* What is left of a sequence without its first element.                   *)
(***************************************************************************)
LEMMA HeadTail ==
  ASSUME NEW T, NEW w \in Seq(T), NEW a
  PROVE  Head(<<a>> \o w) = a /\ Tail(<<a>> \o w) = w
  <1> DEFINE s == <<a>> \o w
             t == Tail(s)
  <1>1. w \in Seq(T \cup {a}) /\ Len(w) \in Nat
    OBVIOUS
  <1>2. s \in Seq(T \cup {a}) /\ Len(s) = 1 + Len(w) /\ s[1] = a /\ \A i \in 1..Len(w) : s[i + 1] = w[i]
    OBVIOUS
  <1> HIDE DEF s
  <1>3. Head(s) = a /\ t \in Seq(T \cup {a}) /\ Len(t) = Len(w) /\ \A i \in 1..Len(w) : t[i] = s[i + 1]
    BY <1>1, <1>2
  <1> HIDE DEF t
  <1>4. \A i \in 1..Len(t) : t[i] = w[i]
    BY <1>2, <1>3
  <1>5. t = w
    BY <1>1, <1>3, <1>4, SameSeq
  <1> QED
    BY <1>3, <1>5 DEF s, t

(***************************************************************************)
(* The entry of a file is taken out: its clusters are in no file from here *)
(* on.                                                                     *)
(***************************************************************************)
LEMMA RemovesStep ==
  ASSUME WriteSector, DiskTypes, file \in Handles, intact, NEW n, NEW S, Chains(n, S), Removes(n, S)
  PROVE  FilesInv' /\ Effect(n)
  <1>1. PICK e \in Files, s \in Nat, w \in Seq(FreeMarks) :
          /\ writes = <<SetEntry(e, [valid |-> FALSE, file |-> entries[e].file, size |-> s])>> \o w
          /\ \A k \in 1..Len(w) : \E i \in 1..n[e] : w[k].at = S[e][i]
          /\ file.cluster = 0
          /\ losses = 0 => \A i \in 1..n[e] : \E k \in 1..Len(w) : w[k].at = S[e][i]
          /\ Accounted(n, S, {})
    BY DEF Removes
  <1> DEFINE r == [valid |-> FALSE, file |-> entries[e].file, size |-> s]
             m == [n EXCEPT ![e] = 0]
  <1>2. Head(writes) = SetEntry(e, r) /\ Tail(writes) = w
    BY <1>1, HeadTail
  <1>3. entries' = [entries EXCEPT ![e] = r] /\ UNCHANGED <<tags, intact, file, outside, losses>>
          /\ writes' = w
    BY <1>2, Written
  <1>4. e \in DirEntries /\ n \in [DirEntries -> Nat] /\ S \in [DirEntries -> [Nat -> Int]]
        /\ entries \in [DirEntries -> [valid : BOOLEAN, file : Int, size : Nat]]
    BY <1>1 DEF Chains, Files, DiskTypes
  <1>5. r.valid = FALSE /\ r \in [valid : BOOLEAN, file : Int, size : Nat]
    BY <1>1, <1>4
  <1> HIDE DEF r
  <1>6. entries'[e] = r /\ \A g \in DirEntries \ {e} : entries'[g] = entries[g]
    BY <1>3, <1>4
  <1>7. Files' = Files \ {e}
    BY <1>5, <1>6 DEF Files
  <1>8. DiskTypes'
    <2>1. entries' \in [DirEntries -> [valid : BOOLEAN, file : Int, size : Nat]]
      BY <1>3, <1>4, <1>5
    <2> QED
      BY <1>3, <2>1 DEF DiskTypes
  <1>9. m \in [DirEntries -> Nat] /\ m[e] = 0 /\ \A g \in DirEntries \ {e} : m[g] = n[g]
    BY <1>4
  <1> HIDE DEF m
  <1>10. \A g \in DirEntries : \A i \in 1..m[g] : g # e /\ i \in 1..n[g]
    BY <1>9
  <1>11. Chains(m, S)'
    <2>1. \A g \in DirEntries : ~ entries'[g].valid => m[g] = 0
      <3>1. TAKE g \in DirEntries
      <3>2. CASE g = e
        BY <1>9, <3>2
      <3>3. CASE g # e
        BY <1>6, <1>9, <3>3 DEF Chains
      <3> QED
        BY <3>2, <3>3
    <2>2. \A g \in Files' : /\ m[g] = 0 => entries'[g].file = FAT64_EOF
                            /\ m[g] # 0 => entries'[g].file = S[g][1] /\ entries'[g].size <= Bytes(m[g])
      <3>1. TAKE g \in Files'
      <3>2. g \in Files /\ g \in DirEntries \ {e}
        BY <1>7 DEF Files
      <3> QED
        BY <1>6, <1>9, <3>2, ZenonT(40) DEF Chains
    <2>3. \A g \in DirEntries :
            \A i \in 1..m[g] : S[g][i] \in DataClusters /\ tags'[S[g][i]] = Link(m, S, g, i)
      <3>1. TAKE g \in DirEntries
      <3>2. TAKE i \in 1..m[g]
      <3>3. i \in 1..n[g] /\ m[g] = n[g]
        BY <1>9, <1>10
      <3>4. S[g][i] \in DataClusters /\ tags[S[g][i]] = Link(n, S, g, i)
        BY <3>3 DEF Chains
      <3> QED
        BY <1>3, <3>3, <3>4 DEF Link
    <2>4. \A f, g \in DirEntries : \A i \in 1..m[f] : \A j \in 1..m[g] : S[f][i] = S[g][j] => f = g /\ i = j
      <3>1. \A f, g \in DirEntries : \A i \in 1..n[f] : \A j \in 1..n[g] : S[f][i] = S[g][j] => f = g /\ i = j
        BY DEF Chains
      <3> QED
        BY <1>10, <3>1, ZenonT(30)
    <2> QED
      BY <1>4, <1>9, <2>1, <2>2, <2>3, <2>4, Zenon DEF Chains, Link
  <1>12. Frees(m, S)'
    <2>1. \A k \in 1..Len(w) : ~ InFile(w[k].at, m, S) /\ w[k].at \in DataClusters
      <3>1. TAKE k \in 1..Len(w)
      <3>2. PICK i \in 1..n[e] : w[k].at = S[e][i]
        BY <1>1
      <3>3. S[e][i] \in DataClusters
        BY <1>4 DEF Chains
      <3>4. \A g \in DirEntries : \A j \in 1..m[g] : S[g][j] # S[e][i]
        BY <1>4, <1>10, ZenonT(40) DEF Chains
      <3> QED
        BY <3>2, <3>3, <3>4 DEF InFile
    <2>2. ASSUME losses = 0, NEW x \in DataClusters, tags[x] # FreeTag, ~ InFile(x, m, S)
          PROVE  x \in {w[k].at : k \in 1..Len(w)}
      <3>1. InFile(x, n, S)
        BY <1>1, <2>2 DEF Accounted
      <3>2. PICK g \in DirEntries : \E i \in 1..n[g] : S[g][i] = x
        BY <3>1 DEF InFile
      <3>3. PICK i \in 1..n[g] : S[g][i] = x
        BY <3>2
      <3>4. g = e
        BY <1>9, <2>2, <3>3 DEF InFile
      <3> QED
        BY <1>1, <2>2, <3>3, <3>4
    <2>3. Accounted(m, S, {w[k].at : k \in 1..Len(w)})'
      BY <1>3, <2>2 DEF Accounted, InFile
    <2> QED
      BY <1>1, <1>3, <2>1, <2>3 DEF Frees, InFile
  <1>13. Handle(file, m, S)'
    BY <1>1, <1>3 DEF Handle
  <1>14. Pending(m, S)'
    BY <1>12, <1>13 DEF Pending
  <1>15. FilesInv'
    BY <1>3, <1>8, <1>11, <1>14, Afterwards
  <1>16. Effect(n)
    <2>1. e \in DirEntries /\ e \in Files /\ e \notin Files'
      BY <1>4, <1>7
    <2>2. \A g \in DirEntries \ {e} : m[g] = n[g] /\ (g \in Files' <=> g \in Files)
      BY <1>7, <1>9
    <2> QED
      BY <1>11, <2>1, <2>2 DEF Effect
  <1> QED
    BY <1>15, <1>16

(***************************************************************************)
(* What the sector of a tag changes.                                       *)
(***************************************************************************)
LEMMA TagWritten ==
  ASSUME WriteSector, DiskTypes, NEW c, NEW p, NEW q, Head(writes) = Mark(c, p, q)
  PROVE  /\ tags' = [tags EXCEPT ![c] = <<p, q>>]
         /\ UNCHANGED <<entries, intact, file, outside, losses>> /\ writes' = Tail(writes)
  BY Written

\* The second half of Extends: c has its tag.
Leads(n, S, e, c, s, last) ==
  /\ n[e] # 0 /\ s <= Bytes(n[e] + 1) /\ HandleAhead(file, n, S, e, c) /\ ~ InFile(c, n, S)
       /\ last = S[e][n[e]]
  /\ tags[c] = <<last, FAT64_EOF>> /\ Accounted(n, S, {c})
  /\ writes = <<Mark(last, tags[last][1], c), Entry(e, entries[e].file, s)>>

(***************************************************************************)
(* The last cluster of e leads to c: the chain is one longer.              *)
(***************************************************************************)
LEMMA LeadStep ==
  ASSUME WriteSector, DiskTypes, file \in Handles, intact, NEW n, NEW S, Chains(n, S),
         NEW e \in Files, NEW c \in DataClusters, NEW s \in Nat, NEW last, Leads(n, S, e, c, s, last)
  PROVE  FilesInv' /\ Effect(n)
  <1>1. /\ n[e] # 0 /\ s <= Bytes(n[e] + 1) /\ HandleAhead(file, n, S, e, c) /\ ~ InFile(c, n, S)
             /\ last = S[e][n[e]]
         /\ tags[c] = <<last, FAT64_EOF>> /\ Accounted(n, S, {c})
         /\ writes = <<Mark(last, tags[last][1], c), Entry(e, entries[e].file, s)>>
    BY DEF Leads
  <1> DEFINE k == n[e] + 1
             m == [n EXCEPT ![e] = k]
             q == [S[e] EXCEPT ![k] = c]
             R == [S EXCEPT ![e] = q]
             p == tags[last][1]
  <1> HIDE DEF m, q, R
  <1>2. /\ e \in DirEntries /\ n \in [DirEntries -> Nat] /\ S \in [DirEntries -> [Nat -> Int]]
        /\ \A g \in DirEntries :
             \A i \in 1..n[g] : S[g][i] \in DataClusters /\ tags[S[g][i]] = Link(n, S, g, i)
        /\ tags \in [Clusters -> Int \X Int]
    BY DEF Files, Chains, DiskTypes
  <1>3. n[e] \in Nat /\ n[e] >= 1 /\ n[e] \in 1..n[e] /\ k \in Nat /\ k = n[e] + 1
    BY <1>1, <1>2
  <1>4. last \in DataClusters /\ last \in Clusters /\ c \in Clusters /\ c # last /\ c \in Int /\ c # FAT64_EOF
        /\ tags[last] = Link(n, S, e, n[e])
    <2>1. last \in DataClusters /\ tags[last] = Link(n, S, e, n[e])
      BY <1>1, <1>2, <1>3
    <2>2. c # last
      BY <1>1, <1>2, <1>3 DEF InFile
    <2> QED
      BY <1>1, <2>1, <2>2, DiskFacts
  <1> HIDE DEF k
  <1>5. /\ tags' = [tags EXCEPT ![last] = <<tags[last][1], c>>]
        /\ UNCHANGED <<entries, intact, file, outside, losses>> /\ writes' = <<Entry(e, entries[e].file, s)>>
    <2>1. Head(writes) = Mark(last, p, c) /\ Tail(writes) = <<Entry(e, entries[e].file, s)>>
      BY <1>1
    <2> HIDE DEF p
    <2>2. /\ tags' = [tags EXCEPT ![last] = <<p, c>>]
          /\ UNCHANGED <<entries, intact, file, outside, losses>> /\ writes' = Tail(writes)
      BY <2>1, TagWritten
    <2> QED
      BY <1>1, <2>1, <2>2 DEF p
  <1>6. tags[last][1] \in Int
    BY <1>1, <1>2, <1>4
  <1>7. /\ tags' \in [Clusters -> Int \X Int]
        /\ tags'[last] = <<tags[last][1], c>> /\ \A x \in Clusters \ {last} : tags'[x] = tags[x]
    BY <1>1, <1>2, <1>4, <1>5, <1>6
  <1>8. DiskTypes' /\ Files' = Files
    <2>1. \A x \in Clusters \ DataClusters : tags'[x] = tags[x]
      BY <1>1, <1>4, <1>7
    <2> QED
      BY <1>1, <1>5, <1>7, <2>1 DEF DiskTypes, Files
  <1>9. q \in [Nat -> Int] /\ q[k] = c /\ \A i \in 1..n[e] : i # k /\ q[i] = S[e][i]
    BY <1>1, <1>2, <1>3, <1>4 DEF q
  <1>10. /\ m \in [DirEntries -> Nat] /\ R \in [DirEntries -> [Nat -> Int]]
        /\ m[e] = k /\ R[e] = q /\ \A g \in DirEntries \ {e} : m[g] = n[g] /\ R[g] = S[g]
    BY <1>1, <1>2, <1>3, <1>9 DEF m, R
  <1>11. R[e][k] = c /\ \A i \in 1..n[e] : i # k /\ R[e][i] = S[e][i]
    BY <1>1, <1>9, <1>10
  <1>12. \A g \in DirEntries : \A i \in 1..m[g] :
           \/ i \in 1..n[g] /\ R[g][i] = S[g][i]
           \/ g = e /\ i = k /\ R[g][i] = c
    <2>1. TAKE g \in DirEntries
    <2>2. CASE g # e
      BY <1>1, <1>10, <2>2
    <2>3. CASE g = e
      BY <1>1, <1>3, <1>10, <1>11, <2>3
    <2> QED
      BY <1>1, <2>2, <2>3
  <1>13. \A f, g \in DirEntries : \A i \in 1..n[f] : \A j \in 1..n[g] : S[f][i] = S[g][j] => f = g /\ i = j
    BY DEF Chains
  <1>14. Chains(m, R)'
    <2>1. \A g \in DirEntries : ~ entries'[g].valid => m[g] = 0
      <3>1. TAKE g \in DirEntries
      <3>2. CASE g = e
        BY <1>1, <1>5, <3>2 DEF Files
      <3>3. CASE g # e
        BY <1>1, <1>5, <1>10, <3>3 DEF Chains
      <3> QED
        BY <1>1, <3>2, <3>3
    <2>2. \A g \in Files' : /\ m[g] = 0 => entries'[g].file = FAT64_EOF
                            /\ m[g] # 0 => entries'[g].file = R[g][1] /\ entries'[g].size <= Bytes(m[g])
      <3>1. TAKE g \in Files'
      <3>2. CASE g = e
        <4>1. entries[e].file = S[e][1] /\ entries[e].size <= Bytes(n[e]) /\ entries[e].size \in Nat
          BY <1>1, <1>2 DEF Chains, DiskTypes
        <4>2. R[e][1] = S[e][1]
          BY <1>1, <1>3, <1>11
        <4>3. Bytes(n[e]) \in Nat /\ Bytes(k) \in Nat /\ Bytes(n[e]) <= Bytes(k)
          BY <1>1, <1>3, BytesFacts, SMTT(30)
        <4> QED
          BY <1>1, <1>3, <1>5, <1>10, <3>2, <4>1, <4>2, <4>3
      <3>3. CASE g # e
        <4>1. g \in Files /\ g \in DirEntries
          BY <1>1, <1>8, <3>3 DEF Files
        <4> QED
          BY <1>1, <1>5, <1>10, <3>3, <4>1 DEF Chains
      <3> QED
        BY <1>1, <3>2, <3>3
    <2>3. \A g \in DirEntries :
            \A i \in 1..m[g] : R[g][i] \in DataClusters /\ tags'[R[g][i]] = Link(m, R, g, i)
      <3>1. TAKE g \in DirEntries
      <3>2. TAKE i \in 1..m[g]
      <3>3. CASE g # e
        <4>1. i \in 1..n[g] /\ R[g] = S[g] /\ m[g] = n[g]
          BY <1>1, <1>10, <3>3
        <4>2. S[g][i] \in DataClusters /\ tags[S[g][i]] = Link(n, S, g, i)
          BY <1>1, <1>2, <4>1
        <4>3. S[g][i] # last
          BY <1>1, <1>2, <1>3, <1>13, <3>3, <4>1
        <4> QED
          BY <1>1, <1>7, <4>1, <4>2, <4>3, DiskFacts DEF Link
      <3>4. CASE g = e /\ i = k
        <4>1. tags'[c] = <<last, FAT64_EOF>> /\ R[g][i] = c
          BY <1>1, <1>4, <1>7, <1>11, <3>4
        <4>2. Link(m, R, g, i) = <<last, FAT64_EOF>>
          <5>1. k # 1 /\ k - 1 = n[e] /\ m[e] = k /\ R[e][n[e]] = last
            BY <1>1, <1>3, <1>10, <1>11
          <5> QED
            BY <1>1, <3>4, <5>1 DEF Link
        <4> QED
          BY <1>1, <4>1, <4>2
      <3>5. CASE g = e /\ i = n[e]
        <4>1. R[g][i] = last /\ tags'[last] = <<tags[last][1], c>>
          BY <1>1, <1>3, <1>7, <1>11, <3>5
        <4>2. tags[last][1] = IF i = 1 THEN FAT64_EOF ELSE S[e][i - 1]
          BY <1>1, <1>4, <3>5 DEF Link
        <4>3. i # 1 => R[e][i - 1] = S[e][i - 1]
          BY <1>1, <1>3, <1>11, <3>5
        <4>4. i # m[g] /\ R[g][i + 1] = c
          BY <1>1, <1>3, <1>10, <1>11, <3>5
        <4>5. Link(m, R, g, i) = <<tags[last][1], c>>
          BY <1>1, <3>5, <4>2, <4>3, <4>4 DEF Link
        <4> QED
          BY <1>1, <1>4, <4>1, <4>5
      <3>6. CASE g = e /\ i # k /\ i # n[e]
        <4>1. i \in 1..n[e] /\ i + 1 \in 1..n[e] /\ m[e] = k /\ i \in Nat
          <5>1. i \in 1..k /\ m[e] = k
            BY <1>1, <1>10, <3>6
          <5> QED
            BY <1>1, <1>3, <3>6, <5>1
        <4>2. S[e][i] \in DataClusters /\ tags[S[e][i]] = Link(n, S, e, i)
          BY <1>1, <1>2, <4>1
        <4>3. S[e][i] # last
          BY <1>1, <1>2, <1>3, <1>13, <3>6, <4>1
        <4>4. R[e][i] = S[e][i] /\ R[e][i + 1] = S[e][i + 1] /\ (i # 1 => R[e][i - 1] = S[e][i - 1])
          BY <1>1, <1>3, <1>11, <4>1
        <4>5. Link(m, R, e, i) = Link(n, S, e, i)
          BY <1>1, <3>6, <4>1, <4>4 DEF Link
        <4> QED
          BY <1>1, <1>7, <3>6, <4>2, <4>3, <4>4, <4>5, DiskFacts
      <3> QED
        BY <1>1, <3>3, <3>4, <3>5, <3>6
    <2>4. \A f, g \in DirEntries : \A i \in 1..m[f] : \A j \in 1..m[g] : R[f][i] = R[g][j] => f = g /\ i = j
      <3>1. \A g \in DirEntries : \A i \in 1..n[g] : S[g][i] # c
        BY <1>1 DEF InFile
      <3>2. TAKE f, g \in DirEntries
      <3>3. TAKE i \in 1..m[f]
      <3>4. TAKE j \in 1..m[g]
      <3>5. (i \in 1..n[f] /\ R[f][i] = S[f][i]) \/ (f = e /\ i = k /\ R[f][i] = c)
        BY <1>1, <1>12
      <3>6. (j \in 1..n[g] /\ R[g][j] = S[g][j]) \/ (g = e /\ j = k /\ R[g][j] = c)
        BY <1>1, <1>12
      <3> QED
        <4>1. CASE i \in 1..n[f] /\ R[f][i] = S[f][i] /\ j \in 1..n[g] /\ R[g][j] = S[g][j]
          <5>1. S[f][i] = S[g][j] => f = g /\ i = j
            BY <1>1, <1>13, <4>1
          <5> QED
            BY <1>1, <4>1, <5>1
        <4>2. CASE f = e /\ i = k /\ g = e /\ j = k
          BY <1>1, <4>2
        <4> QED
          BY <1>1, <3>1, <3>5, <3>6, <4>1, <4>2
    <2> QED
      BY <1>1, <1>10, <2>1, <2>2, <2>3, <2>4, Zenon DEF Chains, Link
  <1>15. Accounted(m, R, {})'
    <2>1. \A x : InFile(x, n, S) => InFile(x, m, R)
      <3>1. TAKE x
      <3>2. SUFFICES ASSUME InFile(x, n, S)
                     PROVE  InFile(x, m, R)
        OBVIOUS
      <3>3. PICK g \in DirEntries : \E i \in 1..n[g] : S[g][i] = x
        BY <1>1, <3>2 DEF InFile
      <3>4. PICK i \in 1..n[g] : S[g][i] = x
        BY <1>1, <3>3
      <3>5. i \in 1..m[g] /\ R[g][i] = x
        <4>1. CASE g = e
          <5>1. i \in 1..n[e] /\ m[e] = k /\ S[e][i] = x
            BY <1>1, <1>10, <3>4, <4>1
          <5>2. i \in 1..k
            BY <1>1, <1>3, <5>1
          <5> QED
            BY <1>1, <1>11, <4>1, <5>1, <5>2
        <4>2. CASE g # e
          BY <1>1, <1>10, <3>4, <4>2
        <4> QED
          BY <1>1, <4>1, <4>2
      <3> QED
        BY <1>1, <3>5 DEF InFile
    <2>2. InFile(c, m, R)
      <3>1. k \in 1..m[e]
        BY <1>1, <1>3, <1>10
      <3> QED
        BY <1>1, <1>2, <1>11, <3>1 DEF InFile
    <2>3. \A x \in DataClusters : tags'[x] # FreeTag => x = last \/ tags[x] # FreeTag
      BY <1>1, <1>7, DiskFacts
    <2>4. InFile(last, n, S)
      BY <1>1, <1>2, <1>3 DEF InFile
    <2> QED
      BY <1>1, <1>5, <2>1, <2>2, <2>3, <2>4 DEF Accounted, InFile
  <1>16. Handle(file, m, R)'
    <2>1. Placed(file, m, R, k)
      <3>1. /\ file.num = e /\ file.first = S[e][1] /\ file.size <= Bytes(k)
            /\ file.cluster = c /\ file.prev = last /\ file.next = FAT64_EOF
            /\ file.location = 1 /\ file.abs = Bytes(n[e]) + 1
        BY <1>1, <1>3 DEF HandleAhead
      <3>2. k - 1 = n[e] /\ k # 1 /\ R[e][1] = S[e][1] /\ R[e][n[e]] = last
        BY <1>1, <1>3, <1>11
      <3>3. 1 \in 0..(FAT64_CLUSTER_SIZE - 1)
        BY DiskFacts
      <3>4. <<file.prev, file.next>> = Link(m, R, e, k)
        BY <1>1, <1>10, <3>1, <3>2 DEF Link
      <3> QED
        BY <1>1, <1>10, <1>11, <3>1, <3>2, <3>3, <3>4 DEF Placed
    <2>2. k \in 1..m[e] /\ file.num = e
      BY <1>1, <1>3, <1>10 DEF HandleAhead
    <2>3. Handle(file, m, R)
      BY <1>1, <2>1, <2>2 DEF Handle
    <2> QED
      BY <1>1, <1>5, <1>8, <2>3, HandleGoesOn
  <1>17. Resizes(m, R)'
    <2>1. /\ writes' = <<Entry(e, entries'[e].file, s)>> /\ e \in Files' /\ (m[e] # 0 => s <= Bytes(m[e]))
      BY <1>1, <1>3, <1>5, <1>8, <1>10
    <2> QED
      BY <1>1, <1>15, <2>1 DEF Resizes
  <1>18. FilesInv'
    BY <1>1, <1>5, <1>8, <1>14, <1>16, <1>17, Afterwards DEF Pending
  <1>19. Effect(n)
    <2>1. e \in DirEntries /\ e \in Files /\ e \in Files' /\ n[e] > 0 /\ m[e] = n[e] + 1
      BY <1>2, <1>3, <1>8, <1>10
    <2>2. \A g \in DirEntries \ {e} : m[g] = n[g] /\ (g \in Files' <=> g \in Files)
      BY <1>8, <1>10
    <2> QED
      BY <1>14, <2>1, <2>2 DEF Effect
  <1> QED
    BY <1>18, <1>19


(***************************************************************************)
(* fat64_putc extends a file: the new cluster is marked, then led to, and  *)
(* then the size follows.                                                  *)
(***************************************************************************)
LEMMA ExtendsStep ==
  ASSUME WriteSector, DiskTypes, file \in Handles, intact, NEW n, NEW S, Chains(n, S), Extends(n, S)
  PROVE  FilesInv' /\ Effect(n)
  <1> DEFINE Lead(e, c) == Mark(S[e][n[e]], tags[S[e][n[e]]][1], c)
             Rest(e, s) == Entry(e, entries[e].file, s)
  <1>1. PICK e \in Files, c \in DataClusters, s \in Nat :
          /\ n[e] # 0 /\ s <= Bytes(n[e] + 1) /\ HandleAhead(file, n, S, e, c)
          /\ ~ InFile(c, n, S)
          /\ \/ /\ tags[c] = <<S[e][n[e]], FAT64_EOF>> /\ writes = <<Lead(e, c), Rest(e, s)>>
                     /\ Accounted(n, S, {c})
             \/ /\ tags[c] = FreeTag
                /\ writes = <<Mark(c, S[e][n[e]], FAT64_EOF), Lead(e, c), Rest(e, s)>> /\ Accounted(n, S, {})
    BY DEF Extends
  <1> DEFINE last == S[e][n[e]]
             t == <<last, FAT64_EOF>>
  <1>2. CASE tags[c] = t /\ writes = <<Lead(e, c), Rest(e, s)>> /\ Accounted(n, S, {c})
    BY <1>1, <1>2, LeadStep DEF Leads
  <1>3. CASE tags[c] = FreeTag /\ writes = <<Mark(c, last, FAT64_EOF), Lead(e, c), Rest(e, s)>>
          /\ Accounted(n, S, {})
    <2>1. e \in DirEntries /\ n[e] \in 1..n[e] /\ last \in DataClusters /\ last \in Int /\ c # last
      <3>1. e \in DirEntries /\ n[e] \in 1..n[e]
        BY <1>1 DEF Files, Chains
      <3>2. last \in DataClusters
        BY <3>1, LinksTaken
      <3>3. c # last
        BY <1>1, <3>1 DEF InFile
      <3> HIDE DEF last
      <3>4. last \in Int
        BY <3>2, DiskFacts
      <3> QED
        BY <3>1, <3>2, <3>3, <3>4
    <2>2. Head(writes) = Mark(c, last, FAT64_EOF) /\ Tail(writes) = <<Lead(e, c), Rest(e, s)>>
      BY <1>3
    <2>3. /\ tags' = [tags EXCEPT ![c] = t]
          /\ UNCHANGED <<entries, intact, file, outside, losses>> /\ writes' = Tail(writes)
      BY <2>2, Written
    <2>4. t \in Int \X Int /\ t = <<last, FAT64_EOF>>
      BY <2>1 DEF FAT64_EOF
    <2> HIDE DEF t
    <2>5. DiskTypes' /\ Chains(n, S)' /\ Files' = Files /\ OnlyTag(c, t)
      <3>1. Tagged(c, t)
        BY <2>3 DEF Tagged
      <3> QED
        BY <1>1, <2>4, <3>1, TagKeeps
    <2>6. tags'[c] = t /\ \A x \in Clusters \ {c} : tags'[x] = tags[x]
      BY <2>5 DEF OnlyTag
    <2>7. tags'[last] = tags[last]
      BY <2>1, <2>6, DiskFacts
    <2>8. Accounted(n, S, {c})'
      BY <1>3, <2>3, <2>6, DiskFacts DEF Accounted, InFile
    <2>9. writes' = <<Mark(last, tags'[last][1], c), Entry(e, entries'[e].file, s)>>
      BY <2>2, <2>3, <2>7
    <2>10. HandleAhead(file, n, S, e, c)'
      BY <1>1, <2>3 DEF HandleAhead
    <2>11. Extends(n, S)'
      <3>1. e \in Files' /\ ~ InFile(c, n, S)'
        BY <1>1, <2>5 DEF InFile
      <3> QED
        BY <1>1, <2>4, <2>6, <2>8, <2>9, <2>10, <3>1 DEF Extends
    <2> QED
      <3>1. FilesInv'
        BY <2>3, <2>5, <2>11, Afterwards DEF Pending
      <3> QED
        BY <2>5, <3>1, NoEffect
  <1> QED
    BY <1>1, <1>2, <1>3

-----------------------------------------------------------------------------
(* The invariant holds. *)

(***************************************************************************)
(* The disk that _fat64_mkfs has made.                                     *)
(***************************************************************************)
LEMMA InitFiles == Fat64Init => FilesInv
  <1> SUFFICES ASSUME Fat64Init
               PROVE  FilesInv
    OBVIOUS
  <1> DEFINE n == [e \in DirEntries |-> 0]
             S == [e \in DirEntries |-> [i \in Nat |-> 0]]
  <1>1. n \in [DirEntries -> Nat] /\ S \in [DirEntries -> [Nat -> Int]] /\ \A e \in DirEntries : n[e] = 0
    OBVIOUS
  <1> HIDE DEF n, S
  <1>2. DiskTypes
    <2>1. FreeTag \in Int \X Int /\ \A c \in Clusters \ DataClusters : SystemTag(c) \in Int \X Int
      BY SystemTaken DEF FreeTag, FAT64_CLUSTER_TAG_FREE
    <2>2. tags \in [Clusters -> Int \X Int] /\ \A c \in Clusters \ DataClusters : tags[c] = SystemTag(c)
      BY <2>1 DEF Fat64Init
    <2>3. entries \in [DirEntries -> [valid : BOOLEAN, file : Int, size : Nat]]
      BY DEF Fat64Init
    <2> QED
      BY <2>2, <2>3 DEF Fat64Init, DiskTypes
  <1>3. Files = {}
    BY DEF Fat64Init, Files
  <1>4. Chains(n, S)
    <2>1. \A e \in DirEntries : 1..n[e] = {}
      BY <1>1
    <2> QED
      BY <1>1, <1>3, <2>1 DEF Chains
  <1>5. \A c \in DataClusters : tags[c] = FreeTag
    BY DiskFacts DEF Fat64Init
  <1>6. writes = <<>> /\ file = BadHandle /\ intact
    BY DEF Fat64Init
  <1>7. Frees(n, S)
    <2>1. writes \in Seq(FreeMarks) /\ Len(writes) = 0
      BY <1>6
    <2>2. 1..Len(writes) = {}
      BY <2>1
    <2>3. Accounted(n, S, {writes[k].at : k \in 1..Len(writes)})
      BY <1>5 DEF Accounted
    <2> QED
      BY <2>1, <2>2, <2>3 DEF Frees
  <1>8. Handle(file, n, S) /\ file \in Handles
    BY <1>6, BadHandleFits
  <1>9. Pending(n, S)
    BY <1>7, <1>8 DEF Pending
  <1> QED
    BY <1>2, <1>4, <1>6, <1>8, <1>9 DEF FilesInv

(***************************************************************************)
(* Each sector a call writes keeps the invariant and has at most one file  *)
(* come, go or grow.                                                       *)
(***************************************************************************)
LEMMA WriteSectorStep ==
  ASSUME FilesInv, WriteSector
  PROVE  FilesInv' /\ \E n, S : Chains(n, S) /\ Effect(n)
  <1>1. DiskTypes /\ file \in Handles /\ writes # <<>> /\ intact
    BY DEF FilesInv, WriteSector
  <1>2. PICK n, S : Chains(n, S) /\ Pending(n, S)
    BY DEF FilesInv
  <1>3. FilesInv' /\ Effect(n)
    <2>1. CASE Extends(n, S)
      BY <1>1, <1>2, <2>1, ExtendsStep
    <2>2. CASE Removes(n, S)
      BY <1>1, <1>2, <2>2, RemovesStep
    <2>3. CASE Handle(file, n, S) /\ Frees(n, S)
      BY <1>1, <1>2, <2>3, FreesStep
    <2>4. CASE Handle(file, n, S) /\ RuinsBoot
      BY <1>1, <1>2, <2>4, RuinsBootStep
    <2>5. CASE Handle(file, n, S) /\ AddsEntry(n, S)
      BY <1>1, <1>2, <2>5, AddsEntryStep
    <2>6. CASE Handle(file, n, S) /\ MarksFirst(n, S)
      BY <1>1, <1>2, <2>6, MarksFirstStep
    <2>7. CASE Handle(file, n, S) /\ Resizes(n, S)
      BY <1>1, <1>2, <2>7, ResizesStep
    <2> QED
      BY <1>2, <2>1, <2>2, <2>3, <2>4, <2>5, <2>6, <2>7 DEF Pending
  <1> QED
    BY <1>2, <1>3

(***************************************************************************)
(* Every step keeps the invariant.                                         *)
(***************************************************************************)
LEMMA FilesStep ==
  ASSUME FilesInv, [Fat64Next]_fat64Vars
  PROVE  FilesInv'
  <1>1. CASE WriteSector
    BY <1>1, WriteSectorStep
  <1>2. CASE PowerOff
    BY <1>2, PowerOffInv
  <1>3. CASE Touch
    BY <1>3, TouchInv
  <1>4. ASSUME NEW e \in DirEntries, OpenEntry(e)
        PROVE  FilesInv'
    BY <1>4, OpenEntryInv
  <1>5. CASE Getc
    BY <1>5, GetcInv
  <1>6. CASE Putc
    BY <1>6, PutcInv
  <1>7. CASE PutcExtends
    BY <1>7, PutcExtendsInv
  <1>8. CASE RunsOutside
    BY <1>8, RunsOutsideInv
  <1>9. CASE Flush
    BY <1>9, FlushInv
  <1>10. CASE Close
    BY <1>10, CloseInv
  <1>11. CASE Rm
    BY <1>11, RmInv
  <1>12. CASE UNCHANGED fat64Vars
    <2>1. UNCHANGED <<tags, entries, intact, writes, file, outside, losses>>
      BY <1>12 DEF fat64Vars, diskVars
    <2>2. DiskTypes' /\ file' \in Handles
      BY <2>1 DEF FilesInv, DiskTypes
    <2>3. PICK n, S : Chains(n, S) /\ Pending(n, S)
      BY DEF FilesInv
    <2>4. Files' = Files /\ MayRuin' = MayRuin /\ FreeClusters' = FreeClusters
      BY <2>1 DEF Files, MayRuin, FreeClusters
    <2>5. Chains(n, S)'
      BY <2>1, <2>3, <2>4 DEF Chains, Link
    <2>6. Pending(n, S)'
      <3>1. \A X : Accounted(n, S, X) => Accounted(n, S, X)'
        BY <2>1 DEF Accounted, InFile
      <3>2. Handle(file, n, S) => Handle(file, n, S)'
        BY <2>1, <2>4, HandleGoesOn
      <3>3. Frees(n, S) => Frees(n, S)'
        BY <2>1, <3>1 DEF Frees, InFile
      <3>4. RuinsBoot => RuinsBoot'
        BY <2>1, <2>4 DEF RuinsBoot
      <3>5. AddsEntry(n, S) => AddsEntry(n, S)'
        BY <2>1, <2>4, <3>1 DEF AddsEntry, InFile
      <3>6. MarksFirst(n, S) => MarksFirst(n, S)'
        BY <2>1, <2>4, <3>1 DEF MarksFirst
      <3>7. Resizes(n, S) => Resizes(n, S)'
        BY <2>1, <2>4, <3>1 DEF Resizes
      <3>8. Removes(n, S) => Removes(n, S)'
        BY <2>1, <2>4, <3>1 DEF Removes
      <3>9. Extends(n, S) => Extends(n, S)'
        BY <2>1, <2>4, <3>1, ZenonT(40) DEF Extends, InFile, HandleAhead
      <3> QED
        BY <2>3, <3>2, <3>3, <3>4, <3>5, <3>6, <3>7, <3>8, <3>9 DEF Pending
    <2> QED
      BY <2>1, <2>2, <2>4, <2>5, <2>6 DEF FilesInv
  <1> QED
    BY <1>1, <1>2, <1>3, <1>4, <1>5, <1>6, <1>7, <1>8, <1>9, <1>10, <1>11, <1>12 DEF Fat64Next

(***************************************************************************)
(* The invariant holds, whatever calls are made and whenever the power     *)
(* fails.                                                                  *)
(***************************************************************************)
LEMMA FilesInvariance == FilesSpec => []FilesInv
  <1>1. FilesInv /\ [Fat64Next]_fat64Vars => FilesInv'
    BY FilesStep
  <1> QED
    BY <1>1, InitFiles, PTL DEF FilesSpec

-----------------------------------------------------------------------------
(* What it means for the files, and for a chain. *)

(***************************************************************************)
(* The i-th cluster of a file on the disk is the i-th of its chain.        *)
(***************************************************************************)
LEMMA ChainIs ==
  ASSUME NEW n, NEW S, Chains(n, S), NEW e \in Files
  PROVE  /\ ChainOf(e) = [k \in 1..n[e] |-> S[e][k]] /\ n[e] \in Nat
         /\ DOMAIN ChainOf(e) = 1..n[e] /\ Len(ChainOf(e)) = n[e]
         /\ \A k \in 1..n[e] : ChainOf(e)[k] = S[e][k]
         /\ Seqs!ToSet(ChainOf(e)) = {S[e][k] : k \in 1..n[e]}
  <1> DEFINE m == n[e]
             s == S[e]
             c == entries[e].file
  <1>1. e \in DirEntries /\ m \in Nat
    BY DEF Files, Chains
  <1>2. /\ (m = 0 => c = FAT64_EOF) /\ (m # 0 => c = s[1])
        /\ \A i \in 1..m : s[i] \in DataClusters /\ tags[s[i]] = Link(n, S, e, i)
        /\ \A i, j \in 1..m : s[i] = s[j] => i = j
    BY <1>1 DEF Chains
  <1>3. \A i \in 1..m : s[i] \in Clusters /\ tags[s[i]][2] = IF i = m THEN FAT64_EOF ELSE s[i + 1]
    <2>1. TAKE i \in 1..m
    <2>2. tags[s[i]] = <<IF i = 1 THEN FAT64_EOF ELSE s[i - 1], IF i = m THEN FAT64_EOF ELSE s[i + 1]>>
      BY <1>2 DEF Link
    <2>3. tags[s[i]][2] = IF i = m THEN FAT64_EOF ELSE s[i + 1]
      BY <2>2
    <2> QED
      BY <1>2, <2>3, DiskFacts
  <1> HIDE DEF m, s, c
  <1>4. m <= N_CLUSTERS
    BY <1>1, <1>2, <1>3, ChainFits
  <1>5. Follow(c) = [k \in 1..m |-> s[k]]
    BY <1>1, <1>2, <1>3, <1>4, FollowChain
  <1> DEFINE h == ChainOf(e)
  <1>6. h = [k \in 1..m |-> s[k]]
    BY <1>5 DEF ChainOf, c
  <1> HIDE DEF h
  <1>7. DOMAIN h = 1..m /\ (\A k \in 1..m : h[k] = s[k]) /\ Len(h) = m
    <2>1. DOMAIN h = 1..m /\ \A k \in 1..m : h[k] = s[k]
      BY <1>6
    <2>2. h \in Seq({s[k] : k \in 1..m})
      BY <1>1, <1>6
    <2> QED
      BY <1>1, <2>1, <2>2
  <1>8. Seqs!ToSet(h) = {s[k] : k \in 1..m}
    BY <1>7 DEF Seqs!ToSet
  <1> QED
    BY <1>1, <1>6, <1>7, <1>8 DEF h, m, s

(***************************************************************************)
(* Files stay sound, whenever the power fails between two sectors of       *)
(* fat64_touch, fat64_putc or fat64_rm, for disks and directories of any   *)
(* size: each file heads a chain of clusters that lead to one another and  *)
(* back, down to its end, and no two files share one.                      *)
(***************************************************************************)
THEOREM ChainsAreSound == FilesSpec => []ChainsSound
  <1>1. FilesInv => ChainsSound
    <2> SUFFICES ASSUME FilesInv
                 PROVE  ChainsSound
      OBVIOUS
    <2>1. PICK n, S : Chains(n, S)
      BY DEF FilesInv
    <2> SUFFICES ASSUME NEW e \in Files
                 PROVE  /\ Seqs!IsInjective(ChainOf(e))
                        /\ \A i \in DOMAIN ChainOf(e) :
                             /\ ChainOf(e)[i] \in DataClusters
                             /\ TagOf(ChainOf(e)[i])[1] = IF i = 1 THEN FAT64_EOF ELSE ChainOf(e)[i - 1]
                        /\ \A g \in Files \ {e} : Seqs!ToSet(ChainOf(e)) \cap Seqs!ToSet(ChainOf(g)) = {}
      BY DEF ChainsSound
    <2>2. e \in DirEntries
      BY DEF Files
    <2>3. \A f, g \in DirEntries : \A i \in 1..n[f] : \A j \in 1..n[g] : S[f][i] = S[g][j] => f = g /\ i = j
      BY <2>1 DEF Chains
    <2> DEFINE h == ChainOf(e)
    <2>4. n[e] \in Nat /\ DOMAIN h = 1..n[e] /\ \A k \in 1..n[e] : h[k] = S[e][k]
      BY <2>1, ChainIs
    <2> HIDE DEF h
    <2>5. \A i, j \in DOMAIN h : h[i] = h[j] => i = j
      BY <2>2, <2>3, <2>4
    <2>6. \A i \in DOMAIN h : /\ h[i] \in DataClusters
                              /\ TagOf(h[i])[1] = IF i = 1 THEN FAT64_EOF ELSE h[i - 1]
      <3>1. TAKE i \in DOMAIN h
      <3>2. i \in 1..n[e] /\ h[i] = S[e][i] /\ (i # 1 => i - 1 \in 1..n[e] /\ h[i - 1] = S[e][i - 1])
        BY <2>4
      <3>3. S[e][i] \in DataClusters /\ tags[S[e][i]] = Link(n, S, e, i)
        BY <2>1, <2>2, <3>2, LinksTaken
      <3>4. TagOf(h[i]) = Link(n, S, e, i)
        BY <3>2, <3>3, DiskFacts DEF TagOf
      <3> QED
        BY <3>2, <3>3, <3>4 DEF Link
    <2>7. \A g \in Files \ {e} : Seqs!ToSet(ChainOf(e)) \cap Seqs!ToSet(ChainOf(g)) = {}
      <3>1. TAKE g \in Files \ {e}
      <3>2. /\ Seqs!ToSet(ChainOf(e)) = {S[e][k] : k \in 1..n[e]}
            /\ Seqs!ToSet(ChainOf(g)) = {S[g][k] : k \in 1..n[g]}
        BY <2>1, ChainIs
      <3>3. g \in DirEntries /\ g # e
        BY DEF Files
      <3>4. \A k \in 1..n[e], j \in 1..n[g] : S[e][k] # S[g][j]
        BY <2>2, <2>3, <3>3
      <3> QED
        BY <3>2, <3>4
    <2> QED
      BY <2>5, <2>6, <2>7 DEF h, Seqs!IsInjective
  <1> QED
    BY <1>1, FilesInvariance, PTL

(***************************************************************************)
(* Between calls every cluster that get_free_cluster passes by belongs to  *)
(* a file or to the system, as long as no failure of the power and no      *)
(* fat64_rm from a later cluster has lost any.                             *)
(***************************************************************************)
THEOREM NothingIsLeaked == FilesSpec => []NothingLeaked
  <1>1. FilesInv => NothingLeaked
    <2> SUFFICES ASSUME FilesInv, BetweenCalls, losses = 0
                 PROVE  Clusters \ FreeClusters =
                          (Clusters \ DataClusters) \cup UNION {Seqs!ToSet(ChainOf(e)) : e \in Files}
      BY DEF NothingLeaked
    <2>1. PICK n, S : Resting(n, S)
      BY AtRestInv
    <2>2. Chains(n, S) /\ Accounted(n, S, {}) /\ intact /\ DiskTypes
      BY <2>1 DEF Resting, BetweenCalls, FilesInv
    <2>3. \A e \in Files : e \in DirEntries /\ Seqs!ToSet(ChainOf(e)) = {S[e][k] : k \in 1..n[e]}
      BY <2>2, ChainIs DEF Files
    <2>4. \A e \in DirEntries \ Files : 1..n[e] = {}
      BY <2>2 DEF Files, Chains
    <2>5. \A c : InFile(c, n, S) <=> c \in UNION {Seqs!ToSet(ChainOf(e)) : e \in Files}
      BY <2>3, <2>4 DEF InFile
    <2>6. \A c \in DataClusters : tags[c] # FreeTag <=> InFile(c, n, S)
      <3>1. \A c \in DataClusters : tags[c] # FreeTag => InFile(c, n, S)
        BY <2>2 DEF Accounted
      <3>2. \A c : InFile(c, n, S) => tags[c] # FreeTag
        BY <2>2, LinksTaken DEF InFile
      <3> QED
        BY <3>1, <3>2
    <2>7. \A c \in Clusters \ DataClusters : tags[c] # FreeTag
      BY <2>2, SystemTaken DEF DiskTypes
    <2>8. \A c : InFile(c, n, S) => c \in DataClusters
      BY <2>2, LinksTaken DEF InFile
    <2> HIDE DEF InFile
    <2> DEFINE inFiles == UNION {Seqs!ToSet(ChainOf(e)) : e \in Files}
    <2> HIDE DEF inFiles
    <2>9. \A c : c \in inFiles <=> InFile(c, n, S)
      BY <2>5 DEF inFiles
    <2>10. Clusters \ FreeClusters = (Clusters \ DataClusters) \cup inFiles
      BY <2>6, <2>7, <2>8, <2>9, DiskFacts DEF FreeClusters
    <2> QED
      BY <2>10 DEF inFiles
  <1> QED
    BY <1>1, FilesInvariance, PTL

(***************************************************************************)
(* The size that fat64_putc writes into the entry of a file is never ahead *)
(* of the chain.                                                           *)
(***************************************************************************)
THEOREM SizesAreCovered == FilesSpec => []SizeCovered
  <1>1. FilesInv => SizeCovered
    <2> SUFFICES ASSUME FilesInv, NEW e \in Files, entries[e].file # FAT64_EOF
                 PROVE  entries[e].size <= FAT64_CLUSTER_SIZE * Len(ChainOf(e))
      BY DEF SizeCovered
    <2>1. PICK n, S : Chains(n, S)
      BY DEF FilesInv
    <2>2. Len(ChainOf(e)) = n[e]
      BY <2>1, ChainIs
    <2>3. entries[e].size <= Bytes(n[e])
      BY <2>1 DEF Chains
    <2> QED
      BY <2>2, <2>3 DEF Bytes
  <1> QED
    BY <1>1, FilesInvariance, PTL

(***************************************************************************)
(* save_cluster and save_dir_entry do not write over the sectors of the    *)
(* next boot, unless a file is added to a full directory or was made on a  *)
(* full disk.                                                              *)
(***************************************************************************)
THEOREM BootSectorsAreKept == FilesSpec => []BootSectorsKept
  <1>1. FilesInv => BootSectorsKept
    BY DEF FilesInv, BootSectorsKept, MayRuin
  <1> QED
    BY <1>1, FilesInvariance, PTL

-----------------------------------------------------------------------------

LengthsIn(n) == FileLengths = [e \in DirEntries |-> IF e \in Files THEN n[e] ELSE -1]

(***************************************************************************)
(* The lengths of the files are those of their chains.                     *)
(***************************************************************************)
LEMMA LengthsAre == \A n, S : Chains(n, S) => LengthsIn(n)
  <1> TAKE n, S
  <1> SUFFICES ASSUME Chains(n, S)
               PROVE  LengthsIn(n)
    OBVIOUS
  <1>1. \A e \in DirEntries :
          (IF e \in Files THEN Len(ChainOf(e)) ELSE -1) = (IF e \in Files THEN n[e] ELSE -1)
    BY ChainIs
  <1> QED
    BY <1>1 DEF FileLengths, LengthsIn

(***************************************************************************)
(* And so they are after a step.                                           *)
(***************************************************************************)
LEMMA NextLengthsAre == \A n, S : Chains(n, S)' => LengthsIn(n)'
  <1>1. (\A n, S : Chains(n, S) => LengthsIn(n))'
    BY LengthsAre, PTL
  <1> QED
    BY <1>1

(***************************************************************************)
(* Every call of the library has its whole effect on the files at one      *)
(* sector: whatever calls are made and whenever the power fails, files are *)
(* made, are removed and grow by a cluster, one at a time and as a whole.  *)
(***************************************************************************)
THEOREM FilesRefine == FilesSpec => ImplementsAbsFiles
  <1>1. Fat64Init => AbsFilesOf!Init
    <2> SUFFICES ASSUME Fat64Init
                 PROVE  AbsFilesOf!Init
      OBVIOUS
    <2>1. Files = {}
      BY DEF Fat64Init, Files
    <2>2. FileLengths = [e \in DirEntries |-> -1]
      BY <2>1 DEF FileLengths
    <2> QED
      BY <2>2 DEF AbsFilesOf!Init, AbsFilesOf!NoFile
  <1>2. FilesInv /\ [Fat64Next]_fat64Vars => [AbsFilesOf!Next]_FileLengths
    <2> SUFFICES ASSUME FilesInv, [Fat64Next]_fat64Vars
                 PROVE  [AbsFilesOf!Next]_FileLengths
      OBVIOUS
    <2>1. CASE WriteSector
      <3>1. PICK n, S : Chains(n, S) /\ Effect(n)
        BY <2>1, WriteSectorStep
      <3>2. PICK m, R : /\ Chains(m, R)'
                        /\ \/ Files' = Files /\ m = n
                           \/ \E e \in DirEntries :
                                /\ \A g \in DirEntries \ {e} : m[g] = n[g] /\ (g \in Files' <=> g \in Files)
                                /\ \/ e \notin Files /\ e \in Files' /\ m[e] \in {0, 1}
                                   \/ e \in Files /\ e \notin Files'
                                   \/ e \in Files /\ e \in Files' /\ n[e] > 0 /\ m[e] = n[e] + 1
        BY <3>1 DEF Effect
      <3> DEFINE a == FileLengths
      <3>3. a = [e \in DirEntries |-> IF e \in Files THEN n[e] ELSE -1]
        BY <3>1, LengthsAre DEF LengthsIn
      <3>4. a' = [e \in DirEntries |-> IF e \in Files' THEN m[e] ELSE -1]
        BY <3>2, NextLengthsAre DEF LengthsIn
      <3> HIDE DEF a
      <3>5. CASE Files' = Files /\ m = n
        <4>1. a' = a
          BY <3>3, <3>4, <3>5
        <4> QED
          BY <4>1 DEF a
      <3>6. ASSUME NEW e \in DirEntries,
                   \A g \in DirEntries \ {e} : m[g] = n[g] /\ (g \in Files' <=> g \in Files),
                   \/ e \notin Files /\ e \in Files' /\ m[e] \in {0, 1}
                   \/ e \in Files /\ e \notin Files'
                   \/ e \in Files /\ e \in Files' /\ n[e] > 0 /\ m[e] = n[e] + 1
            PROVE  AbsFilesOf!Create(e) \/ AbsFilesOf!Remove(e) \/ AbsFilesOf!Grow(e)
        <4>1. \A g \in DirEntries \ {e} : a'[g] = a[g]
          BY <3>3, <3>4, <3>6
        <4>2. a' = [a EXCEPT ![e] = a'[e]]
          BY <3>3, <3>4, <4>1
        <4>3. n[e] \in Nat
          BY <3>1 DEF Chains
        <4>4. CASE e \notin Files /\ e \in Files' /\ m[e] \in {0, 1}
          <5>1. a[e] = -1 /\ a'[e] \in {0, 1}
            BY <3>3, <3>4, <4>4
          <5> QED
            BY <4>2, <5>1 DEF a, AbsFilesOf!Create, AbsFilesOf!NoFile
        <4>5. CASE e \in Files /\ e \notin Files'
          <5>1. a[e] # -1 /\ a'[e] = -1
            BY <3>3, <3>4, <4>3, <4>5
          <5> QED
            BY <4>2, <5>1 DEF a, AbsFilesOf!Remove, AbsFilesOf!NoFile
        <4>6. CASE e \in Files /\ e \in Files' /\ n[e] > 0 /\ m[e] = n[e] + 1
          <5>1. a[e] > 0 /\ a'[e] = a[e] + 1
            BY <3>3, <3>4, <4>6
          <5> QED
            BY <4>2, <5>1 DEF a, AbsFilesOf!Grow
        <4> QED
          BY <3>6, <4>4, <4>5, <4>6
      <3> QED
        BY <3>2, <3>5, <3>6 DEF AbsFilesOf!Next
    <2>2. CASE ~ WriteSector
      <3>1. UNCHANGED diskVars
        BY <2>2 DEF Fat64Next, fat64Vars, PowerOff, Touch, OpenEntry,
               Getc, Putc, PutcExtends, RunsOutside, Flush, Close, Rm
      <3>2. PICK n, S : Chains(n, S)
        BY DEF FilesInv
      <3>3. Chains(n, S)' /\ Files' = Files
        BY <3>1, <3>2, SameChains
      <3>4. FileLengths = [e \in DirEntries |-> IF e \in Files THEN n[e] ELSE -1]
        BY <3>2, LengthsAre DEF LengthsIn
      <3>5. FileLengths' = [e \in DirEntries |-> IF e \in Files' THEN n[e] ELSE -1]
        BY <3>3, NextLengthsAre DEF LengthsIn
      <3> QED
        BY <3>3, <3>4, <3>5
    <2> QED
      BY <2>1, <2>2
  <1> QED
    BY <1>1, <1>2, FilesInvariance, PTL DEF FilesSpec, ImplementsAbsFiles, AbsFilesOf!Spec
=============================================================================
