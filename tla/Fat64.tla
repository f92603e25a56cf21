------------------------------- MODULE Fat64 --------------------------------
(***************************************************************************)
(* The file system: a table with a tag (previous, next cluster) for every  *)
(* cluster of the disk, and the root directory, which is all that          *)
(* fat64_open opens.  The library runs in the program that calls it, the   *)
(* shell, which has one file open at a time and reads the directory anew   *)
(* before it adds a file.  A call is as many steps as it writes sectors,   *)
(* and the power may fail before each of them.  What is in the files is    *)
(* left out.                                                               *)
(***************************************************************************)
EXTENDS Integers, Sequences
Seqs == INSTANCE SequencesExt

CONSTANTS
  TAG_CLUSTERS,         \* clusters the tag table takes (cluster_tag_size)
  N_CLUSTERS,           \* fat64_partition.size
  FAT64_CLUSTER_SIZE,   \* bytes in a cluster
  DIR_ENTRIES,          \* entries in a directory (8)
  LOSSES_MAX            \* bound: incidents that lose clusters

FAT64_CLUSTER_TAG_FREE == 0
\* 0xFFFFFFFF: the end of a chain, and a location behind the last cluster.
FAT64_EOF == -1

Clusters == 0..(N_CLUSTERS - 1)
RootDir == TAG_CLUSTERS + 1
DataClusters == (RootDir + 1)..(N_CLUSTERS - 1)
DirEntries == 0..(DIR_ENTRIES - 1)

ASSUME Fat64Assumption ==
  /\ TAG_CLUSTERS \in Nat \ {0} /\ N_CLUSTERS \in Nat /\ N_CLUSTERS > RootDir
  /\ FAT64_CLUSTER_SIZE \in Nat \ {0, 1} /\ DIR_ENTRIES \in Nat \ {0} /\ LOSSES_MAX \in Nat

VARIABLES
  tags,     \* disk: the table, cluster -> <<prev, next>>
  entries,  \* disk: the root directory
  intact,   \* disk: MBR and superblock are what _fat64_mkfs wrote
  writes,   \* the sectors the call still has to write, in order
  file,     \* the handle of the open file; cluster 0 when there is none
  outside,  \* a call ran past the buffer of the handle: not followed any further
  losses    \* how often clusters may have been lost: the power failed within a call,
            \* or fat64_rm was given a handle that was not at the first cluster

diskVars == <<tags, entries, intact>>
fat64Vars == <<diskVars, writes, file, outside, losses>>

FreeTag == <<FAT64_CLUSTER_TAG_FREE, FAT64_CLUSTER_TAG_FREE>>
BadHandle == [num |-> 0, first |-> 0, size |-> 0, cluster |-> 0, prev |-> 0, next |-> 0,
              location |-> 0, abs |-> 0, dirty |-> FALSE]

\* The tags of the superblock, of the table and of the root directory.
SystemTag(c) ==
  <<IF c \in {0, 1, RootDir} THEN FAT64_EOF ELSE c - 1,
    IF c \in {0, TAG_CLUSTERS, RootDir} THEN FAT64_EOF ELSE c + 1>>

\* _fat64_mkfs on a disk of zeros, and the superblock read by _fat64_init.
Fat64Init ==
  /\ tags = [c \in Clusters |-> IF c \in DataClusters THEN FreeTag ELSE SystemTag(c)]
  /\ entries = [e \in DirEntries |-> [valid |-> FALSE, file |-> 0, size |-> 0]]
  /\ intact = TRUE
  /\ writes = <<>>
  /\ file = BadHandle
  /\ outside = FALSE /\ losses = 0

-----------------------------------------------------------------------------
(* Sectors *)

Mark(c, prev, next) == [what |-> "tag", at |-> c, to |-> <<prev, next>>]
SetEntry(e, entry) == [what |-> "entry", at |-> e, to |-> entry]
BootSectors == [what |-> "boot sectors"]

\* ide_write of the next sector of the call.  Where the boot sectors have been
\* written over is not followed any further.
WriteSector ==
  LET w == Head(writes)
  IN  /\ writes # <<>>
      /\ writes' = Tail(writes)
      /\ tags' = IF w.what = "tag" THEN [tags EXCEPT ![w.at] = w.to] ELSE tags
      /\ entries' = IF w.what = "entry" THEN [entries EXCEPT ![w.at] = w.to] ELSE entries
      /\ intact' = (intact /\ w.what # "boot sectors")
      /\ UNCHANGED <<file, outside, losses>>

\* The power fails; _fat64_init finds the partition and reads its superblock.
PowerOff ==
  /\ writes' = <<>>
  /\ file' = BadHandle
  /\ losses' = losses + (IF writes = <<>> THEN 0 ELSE 1)
  /\ losses' <= LOSSES_MAX
  /\ UNCHANGED <<diskVars, outside>>

\* Between two calls of the program.
BetweenCalls == writes = <<>> /\ intact /\ ~ outside

-----------------------------------------------------------------------------
(* Chains *)

\* load_cluster_tags: there is no sector to read for cluster FAT64_EOF, and the
\* buffer is zeroed before.
TagOf(c) == IF c \in Clusters THEN tags[c] ELSE FreeTag

NextOf == [c \in Clusters \cup {FAT64_EOF} |-> IF c = FAT64_EOF THEN c ELSE tags[c][2]]

\* The clusters from c on, the last one with FAT64_EOF behind it.
Follow(c) ==
  LET at[i \in 1..(N_CLUSTERS + 1)] == IF i = 1 THEN c ELSE NextOf[at[i - 1]]
  IN  [i \in {j \in 1..(N_CLUSTERS + 1) : at[j] # FAT64_EOF} |-> at[i]]

FreeClusters == {c \in Clusters : tags[c] = FreeTag}

\* The search of get_free_cluster.
FirstFree ==
  IF FreeClusters = {} THEN FAT64_EOF
  ELSE CHOOSE c \in FreeClusters : \A b \in FreeClusters : c <= b

\* Mutant: the last entry is not looked at.
FreeDirEntryShort ==
  LET free == {e \in DirEntries \ {DIR_ENTRIES - 1} : ~ entries[e].valid}
  IN  IF free = {} THEN FAT64_EOF ELSE CHOOSE e \in free : \A g \in free : e <= g

\* get_free_dir_entry
FreeDirEntry ==
  LET free == {e \in DirEntries : ~ entries[e].valid}
  IN  IF free = {} THEN FAT64_EOF ELSE CHOOSE e \in free : \A g \in free : e <= g

-----------------------------------------------------------------------------
(* Calls *)

\* What fat64_touch writes.  In a directory that is full the entry "-1" lies before
\* the buffer of save_dir_entry, over its cluster, which becomes 0: the directory
\* is written over the superblock.
TouchWrites(e, c) ==
  (IF c = FAT64_EOF THEN <<>> ELSE <<Mark(c, FAT64_EOF, FAT64_EOF)>>)
    \o (IF e = FAT64_EOF THEN <<BootSectors>>
        ELSE <<SetEntry(e, [valid |-> TRUE, file |-> c, size |-> 0])>>)

\* fat64_reopen and fat64_touch, as the shell calls them.
Touch ==
  /\ BetweenCalls
  /\ writes' = TouchWrites(FreeDirEntry, FirstFree)
  /\ UNCHANGED <<diskVars, file, outside, losses>>

\* The handle f at cluster c with the tag it has.
OpenCluster(f, c, tag) == [f EXCEPT !.cluster = c, !.prev = tag[1], !.next = tag[2]]

\* fat64_dir_entry: the file at place e is opened, in place of the one before.
OpenEntry(e) ==
  LET f == [BadHandle EXCEPT !.num = e, !.first = entries[e].file, !.size = entries[e].size]
  IN  /\ BetweenCalls /\ entries[e].valid
      /\ file' = OpenCluster(f, f.first, TagOf(f.first))
      /\ UNCHANGED <<diskVars, writes, outside, losses>>

\* save_cluster, as far as it matters: the number of the first sector of cluster
\* FAT64_EOF wraps round to 0.
SaveWrites(f) == IF f.dirty /\ f.cluster = FAT64_EOF THEN <<BootSectors>> ELSE <<>>

Saved(f) == [f EXCEPT !.dirty = FALSE]

\* Mutant: the end of the file is forgotten, and its last cluster written again.
ByteOnAround(f, atEnd) ==
  LET g == [f EXCEPT !.location = @ + 1, !.abs = @ + 1]
  IN  IF g.location < FAT64_CLUSTER_SIZE THEN g
      ELSE IF g.next = FAT64_EOF THEN [Saved(g) EXCEPT !.location = 0]
      ELSE [OpenCluster(Saved(g), g.next, TagOf(g.next)) EXCEPT !.location = 0]

\* The end of fat64_getc and of fat64_putc: a byte further, and to the next cluster
\* at the end of one; behind the last the location becomes atEnd.
ByteOn(f, atEnd) ==
  LET g == [f EXCEPT !.location = @ + 1, !.abs = @ + 1]
  IN  IF g.location < FAT64_CLUSTER_SIZE THEN g
      ELSE IF g.next = FAT64_EOF THEN [Saved(g) EXCEPT !.location = atEnd]
      ELSE [OpenCluster(Saved(g), g.next, TagOf(g.next)) EXCEPT !.location = 0]

EndsCluster(f) == f.location = FAT64_CLUSTER_SIZE - 1

\* Where a read came to the end of the last cluster, the location is not FAT64_EOF
\* but the size of the buffer (`==' for `=').
RunsOutside ==
  /\ BetweenCalls /\ file.location = FAT64_CLUSTER_SIZE
  /\ outside' = TRUE
  /\ UNCHANGED <<diskVars, writes, file, losses>>

\* fat64_getc
Getc ==
  /\ BetweenCalls
  /\ file.cluster # 0 /\ file.location \in 0..(FAT64_CLUSTER_SIZE - 1)
  /\ file' = ByteOn(file, FAT64_CLUSTER_SIZE)
  /\ writes' = IF EndsCluster(file) THEN SaveWrites(file) ELSE <<>>
  /\ UNCHANGED <<diskVars, outside, losses>>

\* Mutant: the file is led to the new cluster before that is marked as taken.
ExtendLinkFirst(f, c) == <<Mark(f.cluster, f.prev, c), Mark(c, f.cluster, FAT64_EOF)>>

\* fat64_putc at the end of the file: get_free_cluster, save_cluster_tags.
ExtendWrites(f, c) == <<Mark(c, f.cluster, FAT64_EOF), Mark(f.cluster, f.prev, c)>>

\* fat64_putc from where the handle has a place for the byte.
Stored(f) ==
  LET grows == f.abs + 1 > f.size
      g == [f EXCEPT !.dirty = TRUE, !.size = IF grows THEN @ + 1 ELSE @]
  IN  [file |-> ByteOn(g, FAT64_EOF),
       writes |-> (IF grows
                   THEN <<SetEntry(f.num, [valid |-> TRUE, file |-> f.first, size |-> g.size])>>
                   ELSE <<>>)
                  \o (IF EndsCluster(g) THEN SaveWrites(g) ELSE <<>>)]

\* fat64_putc
Putc ==
  /\ BetweenCalls
  /\ file.cluster # 0 /\ file.location \in 0..(FAT64_CLUSTER_SIZE - 1)
  /\ file' = Stored(file).file
  /\ writes' = Stored(file).writes
  /\ UNCHANGED <<diskVars, outside, losses>>

\* fat64_putc at the end of the last cluster; it changes nothing when the disk is full.
PutcExtends ==
  LET c == FirstFree
      f == [OpenCluster(file, c, <<file.cluster, FAT64_EOF>>) EXCEPT !.location = 0]
  IN  /\ BetweenCalls
      /\ file.cluster # 0 /\ file.location = FAT64_EOF /\ c # FAT64_EOF
      /\ file' = Stored(f).file
      /\ writes' = ExtendWrites(file, c) \o Stored(f).writes
      /\ UNCHANGED <<diskVars, outside, losses>>

\* fat64_flush
Flush ==
  /\ BetweenCalls /\ file.dirty
  /\ file' = Saved(file)
  /\ writes' = SaveWrites(file)
  /\ UNCHANGED <<diskVars, outside, losses>>

\* fat64_close
Close ==
  /\ BetweenCalls /\ file.cluster # 0
  /\ file' = BadHandle
  /\ writes' = SaveWrites(file)
  /\ UNCHANGED <<diskVars, outside, losses>>

\* The clusters fat64_rm frees: the first, and those behind the one the handle is at.
RmClusters(f) == IF f.first = FAT64_EOF THEN <<>> ELSE <<f.first>> \o Follow(f.next)

Freed(s) == [i \in DOMAIN s |-> Mark(s[i], FAT64_CLUSTER_TAG_FREE, FAT64_CLUSTER_TAG_FREE)]

\* Mutant: the last cluster is not freed.
RmKeepsLast(f) ==
  <<SetEntry(f.num, [valid |-> FALSE, file |-> f.first, size |-> f.size])>>
    \o (IF f.first = FAT64_EOF THEN <<>> ELSE Freed(Seqs!Front(RmClusters(f))))

\* Mutant: the clusters are freed before the entry is gone.
RmEntryLast(f) ==
  Freed(RmClusters(f)) \o <<SetEntry(f.num, [valid |-> FALSE, file |-> f.first, size |-> f.size])>>

\* What fat64_rm writes.
RmWrites(f) ==
  <<SetEntry(f.num, [valid |-> FALSE, file |-> f.first, size |-> f.size])>> \o Freed(RmClusters(f))

\* fat64_rm; the handle is of no use afterwards.
Rm ==
  /\ BetweenCalls /\ file.cluster # 0
  /\ writes' = RmWrites(file)
  /\ losses' = losses + (IF file.cluster = file.first THEN 0 ELSE 1)
  /\ losses' <= LOSSES_MAX
  /\ file' = BadHandle
  /\ UNCHANGED <<diskVars, outside>>

Fat64Next ==
  \/ WriteSector
  \/ PowerOff
  \/ Touch
  \/ \E e \in DirEntries : OpenEntry(e)
  \/ Getc
  \/ Putc
  \/ PutcExtends
  \/ RunsOutside
  \/ Flush
  \/ Close
  \/ Rm

-----------------------------------------------------------------------------
Fat64TypeOK ==
  /\ \A c \in Clusters : \A i \in {1, 2} : tags[c][i] \in Clusters \cup {FAT64_EOF}
  /\ \A e \in DirEntries :
       /\ entries[e].valid \in BOOLEAN
       /\ entries[e].file \in DataClusters \cup {0, FAT64_EOF}
       /\ entries[e].size \in Nat
  /\ file.cluster \in Clusters \cup {FAT64_EOF}
  /\ file.location \in 0..FAT64_CLUSTER_SIZE \cup {FAT64_EOF}

Files == {e \in DirEntries : entries[e].valid}
ChainOf(e) == Follow(entries[e].file)

\* Whenever the power fails, also between the sectors of one call, every file on the
\* disk heads a chain of clusters that are taken, each leading to the next and back,
\* down to its end, and no two files share a cluster.
ChainsSound ==
  \A e \in Files :
    LET chain == ChainOf(e)
    IN  /\ Seqs!IsInjective(chain)
        /\ \A i \in DOMAIN chain :
             /\ chain[i] \in DataClusters
             /\ TagOf(chain[i])[1] = IF i = 1 THEN FAT64_EOF ELSE chain[i - 1]
        /\ \A g \in Files \ {e} : Seqs!ToSet(chain) \cap Seqs!ToSet(ChainOf(g)) = {}

\* Between calls every cluster that is taken belongs to a file or to the system,
\* unless the power failed within a call or a file was removed through a handle
\* that had moved on.
NothingLeaked ==
  BetweenCalls /\ losses = 0 =>
    Clusters \ FreeClusters = (Clusters \ DataClusters) \cup UNION {Seqs!ToSet(ChainOf(e)) : e \in Files}

\* A file has the clusters its size says, also after a power failure within a
\* write: the size is never ahead of the chain.
SizeCovered ==
  \A e \in Files : entries[e].file # FAT64_EOF =>
    entries[e].size <= FAT64_CLUSTER_SIZE * Len(ChainOf(e))

\* The sectors the next boot starts from are written over by none of the calls, as long
\* as no file is added to a full directory and none is made on a full disk.
BootSectorsKept ==
  intact \/ Files = DirEntries \/ \E e \in Files : entries[e].file = FAT64_EOF

FileLengths == [e \in DirEntries |-> IF e \in Files THEN Len(ChainOf(e)) ELSE -1]

AbsFilesOf == INSTANCE AbsFiles WITH Entries <- DirEntries, length <- FileLengths

\* Sector by sector, each with a power failure before it, a call still has its whole
\* effect on the files at one sector.
ImplementsAbsFiles == AbsFilesOf!Spec
=============================================================================
