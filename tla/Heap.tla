-------------------------------- MODULE Heap --------------------------------
(***************************************************************************)
(* The two allocators of the kernel.  kheap.c keeps a list of free blocks, *)
(* ordered by address, which it splits and merges; kalloc.c hands out      *)
(* memory from a moving base and takes none back.  Addresses are those of  *)
(* words for kheap.c and of bytes for kalloc.c.  Neither turns interrupts  *)
(* off; both are called while the kernel starts, by one thread.            *)
(***************************************************************************)
EXTENDS Naturals, Sequences, FiniteSets

CONSTANTS
  HEAP_MAPS,    \* which words there is memory at: the possibilities
  HEAP_TOP,     \* the last word _kalloc_init looks at (0xf0000000)
  VIDEO_BASE_ADDR,
  FAST_SEARCH_INCREMENT,
  HEAP_BYTES,   \* lengths asked for
  KALLOC_BASE_ADDR,
  KALLOC_LIMIT  \* bound: up to where the base of kalloc.c is followed

WORD_SIZE == 4
NIL == 0
HeapWords == 1..HEAP_TOP
Alignments == {1, 2, 4, 8, 16}

ASSUME HeapAssumption ==
  /\ HEAP_TOP \in Nat /\ FAST_SEARCH_INCREMENT \in Nat \ {0, 1}
  /\ HEAP_MAPS \subseteq SUBSET HeapWords
  /\ HEAP_BYTES \subseteq Nat \ {0}
  /\ KALLOC_BASE_ADDR \in Nat /\ KALLOC_LIMIT \in Nat

(***************************************************************************)
(* What _kalloc_init relies on to find all there is: no stretch of memory, *)
(* or of addresses without, is shorter than its stride; memory ends a      *)
(* stride before the last address it looks at; and, as its comment says,   *)
(* there is no real memory beside that of the display.                     *)
(***************************************************************************)
ASSUME MapsAssumption ==
  \A map \in HEAP_MAPS :
    /\ \A a, b \in HeapWords :
         a < b /\ b - a <= FAST_SEARCH_INCREMENT /\ (a \in map <=> b \in map) =>
           \A w \in a..b : w \in map <=> a \in map
    /\ \A w \in map : w + FAST_SEARCH_INCREMENT <= HEAP_TOP
    /\ VIDEO_BASE_ADDR \in map => VIDEO_BASE_ADDR - 1 \notin map

VARIABLES
  freelist,     \* _freelist: the first free block, or NIL
  header,       \* block -> its length, and the next free block while it is free
  used,         \* allocated block -> the number of words that were asked for
  memory,       \* the words the list is made of
  kbase,        \* _kalloc_base
  granted       \* what kalloc.c handed out last: first byte, length, alignment

heapVars == <<freelist, header, used, memory>>
kallocVars == <<kbase, granted>>

-----------------------------------------------------------------------------
(* Finding the memory *)

ScanStart == [addr |-> 1, increment |-> 1, last |-> FALSE, first |-> NIL, found |-> <<>>]

\* The body of the loop of _kalloc_init: go on while nothing changes; a change
\* seen at a stride is approached again word by word.
ScanStep(map, s) ==
  LET present == s.addr \in map
      there == [s EXCEPT !.addr = @ + FAST_SEARCH_INCREMENT,
                         !.increment = FAST_SEARCH_INCREMENT, !.last = present]
  IN  CASE present = s.last -> [s EXCEPT !.addr = @ + s.increment]
        [] present # s.last /\ s.increment # 1 ->
             [s EXCEPT !.addr = @ - s.increment + 1, !.increment = 1]
        [] present /\ ~ s.last /\ s.increment = 1 -> [there EXCEPT !.first = s.addr]
        [] OTHER ->
             IF s.first = VIDEO_BASE_ADDR THEN there
             ELSE [there EXCEPT !.found = Append(@, <<s.first, s.addr>>)]

\* The chunks of memory found: first word, and first word behind.
Chunks(map) ==
  LET scan[i \in 0..(4 * HEAP_TOP)] ==
        IF i = 0 THEN ScanStart
        ELSE LET s == scan[i - 1] IN IF s.addr > HEAP_TOP THEN s ELSE ScanStep(map, s)
  IN  scan[4 * HEAP_TOP].found

\* _kalloc_init: a block of every chunk, linked in the order found.
HeapInit ==
  \E map \in HEAP_MAPS :
    LET found == Chunks(map)
        firsts == {found[i][1] : i \in DOMAIN found}
        at(b) == CHOOSE i \in DOMAIN found : found[i][1] = b
    IN  /\ freelist = IF found = <<>> THEN NIL ELSE found[1][1]
        /\ header = [b \in firsts |->
             [length |-> found[at(b)][2] - (b + 1),
              next |-> IF at(b) = Len(found) THEN NIL ELSE found[at(b) + 1][1]]]
        /\ used = [b \in {} |-> 0]
        /\ memory = {w \in map : VIDEO_BASE_ADDR \in map =>
                       w < VIDEO_BASE_ADDR \/ \E g \in VIDEO_BASE_ADDR..w : g \notin map}

-----------------------------------------------------------------------------
(* The list *)

\* The list as a function: its i-th block, NIL behind the last.
Chain ==
  LET at[i \in 0..Cardinality(DOMAIN header)] ==
        IF i = 0 THEN freelist
        ELSE LET b == at[i - 1] IN IF b = NIL THEN NIL ELSE header[b].next
  IN  at

FreeBlocks == {Chain[i] : i \in DOMAIN Chain} \ {NIL}

\* Where a walk along the list stops: at the first of the blocks of S, or the end.
StopAt(S) ==
  CHOOSE i \in DOMAIN Chain :
    /\ Chain[i] \in S \cup {NIL}
    /\ \A j \in 0..(i - 1) : Chain[j] \notin S \cup {NIL}

\* The free list `h' headers make when the pointer to the i-th block points to b.
Relink(h, i, b) == IF i = 0 THEN h ELSE [h EXCEPT ![Chain[i - 1]].next = b]
FirstAfter(i, b) == IF i = 0 THEN b ELSE freelist

Without(f, x) == [y \in DOMAIN f \ {x} |-> f[y]]
With(f, x, v) == [y \in DOMAIN f \cup {x} |-> IF y = x THEN v ELSE f[y]]

Words(bytes) == (bytes + WORD_SIZE - 1) \div WORD_SIZE

\* adjacent(first, second), for headers h
Adjacent(h, first, second) == first + 1 + h[first].length = second

LengthOf(h, b) == h[b].length + 1

\* sizeof(blockinfo_t) / WORD_SIZE
HeaderWords == 2

\* Mutant: the length of the fragment's header is not taken off the block.
SplitNoHeader(block, n) ==
  LET fragment == block + header[block].length - n
  IN  /\ header' = With([header EXCEPT ![block].length = @ - n],
                        fragment, [length |-> n, next |-> NIL])
      /\ used' = With(used, fragment, n)
      /\ UNCHANGED freelist

\* _kalloc, the block found is too long: a fragment of its end is given.
Split(block, n) ==
  LET fragment == block + header[block].length - n
  IN  /\ header' = With([header EXCEPT ![block].length = @ - (1 + n)],
                        fragment, [length |-> n, next |-> NIL])
      /\ used' = With(used, fragment, n)
      /\ UNCHANGED freelist

\* _kalloc, the block fits: it is taken off the list.
TakeWhole(i, n) ==
  LET block == Chain[i]
      rest == header[block].next
  IN  /\ header' = [Relink(header, i, rest) EXCEPT ![block].next = NIL]
      /\ freelist' = FirstAfter(i, rest)
      /\ used' = With(used, block, n)

\* _kalloc that finds a block; when it finds none it changes nothing.
HeapAlloc(bytes) ==
  LET n == Words(bytes)
      i == StopAt({b \in DOMAIN header : header[b].length >= n})
      block == Chain[i]
  IN  /\ block # NIL
      /\ IF header[block].length > n + HeaderWords THEN Split(block, n) ELSE TakeWhole(i, n)
      /\ UNCHANGED memory

\* Mutant: a block that follows is not looked at.
MergeNextNever(h, b, block) == h

\* _kfree: b joined with the block after it, if they are neighbours.
MergeNext(h, b, block) ==
  IF block = NIL THEN h
  ELSE IF ~ Adjacent(h, b, block) THEN h
  ELSE Without([h EXCEPT ![b] = [length |-> @.length + LengthOf(h, block), next |-> h[block].next]],
               block)

\* _kfree: into its place by address, joined with the block before and the one after.
HeapFree(b) ==
  LET i == StopAt({c \in DOMAIN header : c >= b})
      block == Chain[i]
      previous == IF i = 0 THEN NIL ELSE Chain[i - 1]
      joined == i > 0 /\ Adjacent(header, previous, b)
      placed == IF joined
                THEN Without([header EXCEPT ![previous].length = @ + LengthOf(header, b)], b)
                ELSE Relink([header EXCEPT ![b].next = block], i, b)
  IN  /\ b \in DOMAIN used
      /\ header' = MergeNext(placed, IF joined THEN previous ELSE b, block)
      /\ freelist' = FirstAfter(i, b)
      /\ used' = Without(used, b)
      /\ UNCHANGED memory

HeapNext ==
  \/ \E n \in HEAP_BYTES : HeapAlloc(n)
  \/ \E b \in HeapWords : HeapFree(b)

-----------------------------------------------------------------------------
(* kalloc.c *)

KallocInit == kbase = KALLOC_BASE_ADDR /\ granted = <<KALLOC_BASE_ADDR, 0, 1>>

\* Mutant: rounds down.
AlignedDown(addr, align) == addr - (addr % align)

\* The rounding of kalloc_aligned; Align_Byte is not rounded.
Aligned(addr, align) ==
  IF addr % align = 0 THEN addr ELSE addr - (addr % align) + align

\* kalloc, and kalloc_aligned for the other alignments; kfree does nothing.
Kalloc(bytes, align) ==
  LET start == Aligned(kbase, align)
  IN  /\ start + bytes <= KALLOC_LIMIT
      /\ kbase' = start + bytes
      /\ granted' = <<start, bytes, align>>

\* Where KALLOC_LIMIT ends what is looked at.
KallocAtBound ==
  /\ \A n \in HEAP_BYTES, a \in Alignments : Aligned(kbase, a) + n > KALLOC_LIMIT
  /\ UNCHANGED kallocVars

KallocNext ==
  \/ \E n \in HEAP_BYTES, a \in Alignments : Kalloc(n, a)
  \/ KallocAtBound

-----------------------------------------------------------------------------
HeapTypeOK ==
  /\ freelist \in DOMAIN header \cup {NIL}
  /\ DOMAIN header \subseteq HeapWords
  /\ header \in [DOMAIN header -> [length : Nat, next : DOMAIN header \cup {NIL}]]
  /\ used \in [DOMAIN used -> Nat] /\ DOMAIN used \subseteq DOMAIN header
  /\ kbase \in Nat

Extent(b) == b..(b + header[b].length)

\* Blocks and their headers tile the memory that was found: no word in two blocks,
\* none lost, however blocks are split and merged; a block is free or handed out,
\* and has at least the words that were asked for.
HeapTiled ==
  /\ DOMAIN header = FreeBlocks \cup DOMAIN used
  /\ FreeBlocks \cap DOMAIN used = {}
  /\ \A b, c \in DOMAIN header : b # c => Extent(b) \cap Extent(c) = {}
  /\ UNION {Extent(b) : b \in DOMAIN header} = memory
  /\ \A b \in DOMAIN used : header[b].length >= used[b]

\* The free list is in the order of addresses and neighbours are merged, so that
\* memory that was all given back is one block of each chunk again.
HeapMerged ==
  \A i \in DOMAIN Chain \ {0} :
    Chain[i] # NIL => Chain[i - 1] + 1 + header[Chain[i - 1]].length < Chain[i]

\* What kalloc.c hands out is aligned as asked and lies behind everything handed
\* out before, so that it is shared by nobody.
KallocDisjoint ==
  [][/\ granted'[1] % granted'[3] = 0
     /\ granted'[1] >= granted[1] + granted[2]]_granted
=============================================================================
