----------------------------- MODULE SharedHeap -----------------------------
(***************************************************************************)
(* The heap of src/mm/shared_heap.c: headers in the buffer, each followed  *)
(* by its block, and a doubly linked list of the free blocks.  heap_lock   *)
(* and heap_unlock do nothing; calls are whole here.  Callers ask for the  *)
(* default alignment and sizes that keep it, so that no padding is needed, *)
(* and hand back each block once; they write inside their blocks, which    *)
(* the model leaves out.                                                   *)
(*                                                                         *)
(* heap->free_list is kept as the next of Null: "if (p->prev) p->prev->next*)
(* = q; else heap->free_list = q" is then one write.  The prev of Null     *)
(* stands for nothing.                                                     *)
(***************************************************************************)
EXTENDS Integers, FiniteSetsExt, Functions

CONSTANTS HeapSize,   \* of the buffer, in units of the alignment
          Header,     \* sizeof(block_header_t)
          Least,      \* the smallest block worth splitting off, 8 bytes
          Width,      \* 2^w, the width of size_t
          Requests    \* sizes that callers ask for

ASSUME HeapAssumption == /\ {HeapSize, Header, Least, Width} \subseteq Nat \ {0}
                          /\ HeapSize > Header /\ HeapSize < Width
                          /\ Requests \subseteq 1 .. HeapSize

VARIABLES header,   \* address -> [size, next, prev, is_free]
          heap_used, \* heap->used
          granted,  \* headers of the blocks that callers have
          damaged   \* history: a split wrote past its block, or a merge was made

heapVars == <<header, heap_used, granted, damaged>>

Null == -1

Block(size) == [size |-> size, next |-> Null, prev |-> Null, is_free |-> TRUE]

Empty == [b \in {Null, 0} |-> IF b = Null THEN [Block(0) EXCEPT !.next = 0]
                               ELSE Block(HeapSize - Header)]

HeapInit == header = Empty /\ heap_used = 0 /\ granted = {} /\ damaged = FALSE

Set(h, b, field, value) == [h EXCEPT ![b][field] = value]

\* A header is written where there may have been none.
Placed(h, b, block) == [c \in DOMAIN h \cup {b} |-> IF c = b THEN block ELSE h[c]]

After(h, b) == b + Header + h[b].size
-----------------------------------------------------------------------------
\* The walk of the list, until Null or for as long as it could take without going round.
Longest(h) == Cardinality(DOMAIN h)

Walk(h) == LET at[i \in 0 .. Longest(h)] ==
                 IF i = 0 THEN h[Null].next
                 ELSE IF at[i - 1] = Null THEN Null ELSE h[at[i - 1]].next
           IN  at

Returns(h) == Walk(h)[Longest(h)] = Null

\* The first place on the list that is among stops; Null is after the last.
Stop(h, stops) == LET at == Walk(h)
                  IN  at[Min({i \in DOMAIN at : at[i] \in stops})]

\* find_free_block: the smallest that will do, the first of these.
Suits(h, n) == {b \in Range(Walk(h)) \ {Null} : h[b].size >= n}

find_free_block(h, n) ==
  Stop(h, {b \in Suits(h, n) : \A d \in Suits(h, n) : h[b].size <= h[d].size})

Remaining(h, b, n) == (h[b].size - n - Header) % Width

\* split_block: a new header behind the n units, where another may be.
Splits(h, b, n) == Remaining(h, b, n) >= Header + Least

split_block(h, b, n) ==
  IF Splits(h, b, n)
  THEN Set(Placed(h, b + Header + n, Block(Remaining(h, b, n))), b, "size", n)
  ELSE h

\* Mutant of remove_from_free_list: the block behind keeps its prev.
RemoveForward(h, b) ==
  LET back == Set(h, h[b].prev, "next", h[b].next)
  IN  [back EXCEPT ![b] = [Block(@.size) EXCEPT !.is_free = FALSE]]

remove_from_free_list(h, b) ==
  LET back == Set(h, h[b].prev, "next", h[b].next)
      fore == Set(back, back[b].next, "prev", back[b].prev)
  IN  [fore EXCEPT ![b] = [Block(@.size) EXCEPT !.is_free = FALSE]]

\* add_to_free_list: behind the last block of a lower address.
Above(h, b) == {Null} \cup {d \in DOMAIN h : d >= b}

Predecessor(h, b) ==
  LET at == Walk(h)
      i  == Min({j \in DOMAIN at : at[j] \in Above(h, b)})
  IN  IF i = 0 THEN Null ELSE at[i - 1]

add_to_free_list(h, b) ==
  LET prev == Predecessor(h, b)
      next == Stop(h, Above(h, b))
      mine == [h EXCEPT ![b] = [Block(@.size) EXCEPT !.prev = prev, !.next = next]]
  IN  Set(Set(mine, prev, "next", b), next, "prev", b)

(***************************************************************************)
(* merge_free_blocks, after add_to_free_list: the block is on the list     *)
(* itself, so that a neighbour before it is left with next = block and one *)
(* behind it has prev = block.                                             *)
(***************************************************************************)
MergeInto(h, c, b) ==   \* current ends where the block starts
  LET grown == Set(h, c, "size", h[c].size + Header + h[b].size)
      n     == grown[c].next
      both  == Set(Set(grown, c, "size", grown[c].size + Header + grown[n].size),
                   c, "next", grown[n].next)
  IN  IF n # Null /\ n = After(h, b) THEN Set(both, both[c].next, "prev", c) ELSE grown

MergeFrom(h, b, c) ==   \* the block ends where current starts
  LET grown == Set(Set(h, b, "size", h[b].size + Header + h[c].size), b, "next", h[c].next)
      after == Set(grown, grown[c].next, "prev", b)
      out   == Set(after, after[c].prev, "next", after[c].next)
  IN  Set(Set(out, b, "prev", out[c].prev), out[c].prev, "next", b)

Touching(h, b) == {c \in DOMAIN h \ {Null} : After(h, c) = b \/ After(h, b) = c}

merge_free_blocks(h, b) ==
  LET c == Stop(h, {Null} \cup Touching(h, b))
  IN  IF c = Null THEN h ELSE IF After(h, c) = b THEN MergeInto(h, c, b) ELSE MergeFrom(h, b, c)
-----------------------------------------------------------------------------
Allocated(h, b, n) ==
  LET cut  == split_block(h, b, n)
      gone == remove_from_free_list(cut, b)
      kept == IF Splits(h, b, n) THEN add_to_free_list(gone, b + Header + n) ELSE gone
  IN  [kept EXCEPT ![b].size = n, ![b].is_free = FALSE]

\* A block whose header says that it is free is left alone.
Freed(h, b) == IF h[b].is_free THEN h ELSE merge_free_blocks(add_to_free_list(h, b), b)

GivenBack(h, b) == IF h[b].is_free THEN 0 ELSE Header + h[b].size

Overruns(h, b, n) == Splits(h, b, n) /\ Remaining(h, b, n) > h[b].size

Merges(h, b) == /\ ~h[b].is_free
                /\ Stop(add_to_free_list(h, b), {Null} \cup Touching(h, b)) # Null

\* Walks that go round do not return, and there is no step for them.
HeapAlloc(n) ==
  /\ Returns(header) /\ Suits(header, n) # {}
  /\ LET b == find_free_block(header, n)
     IN  /\ header' = Allocated(header, b, n)
         /\ granted' = granted \cup {b}
         /\ damaged' = (damaged \/ Overruns(header, b, n))
  /\ heap_used' = heap_used + Header + n

HeapFree(b) ==
  /\ b \in granted /\ Returns(header)
  /\ header' = Freed(header, b)
  /\ heap_used' = (heap_used - GivenBack(header, b)) % Width
  /\ granted' = granted \ {b}
  /\ damaged' = (damaged \/ Merges(header, b))

\* A block that is large enough stays; without room it stays with its owner.
HeapRealloc(b, n) ==
  /\ b \in granted /\ ~header[b].is_free /\ n > header[b].size
  /\ Returns(header) /\ Suits(header, n) # {}
  /\ LET c   == find_free_block(header, n)
         new == Allocated(header, c, n)
     IN  /\ Returns(new)
         /\ header' = Freed(new, b)
         /\ heap_used' = (heap_used + Header + n - GivenBack(new, b)) % Width
         /\ granted' = (granted \ {b}) \cup {c}
         /\ damaged' = (damaged \/ Overruns(header, c, n) \/ Merges(new, b))

\* Whoever resets the heap has no use for its blocks any more, and no header but
\* the first can be reached before it is written again.
HeapReset == /\ header' = Empty
             /\ heap_used' = 0 /\ granted' = {}
             /\ UNCHANGED damaged

\* defrag stays with a block for as long as the next one on the list touches it.
Defragmented(h) ==
  LET pass[i \in 0 .. 2 * Longest(h)] ==
        IF i = 0 THEN [h |-> h, at |-> h[Null].next]
        ELSE LET p == pass[i - 1]
                 c == p.at
                 n == p.h[c].next
             IN  IF c = Null THEN p
                 ELSE IF n # Null /\ After(p.h, c) = n
                 THEN [h  |-> Set(Set(Set(p.h, c, "size", p.h[c].size + Header + p.h[n].size),
                                      c, "next", p.h[n].next),
                                  p.h[n].next, "prev", c),
                       at |-> c]
                 ELSE [p EXCEPT !.at = n]
  IN  pass[2 * Longest(h)].h

HeapDefrag == /\ Returns(header)
              /\ header' = Defragmented(header)
              /\ UNCHANGED <<heap_used, granted, damaged>>

HeapNext == \/ \E n \in Requests : HeapAlloc(n)
            \/ \E b \in granted : HeapFree(b)
            \/ \E b \in granted, n \in Requests : HeapRealloc(b, n)
            \/ HeapReset
            \/ HeapDefrag

HeapSpec == HeapInit /\ [][HeapNext]_heapVars
-----------------------------------------------------------------------------
OnList == Range(Walk(header)) \ {Null}

\* What the books show for some blocks.
Booked(h, blocks) == MapThenSumSet(LAMBDA b : Header + h[b].size, blocks)

Extent(b) == b .. After(header, b) - 1

(***************************************************************************)
(* Until a split overruns or a merge is made, the free blocks and those    *)
(* that callers have lie apart inside the buffer, the list leads both ways *)
(* and the books show what was granted.                                    *)
(***************************************************************************)
HeapApart == ~damaged =>
  /\ \A b, c \in OnList \cup granted : /\ Extent(b) \subseteq 0 .. HeapSize - 1
                                       /\ b # c => Extent(b) \cap Extent(c) = {}
  /\ \A b \in OnList : /\ header[header[b].prev].next = b
                       /\ header[b].is_free /\ b \notin granted
  /\ heap_used = Booked(header, granted)

(***************************************************************************)
(* "Add block to free list (maintaining sorted order by address)"          *)
(* (shared_heap.c:129): every block on the list is followed by one of a    *)
(* higher address, so that a walk of the list ends.                        *)
(***************************************************************************)
FreeListSorted == \A b \in OnList : header[b].next = Null \/ header[b].next > b
=============================================================================
