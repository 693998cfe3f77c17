----------------------------- MODULE MemoryView -----------------------------
(***************************************************************************)
(* The zero-copy views of src/src/mm/memory_view.c and the arena they are  *)
(* allocated from: windows on one buffer, cut from one another by slicing  *)
(* and by conversion to typed slices and back, and appended to by copying. *)
(* Addresses and sizes are in bytes.  Sizes stay far enough below the      *)
(* width of size_t that no sum of two wraps.                               *)
(***************************************************************************)
EXTENDS Integers, FiniteSetsExt

CONSTANTS Size,        \* the size of the arena's buffer
          Base,        \* the address of the buffer
          alignment,   \* the arena's own alignment
          Sizes,       \* the sizes, lengths and counts callers ask for
          Alignments,  \* the alignments they ask for, 0 for the arena's
          Elements     \* the element sizes of typed slices

PowerOfTwo(a) == \E k \in 0 .. 30 : a = 2 ^ k

ASSUME SizesAssumption == /\ Size \in Nat \ {0} /\ Base \in Nat \ {0}
                          /\ Sizes \subseteq Nat /\ Elements \subseteq Nat
ASSUME AlignmentAssumption == /\ alignment \in Nat \ {0} /\ PowerOfTwo(alignment)
                              /\ Alignments \subseteq Nat

VARIABLES used,     \* how much of the arena is handed out
          regions,  \* history: the regions handed out since the last reset
          view,     \* the view at hand
          slice     \* the typed slice at hand

viewVars == <<used, regions, view, slice>>

\* The empty view and the empty slice, which the functions return on a refusal.
NoView == [data |-> 0, length |-> 0, capacity |-> 0, offset |-> 0]
NoSlice == [data |-> 0, element_size |-> 0, element_count |-> 0, capacity |-> 0]

ViewInit == /\ used = 0
            /\ regions = {}
            /\ view = NoView
            /\ slice = NoSlice

align_up(p, a) == ((p + a - 1) \div a) * a
-----------------------------------------------------------------------------
\* The bytes mp_memory_arena_alloc skips for an alignment a.
Padding(a) == align_up(Base + used, a) - (Base + used)

Fits(n, a) == n # 0 /\ PowerOfTwo(a) /\ used + Padding(a) + n <= Size

\* Mutant of Taken: the padding is not counted.
TakenUnpadded(n, a) == n

Taken(n, a) == Padding(a) + n

\* mp_memory_arena_alloc_view, granted; every allocation goes the same way.
ArenaGrant(n, a) ==
  LET start == align_up(Base + used, a)
  IN  /\ Fits(n, a)
      /\ used' = used + Taken(n, a)
      /\ regions' = regions \cup {[start |-> start, size |-> n, alignment |-> a]}
      /\ view' = [data |-> start, length |-> n, capacity |-> n, offset |-> start - Base]
      /\ UNCHANGED slice

ArenaRefuse(n, a) == /\ ~Fits(n, a)
                     /\ view' = NoView
                     /\ UNCHANGED <<used, regions, slice>>

ArenaAlloc(n, a) ==
  LET chosen == IF a = 0 THEN alignment ELSE a
  IN  ArenaGrant(n, chosen) \/ ArenaRefuse(n, chosen)

\* Resetting ends the life of what was handed out; its users let go of it.
ArenaReset == /\ used' = 0
              /\ regions' = {}
              /\ view' = NoView
              /\ slice' = NoSlice

\* A view of a region somebody holds, emptied by its holder to be filled.
OpenRegion(r) == /\ view' = [data |-> r.start, length |-> 0, capacity |-> r.size, offset |-> 0]
                 /\ UNCHANGED <<used, regions, slice>>
-----------------------------------------------------------------------------
\* How much of the count asked for is there after the start.
Part(start, count, there) == IF start + count > there THEN there - start ELSE count

Slice(start, length) ==
  /\ view' = IF start >= view.length THEN NoView
             ELSE [data |-> view.data + start,
                   length |-> Part(start, length, view.length),
                   capacity |-> view.capacity - start,
                   offset |-> view.offset + start]
  /\ UNCHANGED <<used, regions, slice>>

AsSlice(element, count) ==
  /\ slice' = IF element = 0 THEN NoSlice
              ELSE LET max_elements == view.length \div element
                   IN  [data |-> view.data, element_size |-> element,
                        element_count |-> Min({count, max_elements}),
                        capacity |-> max_elements]
  /\ UNCHANGED <<used, regions, view>>

Subslice(start, count) ==
  /\ slice' = IF slice.element_size = 0 \/ start >= slice.element_count THEN NoSlice
              ELSE [data |-> slice.data + start * slice.element_size,
                    element_size |-> slice.element_size,
                    element_count |-> Part(start, count, slice.element_count),
                    capacity |-> slice.capacity - start]
  /\ UNCHANGED <<used, regions, view>>

AsView == /\ view' = [data |-> slice.data,
                      length |-> slice.element_count * slice.element_size,
                      capacity |-> slice.capacity * slice.element_size,
                      offset |-> 0]
          /\ UNCHANGED <<used, regions, slice>>

\* Mutant of Room: what the view already holds is not counted.
RoomWhole == view.capacity - view.offset

\* What mp_memory_view_copy takes to be free in the view it appends to: the
\* offset counts, though the capacity is already that of the part after it.
Room == view.capacity - view.offset - view.length

\* mp_memory_view_copy of a view of n bytes to the one at hand; too many are refused.
Copy(n) == /\ view.data # 0
           /\ n <= Room
           /\ view' = [view EXCEPT !.length = @ + n]
           /\ UNCHANGED <<used, regions, slice>>

ViewNext == \/ \E n \in Sizes, a \in Alignments : ArenaAlloc(n, a)
            \/ ArenaReset
            \/ \E r \in regions : OpenRegion(r)
            \/ \E start, n \in Sizes : Slice(start, n)
            \/ \E element \in Elements, n \in Sizes : AsSlice(element, n)
            \/ \E start, n \in Sizes : Subslice(start, n)
            \/ AsView
            \/ \E n \in Sizes : Copy(n)

ViewSpec == ViewInit /\ [][ViewNext]_viewVars
-----------------------------------------------------------------------------
End(r) == r.start + r.size

(***************************************************************************)
(* What the arena hands out between two resets is aligned as asked, lies   *)
(* in its buffer and overlaps nothing else it handed out.                  *)
(***************************************************************************)
ArenaSound == /\ used \in 0 .. Size
              /\ \A r \in regions : /\ r.start % r.alignment = 0
                                    /\ Base <= r.start /\ End(r) <= Base + used
              /\ \A r, s \in regions : r # s => End(r) <= s.start \/ End(s) <= r.start

\* Does [data, data + n) lie within one region?
Within(data, n) == \E r \in regions : r.start <= data /\ data + n <= End(r)

(***************************************************************************)
(* However views and slices are cut from one another, converted and copied *)
(* to, what they let a caller reach, the room to append included, lies in  *)
(* the one region they came from.                                          *)
(***************************************************************************)
ViewsWithin ==
  /\ IF view.data = 0 THEN view.capacity = 0 ELSE Within(view.data, view.capacity)
  /\ IF slice.data = 0 THEN slice.capacity = 0
     ELSE Within(slice.data, slice.capacity * slice.element_size)
  /\ view.length <= view.capacity
  /\ slice.element_count <= slice.capacity
=============================================================================
