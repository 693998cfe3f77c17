----------------------------- MODULE MemoryProofs -----------------------------
(***************************************************************************)
(* What the memory services prove for every value of their constants: the  *)
(* arena and its views, the block pool, the collector's young list, the    *)
(* first-fit heap and the shared heap.                                     *)
(***************************************************************************)
EXTENDS MemoryView, Pool, Gc, Tlsf, SharedHeap, Chains, FiniteSetTheorems

(***************************************************************************)
(* The arithmetic, free of the model: addresses rounded up by a quotient   *)
(* and a product, and elements counted by one and measured by the other.   *)
(***************************************************************************)
LEMMA UpToNext ==
  ASSUME NEW p \in Nat, NEW a \in Nat \ {0}
  PROVE  /\ align_up(p, a) \in Nat
         /\ align_up(p, a) >= p
         /\ align_up(p, a) % a = 0
<1> DEFINE q == (p + a - 1) \div a
<1>1. q \in Nat /\ p + a - 1 - q * a \in 0 .. a - 1 OBVIOUS
<1>2. q * a \in Nat /\ q * a >= p BY <1>1
<1>3. (q * a) % a = 0 BY <1>1
<1>4. QED BY <1>2, <1>3 DEF align_up

LEMMA QuotientBelow ==
  ASSUME NEW n \in Nat, NEW e \in Nat \ {0}
  PROVE  n \div e \in Nat /\ (n \div e) * e <= n
OBVIOUS

LEMMA Products ==
  ASSUME NEW i \in Nat, NEW j \in Nat, NEW e \in Nat, i <= j
  PROVE  /\ i * e \in Nat /\ j * e \in Nat /\ i * e <= j * e
         /\ i * e + (j - i) * e = j * e
OBVIOUS

LEMMA EndsThere ==
  ASSUME NEW s \in Nat, NEW n \in Nat, NEW b \in Nat, NEW u \in Nat, s + n = b + u
  PROVE  s + n <= b + u
OBVIOUS

LEMMA LeastOfTwo ==
  ASSUME NEW i \in Nat, NEW j \in Nat
  PROVE  Min({i, j}) \in Nat /\ Min({i, j}) <= j
<1>1. \E m \in {i, j} : \A n \in {i, j} : m <= n
  <2>1. CASE i <= j BY <2>1
  <2>2. CASE j <= i BY <2>2
  <2>3. QED BY <2>1, <2>2
<1>2. QED BY <1>1 DEF Min
-----------------------------------------------------------------------------
(***************************************************************************)
(* Types and the two properties are inductive together: a view lies in a   *)
(* region only if regions stay where they are.                             *)
(***************************************************************************)
Regions == [start : Nat, size : Nat, alignment : Nat]
Views == [data : Nat, length : Nat, capacity : Nat, offset : Nat]
TypedSlices == [data : Nat, element_size : Nat, element_count : Nat, capacity : Nat]

ViewTypes == /\ used \in Nat /\ regions \subseteq Regions
             /\ view \in Views /\ slice \in TypedSlices

\* Each of the two properties about one region, view or slice, to cite apart.
ArenaInv == /\ used \in 0 .. Size
            /\ \A r \in regions : /\ r.start % r.alignment = 0
                                  /\ Base <= r.start /\ End(r) <= Base + used
            /\ \A r, s \in regions : r # s => End(r) <= s.start \/ End(s) <= r.start

ViewInv == /\ IF view.data = 0 THEN view.capacity = 0 ELSE Within(view.data, view.capacity)
           /\ view.length <= view.capacity

SliceInv == /\ IF slice.data = 0 THEN slice.capacity = 0
               ELSE Within(slice.data, slice.capacity * slice.element_size)
            /\ slice.element_count <= slice.capacity

MemoryInv == ViewTypes /\ ArenaInv /\ ViewInv /\ SliceInv

LEMMA Sized == /\ Size \in Nat /\ Base \in Nat \ {0}
               /\ \A n \in Sizes : n \in Nat
               /\ \A e \in Elements : e \in Nat
BY SizesAssumption

\* Regions and a slice that do not change keep what is known of them.
LEMMA SameArena == MemoryInv /\ UNCHANGED <<used, regions>> => ArenaInv'
BY DEF MemoryInv, ArenaInv

LEMMA SameSlice == MemoryInv /\ UNCHANGED <<regions, slice>> => SliceInv'
BY DEF MemoryInv, SliceInv, Within

LEMMA SameView == MemoryInv /\ UNCHANGED <<regions, view>> => ViewInv'
BY DEF MemoryInv, ViewInv, Within

LEMMA NoViewFits == NoView \in Views /\ (view' = NoView => ViewInv')
BY DEF NoView, Views, ViewInv

LEMMA NoSliceFits == NoSlice \in TypedSlices /\ (slice' = NoSlice => SliceInv')
BY DEF NoSlice, TypedSlices, SliceInv
-----------------------------------------------------------------------------
LEMMA GrantInv ==
  ASSUME MemoryInv, NEW n \in Sizes, NEW a \in Nat \ {0}, ArenaGrant(n, a)
  PROVE  MemoryInv'
<1> DEFINE start == align_up(Base + used, a)
           fresh == [start |-> start, size |-> n, alignment |-> a]
<1>1. used \in Nat /\ Base + used \in Nat /\ n \in Nat /\ Size \in Nat /\ Base \in Nat \ {0}
  BY Sized DEF MemoryInv, ViewTypes
<1>2. start \in Nat /\ start >= Base + used BY <1>1, UpToNext
<1>2a. start % a = 0 BY <1>1, UpToNext
<1>3. /\ used' = used + (start - (Base + used)) + n /\ used' <= Size
      /\ regions' = regions \cup {fresh} /\ slice' = slice
      /\ view' = [data |-> start, length |-> n, capacity |-> n, offset |-> start - Base]
  BY <1>1, <1>2 DEF ArenaGrant, Fits, Taken, Padding
<1> HIDE DEF start
<1>4. used' \in Nat /\ start + n = Base + used' /\ used <= used' BY <1>1, <1>2, <1>3
<1>4a. Base <= start /\ start + n <= Base + used'
  <2>1. Base <= start BY ONLY <1>1, <1>2
  <2>2. start + n <= Base + used' BY ONLY <1>1, <1>2, <1>4, EndsThere
  <2>3. QED BY ONLY <2>1, <2>2
<1>5. fresh \in Regions BY <1>1, <1>2 DEF Regions
<1>6. view' \in Views BY <1>1, <1>2, <1>3 DEF Views
<1>7. ViewTypes' BY <1>3, <1>4, <1>5, <1>6 DEF MemoryInv, ViewTypes
<1>8. ArenaInv'
  <2>1. \A r \in regions : /\ r.start % r.alignment = 0 /\ Base <= r.start
                           /\ r.start \in Nat /\ r.size \in Nat /\ End(r) <= Base + used
    BY DEF MemoryInv, ViewTypes, Regions, ArenaInv
  <2>2. used' \in 0 .. Size BY <1>1, <1>3, <1>4
  <2>3. ASSUME NEW r \in regions'
        PROVE  r.start % r.alignment = 0 /\ Base <= r.start /\ End(r) <= Base + used'
    <3>1. CASE r \in regions
      <4>1. r.start % r.alignment = 0 /\ Base <= r.start BY <2>1, <3>1
      <4>2. End(r) <= Base + used' BY <1>1, <1>4, <2>1, <3>1 DEF End
      <4>3. QED BY <4>1, <4>2
    <3>2. CASE r = fresh
      <4>1. r.start = start /\ r.alignment = a /\ End(r) = start + n BY <3>2 DEF End
      <4>2. QED BY ONLY <1>2a, <1>4a, <4>1
    <3>3. QED BY <1>3, <3>1, <3>2
  <2>4. ASSUME NEW r \in regions', NEW s \in regions', r # s
        PROVE  End(r) <= s.start \/ End(s) <= r.start
    <3>1. \A t \in regions : End(t) <= fresh.start BY <1>1, <1>2, <2>1 DEF End
    <3>2. CASE r \in regions /\ s \in regions BY <2>4, <3>2 DEF MemoryInv, ArenaInv
    <3>3. CASE r = fresh \/ s = fresh BY <1>3, <2>4, <3>1, <3>3
    <3>4. QED BY <1>3, <3>2, <3>3
  <2>5. QED BY <2>2, <2>3, <2>4 DEF ArenaInv
<1>9. ViewInv'
  <2>1. fresh \in regions' /\ fresh.start = start /\ End(fresh) = start + n BY <1>3 DEF End
  <2>2. start # 0 /\ start <= start /\ start + n <= start + n BY <1>1, <1>2
  <2>3. QED BY <1>1, <1>3, <2>1, <2>2 DEF ViewInv, Within
<1>10. SliceInv' BY <1>3 DEF MemoryInv, SliceInv, Within
<1>11. QED BY <1>7, <1>8, <1>9, <1>10 DEF MemoryInv
-----------------------------------------------------------------------------
\* A part of a view is within it.
LEMMA SliceStepInv ==
  ASSUME MemoryInv, NEW start \in Sizes, NEW length \in Sizes, Slice(start, length)
  PROVE  MemoryInv'
<1>1. ArenaInv' /\ SliceInv' BY SameArena, SameSlice DEF Slice
<1>2. CASE start >= view.length
  <2>1. view' = NoView BY <1>2 DEF Slice
  <2>2. QED BY <1>1, <2>1, NoViewFits DEF Slice, MemoryInv, ViewTypes
<1>3. CASE ~(start >= view.length)
  <2> DEFINE part == Part(start, length, view.length)
  <2>1. /\ start \in Nat /\ length \in Nat /\ view.data \in Nat /\ view.length \in Nat
        /\ view.capacity \in Nat /\ view.offset \in Nat
        /\ start < view.length /\ view.length <= view.capacity
    BY <1>3, Sized DEF MemoryInv, ViewTypes, Views, ViewInv
  <2>2. part \in Nat /\ start + part <= view.length BY <2>1 DEF Part
  <2>3. view' = [data |-> view.data + start, length |-> part,
                 capacity |-> view.capacity - start, offset |-> view.offset + start]
    BY <1>3 DEF Slice
  <2> HIDE DEF part
  <2>4. view' \in Views BY <2>1, <2>2, <2>3 DEF Views
  <2>5. ViewTypes' BY <2>4 DEF Slice, MemoryInv, ViewTypes
  <2>6. view.data # 0 /\ Within(view.data, view.capacity) BY <2>1 DEF MemoryInv, ViewInv
  <2>7. PICK r \in regions : r.start <= view.data /\ view.data + view.capacity <= End(r)
    BY <2>6 DEF Within
  <2>8. r.start \in Nat /\ r.size \in Nat BY DEF MemoryInv, ViewTypes, Regions
  <2>9. r.start <= view'.data /\ view'.data + view'.capacity <= End(r) /\ view'.data # 0
        /\ view'.length <= view'.capacity
    BY <2>1, <2>2, <2>3, <2>6, <2>7, <2>8 DEF End
  <2>10. ViewInv' BY <2>9 DEF Slice, ViewInv, Within
  <2>11. QED BY <1>1, <2>5, <2>10 DEF MemoryInv
<1>4. QED BY <1>2, <1>3

\* Whole elements of a view are within it.
LEMMA AsSliceInv ==
  ASSUME MemoryInv, NEW element \in Elements, NEW count \in Sizes, AsSlice(element, count)
  PROVE  MemoryInv'
<1>1. ArenaInv' /\ ViewInv' BY SameArena, SameView DEF AsSlice
<1>2. CASE element = 0
  <2>1. slice' = NoSlice BY <1>2 DEF AsSlice
  <2>2. QED BY <1>1, <2>1, NoSliceFits DEF AsSlice, MemoryInv, ViewTypes
<1>3. CASE element # 0
  <2> DEFINE most == view.length \div element
  <2>1. /\ element \in Nat \ {0} /\ count \in Nat /\ view.data \in Nat /\ view.length \in Nat
        /\ view.capacity \in Nat /\ view.length <= view.capacity
    BY <1>3, Sized DEF MemoryInv, ViewTypes, Views, ViewInv
  <2>2. most \in Nat /\ most * element \in Nat /\ most * element <= view.length
    <3>1. view.length \div element \in Nat /\ (view.length \div element) * element <= view.length
      BY <2>1, QuotientBelow
    <3>2. most * element \in Nat BY <2>1, <3>1, Products
    <3>3. QED BY <3>1, <3>2
  <2>3. slice' = [data |-> view.data, element_size |-> element,
                  element_count |-> Min({count, most}), capacity |-> most]
    BY <1>3 DEF AsSlice
  <2> HIDE DEF most
  <2>4. Min({count, most}) \in Nat /\ Min({count, most}) <= most BY <2>1, <2>2, LeastOfTwo
  <2>5. slice' \in TypedSlices BY <2>1, <2>2, <2>3, <2>4 DEF TypedSlices
  <2>6. ViewTypes' BY <2>5 DEF AsSlice, MemoryInv, ViewTypes
  <2>7. CASE view.data = 0
    <3>1. view.capacity = 0 BY <2>7 DEF MemoryInv, ViewInv
    <3>2. view.length = 0 BY <2>1, <3>1
    <3>3. 0 \div element = 0 BY <2>1
    <3>4. most = 0 BY <3>2, <3>3 DEF most
    <3>5. SliceInv' BY <2>3, <2>4, <2>7, <3>4 DEF SliceInv
    <3>6. QED BY <1>1, <2>6, <3>5 DEF MemoryInv
  <2>8. CASE view.data # 0
    <3>1. PICK r \in regions : r.start <= view.data /\ view.data + view.capacity <= End(r)
      BY <2>8 DEF MemoryInv, ViewInv, Within
    <3>2. r.start \in Nat /\ r.size \in Nat BY DEF MemoryInv, ViewTypes, Regions
    <3>3. view.data + most * element <= End(r) BY <2>1, <2>2, <3>1, <3>2 DEF End
    <3>4. SliceInv' BY <2>3, <2>4, <2>8, <3>1, <3>3 DEF AsSlice, SliceInv, Within
    <3>5. QED BY <1>1, <2>6, <3>4 DEF MemoryInv
  <2>9. QED BY <2>7, <2>8
<1>4. QED BY <1>2, <1>3

\* A part of a slice is within it.
LEMMA SubsliceInv ==
  ASSUME MemoryInv, NEW start \in Sizes, NEW count \in Sizes, Subslice(start, count)
  PROVE  MemoryInv'
<1>1. ArenaInv' /\ ViewInv' BY SameArena, SameView DEF Subslice
<1>2. CASE slice.element_size = 0 \/ start >= slice.element_count
  <2>1. slice' = NoSlice BY <1>2 DEF Subslice
  <2>2. QED BY <1>1, <2>1, NoSliceFits DEF Subslice, MemoryInv, ViewTypes
<1>3. CASE ~(slice.element_size = 0 \/ start >= slice.element_count)
  <2> DEFINE part == Part(start, count, slice.element_count)
             size == slice.element_size
             first == slice.data + start * size
             rest == slice.capacity - start
  <2>1. /\ start \in Nat /\ count \in Nat /\ slice.data \in Nat /\ slice.element_count \in Nat
        /\ slice.capacity \in Nat /\ size \in Nat
        /\ start < slice.element_count /\ slice.element_count <= slice.capacity
    BY <1>3, Sized DEF MemoryInv, ViewTypes, TypedSlices, SliceInv
  <2>2. part \in Nat /\ start + part <= slice.element_count BY <2>1 DEF Part
  <2>3. slice' = [data |-> first, element_size |-> size, element_count |-> part, capacity |-> rest]
    BY <1>3 DEF Subslice
  <2>4. /\ start * size \in Nat /\ rest \in Nat /\ rest * size \in Nat
        /\ slice.capacity * size \in Nat /\ start * size + rest * size = slice.capacity * size
    BY <2>1, Products
  <2> HIDE DEF part, size
  <2>5. first \in Nat /\ slice' \in TypedSlices
    BY <2>1, <2>2, <2>3, <2>4 DEF TypedSlices
  <2>6. ViewTypes' BY <2>5 DEF Subslice, MemoryInv, ViewTypes
  <2>7. slice.data # 0 /\ Within(slice.data, slice.capacity * size)
    BY <2>1 DEF MemoryInv, SliceInv, size
  <2>8. PICK r \in regions :
           r.start <= slice.data /\ slice.data + slice.capacity * size <= End(r)
    BY <2>7 DEF Within
  <2>9. r.start \in Nat /\ r.size \in Nat BY DEF MemoryInv, ViewTypes, Regions
  <2>10. r.start <= first /\ first + rest * size <= End(r) /\ first # 0
    BY <2>1, <2>4, <2>7, <2>8, <2>9 DEF End
  <2>11. part <= rest BY <2>1, <2>2
  <2> HIDE DEF first, rest
  <2>12. SliceInv' BY <2>3, <2>10, <2>11 DEF Subslice, SliceInv, Within
  <2>13. QED BY <1>1, <2>6, <2>12 DEF MemoryInv
<1>4. QED BY <1>2, <1>3

\* A slice seen as a view covers the same bytes.
LEMMA AsViewInv == ASSUME MemoryInv, AsView PROVE MemoryInv'
<1>1. ArenaInv' /\ SliceInv' BY SameArena, SameSlice DEF AsView
<1>2. /\ slice.data \in Nat /\ slice.element_count \in Nat /\ slice.capacity \in Nat
      /\ slice.element_size \in Nat /\ slice.element_count <= slice.capacity
  BY DEF MemoryInv, ViewTypes, TypedSlices, SliceInv
<1>3. /\ slice.element_count * slice.element_size \in Nat
      /\ slice.capacity * slice.element_size \in Nat
      /\ slice.element_count * slice.element_size <= slice.capacity * slice.element_size
  BY <1>2, Products
<1>4. slice.capacity = 0 => slice.capacity * slice.element_size = 0 BY <1>2
<1>5. view' \in Views BY <1>2, <1>3 DEF AsView, Views
<1>6. ViewTypes' BY <1>5 DEF AsView, MemoryInv, ViewTypes
<1>7. ViewInv' BY <1>3, <1>4 DEF AsView, MemoryInv, SliceInv, ViewInv, Within
<1>8. QED BY <1>1, <1>6, <1>7 DEF MemoryInv

\* The offset counts twice against the room, which can only make it smaller.
LEMMA CopyInv == ASSUME MemoryInv, NEW n \in Sizes, Copy(n) PROVE MemoryInv'
<1>1. ArenaInv' /\ SliceInv' BY SameArena, SameSlice DEF Copy
<1>2. /\ view \in Views /\ n \in Nat /\ view.length \in Nat /\ view.capacity \in Nat
      /\ view.offset \in Nat
  BY Sized DEF MemoryInv, ViewTypes, Views
<1>3. /\ view' \in Views /\ view'.data = view.data /\ view'.capacity = view.capacity
      /\ view'.length = view.length + n
  BY <1>2 DEF Copy, Views
<1>4. view'.length <= view'.capacity BY <1>2, <1>3 DEF Copy, Room
<1>5. ViewTypes' BY <1>3 DEF Copy, MemoryInv, ViewTypes
<1>6. ViewInv' BY <1>3, <1>4 DEF Copy, MemoryInv, ViewInv, Within
<1>7. QED BY <1>1, <1>5, <1>6 DEF MemoryInv
-----------------------------------------------------------------------------
LEMMA OpenInv == ASSUME MemoryInv, NEW r \in regions, OpenRegion(r) PROVE MemoryInv'
<1>1. ArenaInv' /\ SliceInv' BY SameArena, SameSlice DEF OpenRegion
<1>2. r.start \in Nat /\ r.size \in Nat /\ Base <= r.start /\ Base \in Nat \ {0}
  BY Sized DEF MemoryInv, ViewTypes, Regions, ArenaInv
<1>3. /\ view' \in Views /\ view'.data = r.start /\ view'.capacity = r.size /\ view'.length = 0
      /\ regions' = regions
  BY <1>2, Sized DEF OpenRegion, Views
<1>4. ViewTypes' BY <1>3 DEF OpenRegion, MemoryInv, ViewTypes
<1>5. r.start # 0 /\ r.start <= r.start /\ r.start + r.size <= End(r) /\ 0 <= r.size
  BY <1>2 DEF End
<1>6. ViewInv' BY <1>3, <1>5 DEF ViewInv, Within
<1>7. QED BY <1>1, <1>4, <1>6 DEF MemoryInv

LEMMA ResetInv == ASSUME MemoryInv, ArenaReset PROVE MemoryInv'
<1>1. ViewTypes' /\ ArenaInv'
  BY Sized, NoViewFits, NoSliceFits DEF ArenaReset, ViewTypes, ArenaInv
<1>2. QED BY <1>1, NoViewFits, NoSliceFits DEF ArenaReset, MemoryInv

LEMMA ViewStepInv == MemoryInv /\ [ViewNext]_viewVars => MemoryInv'
<1> SUFFICES ASSUME MemoryInv, [ViewNext]_viewVars PROVE MemoryInv'
  OBVIOUS
<1>1. ASSUME NEW n \in Sizes, NEW a \in Alignments, ArenaAlloc(n, a) PROVE MemoryInv'
  <2> DEFINE chosen == IF a = 0 THEN alignment ELSE a
  <2>1. chosen \in Nat \ {0} BY AlignmentAssumption
  <2>2. CASE ArenaGrant(n, chosen) BY <2>1, <2>2, GrantInv
  <2>3. CASE ArenaRefuse(n, chosen)
    <3>1. ArenaInv' /\ SliceInv' BY <2>3, SameArena, SameSlice DEF ArenaRefuse
    <3>2. QED BY <2>3, <3>1, NoViewFits DEF ArenaRefuse, MemoryInv, ViewTypes
  <2>4. QED BY <1>1, <2>2, <2>3 DEF ArenaAlloc
<1>2. CASE UNCHANGED viewVars
  <2>1. ArenaInv' /\ ViewInv' /\ SliceInv' BY <1>2, SameArena, SameView, SameSlice DEF viewVars
  <2>2. QED BY <1>2, <2>1 DEF viewVars, MemoryInv, ViewTypes
<1>3. QED
  BY <1>1, <1>2, ResetInv, OpenInv, SliceStepInv, AsSliceInv, SubsliceInv, AsViewInv, CopyInv
  DEF ViewNext
-----------------------------------------------------------------------------
LEMMA MemoryInvariant == ViewSpec => []MemoryInv
<1>1. ViewInit => MemoryInv
  BY Sized, NoViewFits, NoSliceFits
  DEF ViewInit, MemoryInv, ViewTypes, ArenaInv, ViewInv, SliceInv, NoView, NoSlice
<1>2. QED BY <1>1, ViewStepInv, PTL DEF ViewSpec

(***************************************************************************)
(* What the arena hands out between two resets is aligned, in its buffer   *)
(* and apart (mp_memory_arena_alloc).                                      *)
(***************************************************************************)
THEOREM ArenaHandsOutApart == ViewSpec => []ArenaSound
<1>1. MemoryInv => ArenaSound BY DEF MemoryInv, ArenaInv, ArenaSound
<1>2. QED BY <1>1, MemoryInvariant, PTL

(***************************************************************************)
(* No cutting, conversion or copying takes a view or a typed slice out of  *)
(* the region it came from (mp_memory_view_slice, mp_slice_from_view,      *)
(* mp_slice_subslice, mp_slice_as_view, mp_memory_view_copy).              *)
(***************************************************************************)
THEOREM ViewsStayWithin == ViewSpec => []ViewsWithin
<1>1. MemoryInv => ViewsWithin BY DEF MemoryInv, ViewInv, SliceInv, ViewsWithin
<1>2. QED BY <1>1, MemoryInvariant, PTL

-----------------------------------------------------------------------------
(***************************************************************************)
(* The block pool.  The free blocks are a chain of as many as free_blocks  *)
(* says; a block that is handed out was the first of it.                   *)
(***************************************************************************)
FreeChain(s) == /\ IsChain(s, Blocks, bitmap, word, 0)
                /\ Members(s) = Blocks \ owned
                /\ Len(s) = free_blocks

PoolInv == /\ word \in [Blocks -> 0 .. num_blocks \cup {Data}]
           /\ owned \in SUBSET Blocks
           /\ free_blocks = num_blocks - Cardinality(owned)
           /\ \E s : FreeChain(s)

LEMMA BlocksFinite == /\ IsFiniteSet(Blocks) /\ Cardinality(Blocks) = num_blocks
                      /\ 0 \notin Blocks
  BY NumBlocksAssumption, FS_Interval DEF Blocks

LEMMA PoolInitInv == PoolInit => PoolInv
<1> SUFFICES ASSUME PoolInit PROVE PoolInv
  OBVIOUS
<1> DEFINE s == [i \in 1 .. num_blocks |-> i]
<1>1. s \in Seq(Blocks) /\ Len(s) = num_blocks /\ DOMAIN s = 1 .. num_blocks
  BY NumBlocksAssumption DEF Blocks
<1>2. Members(s) = Blocks BY <1>1 DEF Members, Blocks
<1>3. ASSUME NEW i \in 1 .. Len(s) PROVE word[s[i]] = Follower(s, i, 0)
  BY <1>1, NumBlocksAssumption DEF PoolInit, Blocks, Follower
<1>4. bitmap = FirstOf(s, 0)
  <2>1. s # << >> /\ s[1] = 1 BY <1>1, NumBlocksAssumption
  <2> QED BY <2>1 DEF PoolInit, FirstOf
<1>5. Once(s) BY <1>1 DEF Once
<1>6. FreeChain(s)
  BY <1>1, <1>2, <1>3, <1>4, <1>5, BlocksFinite DEF FreeChain, IsChain, PoolInit
<1>7. word \in [Blocks -> 0 .. num_blocks \cup {Data}]
  BY NumBlocksAssumption DEF PoolInit, Blocks
<1> QED BY <1>6, <1>7, FS_EmptySet, NumBlocksAssumption DEF PoolInv, PoolInit

LEMMA PoolStepInv == PoolInv /\ [PoolNext]_poolVars => PoolInv'
<1> SUFFICES ASSUME PoolInv, [PoolNext]_poolVars PROVE PoolInv'
  OBVIOUS
<1>0. PICK s : FreeChain(s) BY DEF PoolInv
<1>1. /\ s \in Seq(Blocks) /\ Once(s) /\ bitmap = FirstOf(s, 0) /\ Len(s) = free_blocks
      /\ \A i \in 1 .. Len(s) : word[s[i]] = Follower(s, i, 0)
      /\ Members(s) = Blocks \ owned
  BY <1>0 DEF FreeChain, IsChain
<1>2. IsFiniteSet(owned) /\ Cardinality(owned) \in Nat
  BY BlocksFinite, FS_Subset, FS_CardinalityType DEF PoolInv
<1>3. CASE PoolAlloc
  <2>1. Len(s) # 0 /\ s # << >> /\ 1 \in 1 .. Len(s) /\ bitmap = s[1] BY <1>1, <1>3 DEF PoolAlloc, FirstOf
  <2>2. bitmap \in Blocks \ owned BY <1>1, <2>1 DEF Members
  <2> DEFINE w == Without(s, 1)
  <2>3. Len(w) = Len(s) - 1 /\ Members(w) = Members(s) \ {bitmap} BY <1>1, <2>1, WithoutIs
  <2>4. IsChain(w, Blocks, word[bitmap], word, 0)
    <3>1. \A i \in 1 .. Len(s) : i # 1 => word[s[i]] = IF i = 1 - 1 THEN word[s[1]] ELSE word[s[i]]
      BY <1>1
    <3> QED BY <1>0, <2>1, <3>1, ChainWithout DEF FreeChain
  <2>5. FreeChain(w)' BY <1>1, <1>3, <2>3, <2>4 DEF PoolAlloc, FreeChain
  <2>6. Cardinality(owned') = Cardinality(owned) + 1
    BY <1>2, <1>3, <2>2, FS_AddElement DEF PoolAlloc
  <2> QED BY <1>2, <1>3, <2>2, <2>5, <2>6, NumBlocksAssumption DEF PoolAlloc, PoolInv
<1>4. ASSUME NEW b \in Blocks, PoolFree(b) PROVE PoolInv'
  <2> DEFINE p == Prepended(b, s)
  <2>1. b \notin Members(s) BY <1>1, <1>4 DEF PoolFree
  <2>2. Len(p) = Len(s) + 1 /\ Members(p) = Members(s) \cup {b}
    <3>1. s \in Seq(Blocks) /\ b \in Blocks BY <1>1
    <3> HIDE DEF p
    <3>2. p = Prepended(b, s) BY DEF p
    <3>3. /\ Len(Prepended(b, s)) = Len(s) + 1
          /\ Members(Prepended(b, s)) = Members(s) \cup {b}
      BY <3>1, PrependedIs
    <3> QED BY <3>2, <3>3
  <2>3. \A y \in Members(s) : word'[y] = word[y] BY <1>1, <1>4, <2>1 DEF PoolFree, PoolInv
  <2>4. word'[b] = bitmap BY <1>4 DEF PoolFree, PoolInv
  <2>5. IsChain(p, Blocks, b, word', 0)
    <3>1. IsChain(s, Blocks, bitmap, word, 0) BY <1>0 DEF FreeChain
    <3> QED BY <2>1, <2>3, <2>4, <3>1, ChainPrepended
  <2>6. FreeChain(p)' BY <1>1, <1>4, <2>2, <2>5 DEF PoolFree, FreeChain
  <2>7. Cardinality(owned') = Cardinality(owned) - 1
    BY <1>2, <1>4, FS_RemoveElement DEF PoolFree
  <2>8. bitmap \in 0 .. num_blocks
    <3>1. s # << >> => s[1] \in Blocks BY <1>1
    <3> QED BY <1>1, <3>1, NumBlocksAssumption DEF FirstOf, Blocks
  <2>9. word' \in [Blocks -> 0 .. num_blocks \cup {Data}] BY <1>4, <2>8 DEF PoolFree, PoolInv
  <2> QED BY <1>2, <1>4, <2>6, <2>7, <2>9, NumBlocksAssumption DEF PoolFree, PoolInv
<1>5. ASSUME NEW b \in Blocks, PoolUse(b) PROVE PoolInv'
  <2>1. \A y \in Members(s) : word'[y] = word[y] BY <1>1, <1>5 DEF PoolUse, PoolInv
  <2>2. IsChain(s, Blocks, bitmap, word', 0)
    <3>1. IsChain(s, Blocks, bitmap, word, 0) BY <1>0 DEF FreeChain
    <3> QED BY <2>1, <3>1, ChainSame
  <2>3. FreeChain(s)' BY <1>1, <1>5, <2>2 DEF PoolUse, FreeChain
  <2>4. word' \in [Blocks -> 0 .. num_blocks \cup {Data}] BY <1>5 DEF PoolUse, PoolInv
  <2> QED BY <1>5, <2>3, <2>4 DEF PoolUse, PoolInv
<1>6. CASE UNCHANGED poolVars
  BY <1>6 DEF poolVars, PoolInv, FreeChain, IsChain
<1> QED BY <1>3, <1>4, <1>5, <1>6 DEF PoolNext

\* The recursion of Place has a solution: the walk along the chain.
LEMMA PlaceGoesAlong ==
  ASSUME PoolInv, NEW s, FreeChain(s)
  PROVE  \A n \in 0 .. num_blocks : Place[n] = Along(s, n, 0)
<1> DEFINE F(p, n) == IF n = 0 THEN bitmap ELSE IF p[n - 1] \in Blocks THEN word[p[n - 1]] ELSE 0
           g == [n \in 0 .. num_blocks |-> Along(s, n, 0)]
<1>1. /\ s \in Seq(Blocks) /\ bitmap = FirstOf(s, 0)
      /\ \A i \in 1 .. Len(s) : word[s[i]] = Follower(s, i, 0)
  BY DEF FreeChain, IsChain
<1>2. ASSUME NEW n \in 0 .. num_blocks PROVE Along(s, n, 0) = F(g, n)
  <2>1. CASE n = 0 BY <1>1, <2>1 DEF Along, FirstOf
  <2>2. CASE n # 0 /\ n \in 1 .. Len(s)
    <3>1. n - 1 \in 0 .. num_blocks /\ g[n - 1] = s[n]
      BY <1>1, <2>2, NumBlocksAssumption DEF Along
    <3>2. s[n] \in Blocks BY <1>1, <2>2
    <3>3. word[s[n]] = Along(s, n, 0) BY <1>1, <2>2, AlongFollower
    <3> QED BY <2>2, <3>1, <3>2, <3>3
  <2>3. CASE n # 0 /\ n \notin 1 .. Len(s)
    <3>1. n - 1 \in 0 .. num_blocks /\ g[n - 1] = 0 /\ Along(s, n, 0) = 0
      BY <1>1, <2>3, NumBlocksAssumption DEF Along
    <3> QED BY <2>3, <3>1, BlocksFinite
  <2> QED BY <2>1, <2>2, <2>3
<1>3. g = [n \in 0 .. num_blocks |-> F(g, n)] BY <1>2
<1>4. Place = [n \in 0 .. num_blocks |-> F(Place, n)] BY <1>3 DEF Place
<1>5. Place[0] = bitmap BY <1>4, NumBlocksAssumption
<1>6. ASSUME NEW n \in 1 .. num_blocks
      PROVE  /\ Place[n - 1] = 0 => Place[n] = 0
             /\ Place[n - 1] \in Blocks => Place[n] = word[Place[n - 1]]
  <2>1. Place[n] = F(Place, n) BY <1>4, NumBlocksAssumption
  <2> QED BY <2>1, BlocksFinite
<1> HIDE DEF F, g
<1>7. IsChain(s, Blocks, bitmap, word, 0) /\ num_blocks \in Nat
  BY NumBlocksAssumption DEF FreeChain
<1>8. Walks(Place, num_blocks, Blocks, bitmap, word, 0) BY <1>5, <1>6, <1>7 DEF Walks
<1> QED BY <1>7, <1>8, WalkGoesAlong

LEMMA PoolInvExact == PoolInv => FreeListExact
<1> SUFFICES ASSUME PoolInv PROVE FreeListExact
  OBVIOUS
<1>1. PICK s : FreeChain(s) BY DEF PoolInv
<1>2. IsFiniteSet(owned) /\ Cardinality(owned) \in Nat /\ Len(s) = num_blocks - Cardinality(owned)
  BY <1>1, BlocksFinite, FS_Subset, FS_CardinalityType DEF PoolInv, FreeChain
<1>3. s \in Seq(Blocks) /\ 0 \notin Blocks /\ Len(s) \in 0 .. num_blocks
  BY <1>1, <1>2, NumBlocksAssumption, BlocksFinite DEF FreeChain, IsChain
<1>4. \A n \in 0 .. num_blocks : Place[n] = Along(s, n, 0) BY <1>1, PlaceGoesAlong
<1>5. /\ {Along(s, n, 0) : n \in 0 .. num_blocks} \ {0} = Members(s)
      /\ Along(s, Len(s), 0) = 0
  BY <1>3, MetAlong, NumBlocksAssumption
<1>6. {Place[n] : n \in 0 .. num_blocks} = {Along(s, n, 0) : n \in 0 .. num_blocks} BY <1>4
<1>7. Place[Len(s)] = 0 BY <1>3, <1>4, <1>5
<1> QED BY <1>1, <1>5, <1>6, <1>7 DEF FreeChain, FreeListExact, PoolInv

\* The free list of the pool is exact, for any number of blocks, whatever their owners
\* write into them and in whatever order they return them.
THEOREM PoolListExact == PoolSpec => []FreeListExact
<1>1. PoolInit => PoolInv BY PoolInitInv
<1>2. PoolInv /\ [PoolNext]_poolVars => PoolInv' BY PoolStepInv
<1>3. PoolInv => FreeListExact BY PoolInvExact
<1> QED BY <1>1, <1>2, <1>3, PTL DEF PoolSpec

-----------------------------------------------------------------------------
(***************************************************************************)
(* The collector's young list under reference counting.  The objects that  *)
(* are allocated are a chain from young_list; that its back links mirror   *)
(* it is what lets an object leave from the middle.                        *)
(***************************************************************************)
Before(s, i) == IF i = 1 THEN NoObject ELSE s[i - 1]

Generation(s) == /\ IsChain(s, Objects, young_list, gnext, NoObject)
                 /\ Members(s) = live
                 /\ Len(s) = num_objects
                 /\ \A i \in 1 .. Len(s) : gprev[s[i]] = Before(s, i)

GcInv == /\ live \in SUBSET Objects /\ live \subseteq young
         /\ gnext \in [Objects -> Objects \cup {NoObject}]
         /\ gprev \in [Objects -> Objects \cup {NoObject}]
         /\ num_objects = Cardinality(live)
         /\ \E s : Generation(s)

LEMMA GcInitInv == GcInit => GcInv
<1> SUFFICES ASSUME GcInit PROVE GcInv
  OBVIOUS
<1>1. << >> \in Seq(Objects) /\ Len(<< >>) = 0 /\ DOMAIN << >> = {} OBVIOUS
<1>2. Generation(<< >>)
  BY <1>1, ObjectsAssumption DEF GcInit, Generation, IsChain, Once, FirstOf, Members
<1> QED BY <1>2, FS_EmptySet DEF GcInit, GcInv

LEMMA AllocInv == ASSUME GcInv, NEW o \in Objects, Alloc(o) PROVE GcInv'
<1>0. PICK s : Generation(s) BY DEF GcInv
<1>1. /\ s \in Seq(Objects) /\ Once(s) /\ young_list = FirstOf(s, NoObject) /\ Len(s) = num_objects
      /\ Members(s) = live /\ NoObject \notin Objects
      /\ IsChain(s, Objects, young_list, gnext, NoObject)
  BY <1>0 DEF Generation, IsChain
<1>2. IsFiniteSet(live) /\ Cardinality(live) \in Nat
  BY ObjectsAssumption, FS_Subset, FS_CardinalityType DEF GcInv
<1> DEFINE p == Prepended(o, s)
<1>3. o \notin Members(s) BY <1>1 DEF Alloc
<1>4. Len(p) = Len(s) + 1 /\ Members(p) = Members(s) \cup {o}
  <2>1. s \in Seq(Objects) /\ o \in Objects BY <1>1
  <2> QED BY ONLY <2>1, PrependedIs
<1>5. gnext'[o] = young_list /\ \A y \in Members(s) : gnext'[y] = gnext[y]
  BY <1>1, <1>3 DEF Alloc, GcInv
<1>6. IsChain(p, Objects, o, gnext', NoObject) BY <1>1, <1>3, <1>5, ChainPrepended
<1>7. young_list \in Objects \cup {NoObject} /\ (s # << >> => young_list = s[1] /\ s[1] \in live)
  <2>1. CASE s = << >> BY <1>1, <2>1 DEF FirstOf
  <2>2. CASE s # << >>
    <3>1. 1 \in DOMAIN s /\ s[1] \in Objects BY <1>1, <2>2
    <3> QED BY <1>1, <2>2, <3>1 DEF FirstOf, Members
  <2> QED BY <2>1, <2>2
<1>8. ASSUME NEW i \in 1 .. Len(p) PROVE gprev'[p[i]] = Before(p, i)
  <2>1. /\ p[i] = IF i = 1 THEN o ELSE s[i - 1]
        /\ i # 1 => i - 1 \in DOMAIN s /\ s[i - 1] \in live /\ s[i - 1] # o
        /\ i # 1 => p[i - 1] = IF i - 1 = 1 THEN o ELSE s[i - 1 - 1]
    BY <1>1, <1>3, <1>4 DEF Prepended, Members
  <2>2. /\ gprev'[o] = NoObject
        /\ \A y \in live : gprev'[y] = IF y = young_list THEN o ELSE gprev[y]
    BY <1>1, <1>3, <1>7 DEF Alloc, Link, GcInv
  <2>3. CASE i = 1 BY <2>1, <2>2, <2>3 DEF Before
  <2>4. CASE i = 2
    <3>1. s # << >> /\ p[i] = young_list /\ p[i] \in live BY <1>1, <1>4, <1>7, <2>1, <2>4
    <3> QED BY <2>1, <2>2, <2>4, <3>1 DEF Before
  <2>5. CASE i # 1 /\ i # 2
    <3>1. s # << >> /\ s[i - 1] # young_list
      <4>1. s # << >> /\ 1 \in DOMAIN s /\ i - 1 # 1 BY <1>1, <1>4, <2>5
      <4> QED BY <1>1, <1>7, <2>1, <2>5, <4>1 DEF Once
    <3>2. gprev'[s[i - 1]] = gprev[s[i - 1]] BY <2>1, <2>2, <2>5, <3>1
    <3>3. gprev[s[i - 1]] = Before(s, i - 1) BY <1>0, <1>1, <2>1, <2>5 DEF Generation
    <3> QED BY <1>4, <2>1, <2>5, <3>2, <3>3 DEF Before
  <2> QED BY <2>3, <2>4, <2>5
<1>9. num_objects' = Cardinality(live') /\ num_objects' = num_objects + 1
  BY <1>2, FS_AddElement DEF Alloc, GcInv
<1>10. Generation(p)' BY <1>1, <1>4, <1>6, <1>8, <1>9 DEF Generation, Alloc, Before
<1>11. /\ gnext' \in [Objects -> Objects \cup {NoObject}]
       /\ gprev' \in [Objects -> Objects \cup {NoObject}]
  BY <1>7 DEF Alloc, Link, GcInv
<1> QED BY <1>9, <1>10, <1>11 DEF Alloc, GcInv

LEMMA FreeInv == ASSUME GcInv, NEW o \in Objects, Free(o) PROVE GcInv'
<1>0. PICK s : Generation(s) BY DEF GcInv
<1>1. /\ s \in Seq(Objects) /\ Once(s) /\ young_list = FirstOf(s, NoObject) /\ Len(s) = num_objects
      /\ \A i \in 1 .. Len(s) : gnext[s[i]] = Follower(s, i, NoObject)
      /\ \A i \in 1 .. Len(s) : gprev[s[i]] = Before(s, i)
      /\ Members(s) = live /\ NoObject \notin Objects /\ DOMAIN s = 1 .. Len(s) /\ Len(s) \in Nat
  BY <1>0 DEF Generation, IsChain
<1>2. IsFiniteSet(live) /\ Cardinality(live) \in Nat
  BY ObjectsAssumption, FS_Subset, FS_CardinalityType DEF GcInv
<1>3. o \in live /\ o \in young BY DEF Free, GcInv
<1>4. PICK k \in 1 .. Len(s) : s[k] = o BY <1>1, <1>3 DEF Members
<1> DEFINE w == Without(s, k)
<1>5. /\ Len(w) = Len(s) - 1 /\ Members(w) = Members(s) \ {o}
      /\ w \in Seq(Objects) /\ DOMAIN w = 1 .. Len(s) - 1
  BY <1>1, <1>4, WithoutIs
<1>6. \A i \in 1 .. Len(s) : s[i] \in Objects /\ s[i] # NoObject BY <1>1
<1>7. gprev[o] = (IF k = 1 THEN NoObject ELSE s[k - 1]) /\ gnext[o] = IF k = Len(s) THEN NoObject ELSE s[k + 1]
  BY <1>1, <1>4 DEF Before, Follower
<1>8. ASSUME NEW i \in 1 .. Len(s)
      PROVE  gnext'[s[i]] = IF i = k - 1 THEN gnext[o] ELSE gnext[s[i]]
  <2>1. CASE k = 1
    <3>1. gnext' = gnext BY <1>7, <2>1 DEF Free, Unlist, Link
    <3> QED BY <1>4, <2>1, <3>1
  <2>2. CASE k # 1
    <3>1. k - 1 \in 1 .. Len(s) BY <1>4, <2>2
    <3>2. gnext' = [gnext EXCEPT ![s[k - 1]] = gnext[o]] BY <1>6, <1>7, <2>2, <3>1 DEF Free, Unlist, Link
    <3>3. s[i] = s[k - 1] <=> i = k - 1 BY <1>1, <3>1 DEF Once
    <3> QED BY <1>6, <3>2, <3>3 DEF GcInv
  <2> QED BY <2>1, <2>2
<1>9. ASSUME NEW i \in 1 .. Len(s)
      PROVE  gprev'[s[i]] = IF i = k + 1 THEN gprev[o] ELSE gprev[s[i]]
  <2>1. CASE k = Len(s)
    <3>1. gprev' = gprev BY <1>7, <2>1 DEF Free, Unlist, Link
    <3> QED BY <1>1, <1>4, <2>1, <3>1
  <2>2. CASE k # Len(s)
    <3>1. k + 1 \in 1 .. Len(s) BY <1>1, <1>4, <2>2
    <3>2. gprev' = [gprev EXCEPT ![s[k + 1]] = gprev[o]] BY <1>6, <1>7, <2>2, <3>1 DEF Free, Unlist, Link
    <3>3. s[i] = s[k + 1] <=> i = k + 1 BY <1>1, <3>1 DEF Once
    <3> QED BY <1>6, <3>2, <3>3 DEF GcInv
  <2> QED BY <2>1, <2>2
<1>10. IsChain(w, Objects, IF k = 1 THEN gnext[s[k]] ELSE young_list, gnext', NoObject)
  <2>1. IsChain(s, Objects, young_list, gnext, NoObject) BY <1>0 DEF Generation
  <2>2. \A i \in 1 .. Len(s) : i # k => gnext'[s[i]] = IF i = k - 1 THEN gnext[s[k]] ELSE gnext[s[i]]
    BY <1>4, <1>8
  <2> QED BY <2>1, <2>2, ChainWithout
<1>11. young_list' = IF k = 1 THEN gnext[s[k]] ELSE young_list
  <2>1. gprev[o] = NoObject <=> k = 1 BY <1>4, <1>6, <1>7
  <2> QED BY <1>3, <1>4, <2>1 DEF Free, Unlist
<1>12. ASSUME NEW i \in 1 .. Len(w) PROVE gprev'[w[i]] = Before(w, i)
  <2>1. /\ w[i] = IF i < k THEN s[i] ELSE s[i + 1]
        /\ i # 1 => w[i - 1] = IF i - 1 < k THEN s[i - 1] ELSE s[i - 1 + 1]
        /\ i \in 1 .. Len(s) /\ i + 1 \in 1 .. Len(s)
    BY <1>1, <1>5 DEF Without
  <2>2. CASE i < k
    <3>1. gprev'[s[i]] = gprev[s[i]] /\ gprev[s[i]] = Before(s, i) BY <1>1, <1>9, <2>1, <2>2
    <3> QED BY <2>1, <2>2, <3>1 DEF Before
  <2>3. CASE i = k
    <3>1. gprev'[s[i + 1]] = Before(s, k) BY <1>1, <1>4, <1>9, <2>1, <2>3
    <3> QED BY <2>1, <2>3, <3>1 DEF Before
  <2>4. CASE i > k
    <3>1. gprev'[s[i + 1]] = gprev[s[i + 1]] /\ gprev[s[i + 1]] = Before(s, i + 1)
      BY <1>1, <1>9, <2>1, <2>4
    <3>2. i # 1 /\ i + 1 # 1 /\ ~(i < k) /\ ~(i - 1 < k) BY <1>4, <2>4
    <3> QED BY <2>1, <3>1, <3>2 DEF Before
  <2> QED BY <1>4, <2>2, <2>3, <2>4
<1>13. num_objects' = Cardinality(live') /\ num_objects' = num_objects - 1
  BY <1>2, <1>3, FS_RemoveElement DEF Free, GcInv
<1> HIDE DEF w
<1>14. Generation(w)'
  BY <1>1, <1>5, <1>10, <1>11, <1>12, <1>13 DEF Generation, Free, Before
<1>15. {gprev[o], gnext[o]} \subseteq Objects \cup {NoObject} BY DEF GcInv
<1>16. /\ gnext' \in [Objects -> Objects \cup {NoObject}]
       /\ gprev' \in [Objects -> Objects \cup {NoObject}]
  BY <1>15 DEF Free, Unlist, Link, GcInv
<1> QED BY <1>13, <1>14, <1>16 DEF Free, GcInv

LEMMA GcStepInv == GcInv /\ [RefStep]_gcVars => GcInv'
<1> SUFFICES ASSUME GcInv, [RefStep]_gcVars PROVE GcInv'
  OBVIOUS
<1>1. ASSUME NEW o \in Objects, IncRef(o) \/ DecRef(o) PROVE GcInv'
  BY <1>1 DEF IncRef, DecRef, GcInv, Generation, Before
<1>2. CASE UNCHANGED gcVars BY <1>2 DEF gcVars, GcInv, Generation, Before
<1> QED BY <1>1, <1>2, AllocInv, FreeInv DEF RefStep

\* The recursion of Way has a solution: the walk along the chain.
LEMMA WayGoesAlong ==
  ASSUME NEW s, NEW first, NEW links, IsChain(s, Objects, first, links, NoObject)
  PROVE  \A n \in 0 .. Cardinality(Objects) : Way(first, links)[n] = Along(s, n, NoObject)
<1> DEFINE N == Cardinality(Objects)
           F(p, n) == IF n = 0 THEN first ELSE IF p[n - 1] = NoObject THEN NoObject ELSE links[p[n - 1]]
           g == [n \in 0 .. N |-> Along(s, n, NoObject)]
           way == Way(first, links)
<1>0. N \in Nat BY ObjectsAssumption, FS_CardinalityType
<1> HIDE DEF N
<1>1. /\ s \in Seq(Objects) /\ first = FirstOf(s, NoObject) /\ NoObject \notin Objects
      /\ \A i \in 1 .. Len(s) : links[s[i]] = Follower(s, i, NoObject)
  BY DEF IsChain
<1>2. ASSUME NEW n \in 0 .. N PROVE Along(s, n, NoObject) = F(g, n)
  <2>1. CASE n = 0 BY <1>1, <2>1 DEF Along, FirstOf
  <2>2. CASE n # 0 /\ n \in 1 .. Len(s)
    <3>1. n - 1 \in 0 .. N /\ g[n - 1] = s[n] BY <1>0, <1>1, <2>2 DEF Along
    <3>2. s[n] \in Objects BY <1>1, <2>2
    <3>3. links[s[n]] = Along(s, n, NoObject) BY <1>1, <2>2, AlongFollower
    <3> QED BY <1>1, <2>2, <3>1, <3>2, <3>3
  <2>3. CASE n # 0 /\ n \notin 1 .. Len(s)
    <3>1. n - 1 \in 0 .. N /\ g[n - 1] = NoObject /\ Along(s, n, NoObject) = NoObject
      BY <1>0, <1>1, <2>3 DEF Along
    <3> QED BY <2>3, <3>1
  <2> QED BY <2>1, <2>2, <2>3
<1>3. g = [n \in 0 .. N |-> F(g, n)] BY <1>2
<1>4. way = [n \in 0 .. N |-> F(way, n)] BY <1>3 DEF Way, N
<1> HIDE DEF way
<1>5. way[0] = first BY <1>0, <1>4
<1>6. ASSUME NEW n \in 1 .. N
      PROVE  /\ way[n - 1] = NoObject => way[n] = NoObject
             /\ way[n - 1] \in Objects => way[n] = links[way[n - 1]]
  <2>1. way[n] = F(way, n) BY <1>0, <1>4
  <2> QED BY <1>1, <2>1
<1> HIDE DEF F, g
<1>7. Walks(way, N, Objects, first, links, NoObject) BY <1>0, <1>5, <1>6 DEF Walks
<1>8. \A n \in 0 .. N : way[n] = Along(s, n, NoObject) BY <1>7, WalkGoesAlong
<1> QED BY <1>8 DEF way, N

LEMMA GcInvExact == GcInv => GenerationExact
<1> SUFFICES ASSUME GcInv PROVE GenerationExact
  OBVIOUS
<1> DEFINE N == Cardinality(Objects)
<1>1. PICK s : Generation(s) BY DEF GcInv
<1>2. /\ s \in Seq(Objects) /\ NoObject \notin Objects /\ Once(s) /\ Members(s) = live
      /\ young_list = FirstOf(s, NoObject)
      /\ \A i \in 1 .. Len(s) : gnext[s[i]] = Follower(s, i, NoObject)
      /\ \A i \in 1 .. Len(s) : gprev[s[i]] = Before(s, i)
      /\ DOMAIN s = 1 .. Len(s) /\ Len(s) \in Nat
  BY <1>1 DEF Generation, IsChain
<1>3. N \in Nat /\ Len(s) <= N
  BY <1>1, ObjectsAssumption, FS_Subset, FS_CardinalityType DEF Generation, GcInv
<1>4. \A n \in 0 .. N : Way(young_list, gnext)[n] = Along(s, n, NoObject)
  BY <1>1, WayGoesAlong DEF Generation
<1>5. /\ {Along(s, n, NoObject) : n \in 0 .. N} \ {NoObject} = live
      /\ Along(s, N, NoObject) = NoObject
  BY <1>2, <1>3, MetAlong
<1>6. Met(young_list, gnext) = live
  <2>1. {Way(young_list, gnext)[n] : n \in 0 .. N} = {Along(s, n, NoObject) : n \in 0 .. N} BY <1>4
  <2> QED BY <1>5, <2>1 DEF Met
<1>7. Walkable(young_list, gnext, live)
  <2>1. Way(young_list, gnext)[N] = NoObject BY <1>3, <1>4, <1>5
  <2> QED BY <1>6, <2>1 DEF Walkable
<1>8. ASSUME NEW o \in live
      PROVE  /\ gnext[o] # NoObject => gprev[gnext[o]] = o
             /\ gprev[o] = NoObject <=> o = young_list
  <2>1. PICK k \in 1 .. Len(s) : s[k] = o BY <1>2 DEF Members
  <2>2. gnext[o] # NoObject => gprev[gnext[o]] = o
    <3>1. CASE k = Len(s) BY <1>2, <2>1, <3>1 DEF Follower
    <3>2. CASE k # Len(s)
      <4>1. gnext[o] = s[k + 1] BY <1>2, <2>1, <3>2, Zenon DEF Follower
      <4>2. Len(s) \in Nat BY <1>2
      <4>3. k + 1 \in 1 .. Len(s) /\ k + 1 # 1 /\ k + 1 - 1 = k BY <3>2, <4>2
      <4>4. gprev[s[k + 1]] = Before(s, k + 1) BY <1>2, <4>3
      <4> QED BY <2>1, <4>1, <4>3, <4>4 DEF Before
    <3> QED BY <3>1, <3>2
  <2>3. gprev[o] = NoObject <=> k = 1
    <3>1. k # 1 => k - 1 \in 1 .. Len(s) /\ s[k - 1] \in Objects BY <1>2, <2>1
    <3> QED BY <1>2, <2>1, <3>1 DEF Before
  <2>4. o = young_list <=> k = 1
    <3>1. 1 \in DOMAIN s /\ s # << >> /\ young_list = s[1] BY <1>2, <2>1 DEF FirstOf
    <3> QED BY <1>2, <2>1, <3>1 DEF Once
  <2> QED BY <2>2, <2>3, <2>4
<1> QED BY <1>6, <1>7, <1>8 DEF GenerationExact, GcInv

\* Under reference counting the young list is exact, for any set of objects: no
\* object that is allocated is off it, none that was freed is on it, however the
\* references are dropped.
THEOREM YoungListExact == GcRefsSpec => []GenerationExact
<1>1. GcInit => GcInv BY GcInitInv
<1>2. GcInv /\ [RefStep]_gcVars => GcInv' BY GcStepInv
<1>3. GcInv => GenerationExact BY GcInvExact
<1> QED BY <1>1, <1>2, <1>3, PTL DEF GcRefsSpec

-----------------------------------------------------------------------------
(***************************************************************************)
(* The first-fit heap.  The blocks lie in the order of the list, all but   *)
(* the last of a size that was asked for; so that sizes that are alike can *)
(* only be cut from the last block, and what callers hold is on the list   *)
(* before it.                                                              *)
(***************************************************************************)
Alike(S) == \A m, n \in S : m < n + BlockHeader

Cells == [at : Nat, size : Nat]

Tiled(s) == /\ Len(s) >= 1 /\ s[1].at = 0 /\ Behind(s[Len(s)]) = TlsfSize
            /\ \A i \in 2 .. Len(s) : s[i].at = Behind(s[i - 1])
            /\ \A i, j \in 1 .. Len(s) : i < j => Behind(s[i]) <= s[j].at

TlsfInv == /\ blocks \in Seq(Cells)
           /\ asked \subseteq TlsfRequests
           /\ Tiled(blocks)
           /\ Alike(asked) => /\ \A i \in 1 .. Len(blocks) - 1 : blocks[i].size \in asked
                              /\ \A b \in lent : \E i \in 1 .. Len(blocks) - 1 : b = blocks[i]

LEMMA LeastFits ==
  ASSUME TlsfInv, NEW n, Fitting(n) # {}
  PROVE  /\ Min(Fitting(n)) \in 1 .. Len(blocks)
         /\ blocks[Min(Fitting(n))].size >= n + BlockHeader
<1>1. Fitting(n) \in SUBSET Nat BY DEF Fitting, TlsfInv
<1>2. \E x \in Fitting(n) : \A y \in Fitting(n) : x =< y BY <1>1, LeastNatural
<1>3. Min(Fitting(n)) \in Fitting(n) BY <1>2 DEF Min
<1> QED BY <1>3 DEF Fitting, TlsfInv

\* What a split does to the list.
CutAt(s, i, b, c) == [j \in 1 .. Len(s) + 1 |-> IF j < i THEN s[j] ELSE IF j = i THEN b
                                                ELSE IF j = i + 1 THEN c ELSE s[j - 1]]

LEMMA Joined ==
  ASSUME NEW S, NEW u \in Seq(S), NEW v \in Seq(S)
  PROVE  /\ u \o v \in Seq(S) /\ Len(u \o v) = Len(u) + Len(v)
         /\ \A j \in 1 .. Len(u) + Len(v) : (u \o v)[j] = IF j <= Len(u) THEN u[j] ELSE v[j - Len(u)]
  OBVIOUS

LEMMA InsertedIs ==
  ASSUME NEW S, NEW s \in Seq(S), NEW i \in 1 .. Len(s), NEW b \in S, NEW c \in S
  PROVE  /\ ReplaceAt(InsertAt(s, i + 1, c), i, b) = CutAt(s, i, b, c)
         /\ CutAt(s, i, b, c) \in Seq(S) /\ Len(CutAt(s, i, b, c)) = Len(s) + 1
<1> DEFINE l == SubSeq(s, 1, i)
           r == SubSeq(s, i + 1, Len(s))
           t == InsertAt(s, i + 1, c)
<1>1. /\ l \in Seq(S) /\ Len(l) = i /\ \A j \in 1 .. i : l[j] = s[j]
  OBVIOUS
<1>2. r \in Seq(S) /\ Len(r) = Len(s) - i /\ \A j \in 1 .. Len(s) - i : r[j] = s[i + j]
  OBVIOUS
<1>3. t = l \o <<c>> \o r
  <2>1. (i + 1) - 1 = i OBVIOUS
  <2>2. t = SubSeq(s, 1, (i + 1) - 1) \o <<c>> \o SubSeq(s, i + 1, Len(s)) BY Zenon DEF InsertAt, t
  <2> QED BY <2>1, <2>2, Zenon DEF l, r
<1> HIDE DEF l, r
<1> DEFINE lc == l \o <<c>>
<1>4. lc \in Seq(S) /\ Len(lc) = i + 1
      /\ \A j \in 1 .. i + 1 : lc[j] = IF j = i + 1 THEN c ELSE s[j]
  BY <1>1
<1>a. t = lc \o r BY <1>3
<1> HIDE DEF lc, t
<1>5. /\ t \in Seq(S) /\ Len(t) = Len(s) + 1
      /\ \A j \in 1 .. Len(s) + 1 : t[j] = IF j <= i + 1 THEN lc[j] ELSE r[j - (i + 1)]
  <2>1. Len(lc) + Len(r) = Len(s) + 1 BY <1>2, <1>4
  <2>2. lc \o r \in Seq(S) /\ Len(lc \o r) = Len(lc) + Len(r)
        /\ \A j \in 1 .. Len(lc) + Len(r) : (lc \o r)[j] = IF j <= Len(lc) THEN lc[j] ELSE r[j - Len(lc)]
    BY <1>2, <1>4, Joined
  <2> QED BY <1>4, <1>a, <2>1, <2>2
<1>6. ASSUME NEW j \in 1 .. Len(s) + 1
      PROVE  t[j] = IF j < i + 1 THEN s[j] ELSE IF j = i + 1 THEN c ELSE s[j - 1]
  <2>1. CASE j <= i + 1 BY <1>4, <1>5, <2>1
  <2>2. CASE j > i + 1
    <3>1. j - (i + 1) \in 1 .. Len(s) - i /\ i + (j - (i + 1)) = j - 1 BY <2>2
    <3>2. t[j] = r[j - (i + 1)] BY <1>5, <2>2
    <3>3. r[j - (i + 1)] = s[j - 1] BY <1>2, <3>1
    <3> QED BY <2>2, <3>2, <3>3
  <2> QED BY <2>1, <2>2
<1>7. ReplaceAt(t, i, b) = [j \in 1 .. Len(s) + 1 |-> IF j = i THEN b ELSE t[j]]
  <2>1. t = [j \in 1 .. Len(s) + 1 |-> t[j]] BY <1>5
  <2> QED BY <2>1 DEF ReplaceAt
<1>8. ReplaceAt(t, i, b) = CutAt(s, i, b, c) BY <1>6, <1>7 DEF CutAt
<1>9. CutAt(s, i, b, c) \in [1 .. Len(s) + 1 -> S] BY DEF CutAt
<1> QED BY <1>8, <1>9 DEF t

\* A block cut in two.
Pieces(d, n, b, c) == /\ b \in Cells /\ b.at = d.at /\ b.size = n
                      /\ c \in Cells /\ c.at = Behind(b) /\ Behind(c) = Behind(d)

LEMMA SplitIs ==
  ASSUME NEW d \in Cells, NEW n \in Nat, d.size >= n + BlockHeader
  PROVE  Pieces(d, n, Split(d, n)[1], Split(d, n)[2])
<1>1. Split(d, n)[1] = [d EXCEPT !.size = n] BY DEF Split
<1>2. Split(d, n)[2] = [at |-> d.at + BlockHeader + n, size |-> d.size - n - BlockHeader] BY DEF Split
<1>3. BlockHeader \in Nat /\ d.at \in Nat /\ d.size \in Nat BY TlsfAssumption DEF Cells
<1>4. Split(d, n)[1] \in Cells /\ Split(d, n)[1].at = d.at /\ Split(d, n)[1].size = n BY <1>1 DEF Cells
<1>5. Split(d, n)[2] \in Cells BY <1>2, <1>3 DEF Cells
<1>6. Split(d, n)[2].at = Behind(Split(d, n)[1]) BY <1>2, <1>3, <1>4 DEF Behind
<1>7. Behind(Split(d, n)[2]) = Behind(d) BY <1>2, <1>3 DEF Behind
<1> QED BY <1>4, <1>5, <1>6, <1>7 DEF Pieces

LEMMA CellBehind ==
  ASSUME NEW d \in Cells
  PROVE  d.at \in Nat /\ d.size \in Nat /\ Behind(d) \in Nat /\ d.at <= Behind(d)
  BY TlsfAssumption DEF Cells, Behind

LEMMA CutTiled ==
  ASSUME NEW s \in Seq(Cells), Tiled(s), NEW i \in 1 .. Len(s), NEW n \in Nat,
         NEW b, NEW c, Pieces(s[i], n, b, c)
  PROVE  Tiled(CutAt(s, i, b, c))
<1> DEFINE t == CutAt(s, i, b, c)
<1>0. s[i] \in Cells /\ BlockHeader \in Nat \ {0} BY TlsfAssumption
<1>1. /\ b \in Cells /\ b.at = s[i].at /\ b.size = n
      /\ c \in Cells /\ c.at = Behind(b) /\ Behind(c) = Behind(s[i])
  BY DEF Pieces
<1>2. t \in Seq(Cells) /\ Len(t) = Len(s) + 1 BY <1>1, InsertedIs
<1>3. \A j \in 1 .. Len(s) + 1 : t[j] = IF j < i THEN s[j] ELSE IF j = i THEN b
                                       ELSE IF j = i + 1 THEN c ELSE s[j - 1]
  BY DEF CutAt
<1> HIDE DEF t
<1>4. t[1].at = 0
  <2>1. CASE i = 1 BY <1>1, <1>3, <2>1 DEF Tiled
  <2>2. CASE i # 1 BY <1>3, <2>2 DEF Tiled
  <2> QED BY <2>1, <2>2
<1>5. Behind(t[Len(t)]) = TlsfSize
  <2>1. CASE i = Len(s) BY <1>1, <1>2, <1>3, <2>1 DEF Tiled
  <2>2. CASE i # Len(s)
    <3>1. t[Len(s) + 1] = s[Len(s) + 1 - 1] BY <1>3, <2>2
    <3> QED BY <1>2, <3>1 DEF Tiled
  <2> QED BY <2>1, <2>2
<1>6. ASSUME NEW j \in 2 .. Len(s) + 1 PROVE t[j].at = Behind(t[j - 1])
  <2>1. CASE j < i
    <3>1. t[j] = s[j] /\ t[j - 1] = s[j - 1] /\ j \in 2 .. Len(s) BY <1>3, <2>1
    <3> QED BY <3>1 DEF Tiled
  <2>2. CASE j = i
    <3>1. t[j] = b /\ t[j - 1] = s[i - 1] /\ b.at = s[i].at /\ i \in 2 .. Len(s) BY <1>1, <1>3, <2>2
    <3>2. s[i].at = Behind(s[i - 1]) BY <3>1 DEF Tiled
    <3> QED BY <3>1, <3>2
  <2>3. CASE j = i + 1 BY <1>1, <1>3, <2>3
  <2>4. CASE j = i + 2
    <3>1. t[j] = s[i + 1] /\ t[j - 1] = c /\ i + 1 \in 2 .. Len(s) /\ i + 1 - 1 = i BY <1>3, <2>4
    <3>2. s[i + 1].at = Behind(s[i]) BY <3>1 DEF Tiled
    <3> QED BY <1>1, <3>1, <3>2
  <2>5. CASE j > i + 2
    <3>1. t[j] = s[j - 1] /\ t[j - 1] = s[j - 1 - 1] /\ j - 1 \in 2 .. Len(s) BY <1>3, <2>5
    <3> QED BY <3>1 DEF Tiled
  <2> QED BY <2>1, <2>2, <2>3, <2>4, <2>5
<1>7. ASSUME NEW j \in 1 .. Len(s) + 1, NEW k \in 1 .. Len(s) + 1, j < k
      PROVE  Behind(t[j]) <= t[k].at
  <2> DEFINE J == IF j <= i THEN j ELSE j - 1
             K == IF k <= i THEN k ELSE k - 1
  <2>1. J \in 1 .. Len(s) /\ K \in 1 .. Len(s) /\ (J < K \/ (j = i /\ k = i + 1)) BY <1>7
  <2>2. t[j] = IF j = i THEN b ELSE IF j = i + 1 THEN c ELSE s[J] BY <1>3
  <2>3. t[k] = IF k = i THEN b ELSE IF k = i + 1 THEN c ELSE s[K] BY <1>3
  <2>4. j \in {i, i + 1} => J = i OBVIOUS
  <2>5. k \in {i, i + 1} => K = i OBVIOUS
  <2> HIDE DEF J, K
  <2>6. /\ s[J] \in Cells /\ s[K] \in Cells BY <2>1
  <2>7. /\ Behind(b) = c.at /\ Behind(b) <= Behind(s[i]) /\ Behind(c) = Behind(s[i])
        /\ b.at = s[i].at /\ s[i].at <= c.at
    BY <1>0, <1>1, CellBehind
  <2>8. CASE j = i /\ k = i + 1 BY <1>1, <2>2, <2>3, <2>7, <2>8, CellBehind
  <2>9. CASE J < K
    <3>1. Behind(s[J]) <= s[K].at BY <2>1, <2>9 DEF Tiled
    <3>2. Behind(t[j]) \in Nat /\ Behind(s[J]) \in Nat /\ Behind(t[j]) <= Behind(s[J])
      BY <1>1, <2>2, <2>4, <2>6, <2>7, CellBehind
    <3>3. t[k].at \in Nat /\ s[K].at \in Nat /\ t[k].at >= s[K].at
      <4>1. s[K].at \in Nat /\ b.at \in Nat /\ c.at \in Nat BY <1>1, <2>6, CellBehind
      <4>2. CASE k = i \/ k = i + 1
        <5>1. K = i /\ (t[k] = b \/ t[k] = c) BY <2>3, <2>5, <4>2
        <5> QED BY <2>7, <4>1, <5>1
      <4>3. CASE k # i /\ k # i + 1
        <5>1. t[k] = s[K] BY <2>3, <4>3
        <5> QED BY <4>1, <5>1
      <4> QED BY <4>2, <4>3
    <3>4. \A u, v, w, x \in Nat : u <= v /\ v <= w /\ x >= w => u <= x OBVIOUS
    <3> QED BY ONLY <3>1, <3>2, <3>3, <3>4
  <2> QED BY <2>1, <2>8, <2>9
<1>8. Tiled(t) BY <1>2, <1>4, <1>5, <1>6, <1>7 DEF Tiled
<1> QED BY <1>8 DEF t

LEMMA TlsfInitInv == TlsfInit => TlsfInv
<1> SUFFICES ASSUME TlsfInit PROVE TlsfInv
  OBVIOUS
<1>1. [at |-> 0, size |-> TlsfSize - BlockHeader] \in Cells BY TlsfAssumption DEF Cells
<1>2. blocks \in Seq(Cells) /\ Len(blocks) = 1 /\ blocks[1] = [at |-> 0, size |-> TlsfSize - BlockHeader]
  BY <1>1 DEF TlsfInit
<1>3. blocks[1].at = 0 /\ Behind(blocks[1]) = TlsfSize BY <1>2, TlsfAssumption DEF Behind
<1>4. Tiled(blocks) BY <1>2, <1>3 DEF Tiled
<1> QED BY <1>2, <1>4 DEF TlsfInit, TlsfInv

LEMMA TlsfAllocInv == ASSUME TlsfInv, NEW n \in TlsfRequests, TlsfAlloc(n) PROVE TlsfInv'
<1> DEFINE i == Min(Fitting(n))
           b == Split(blocks[i], n)[1]
           c == Split(blocks[i], n)[2]
           t == CutAt(blocks, i, b, c)
<1>1. i \in 1 .. Len(blocks) /\ blocks[i].size >= n + BlockHeader
  BY LeastFits DEF TlsfAlloc
<1>2. n \in Nat /\ BlockHeader \in Nat \ {0} BY TlsfAssumption
<1>3. blocks \in Seq(Cells) /\ Tiled(blocks) BY DEF TlsfInv
<1>a. blocks[i] \in Cells BY <1>1, <1>3
<1>b. Pieces(blocks[i], n, b, c) BY <1>1, <1>2, <1>a, SplitIs
<1>c. blocks' = ReplaceAt(InsertAt(blocks, i + 1, c), i, b) /\ lent' = lent \cup {b} /\ asked' = asked \cup {n}
  BY DEF TlsfAlloc
<1> HIDE DEF t, b, c, i
<1>4. Tiled(CutAt(blocks, i, b, c)) /\ b \in Cells /\ b.size = n /\ c \in Cells
  BY <1>1, <1>2, <1>3, <1>b, CutTiled DEF Pieces
<1>5. blocks' = t /\ lent' = lent \cup {b} /\ asked' = asked \cup {n}
  BY <1>1, <1>3, <1>4, <1>c, InsertedIs DEF t
<1>6. t \in Seq(Cells) /\ Len(t) = Len(blocks) + 1
  BY <1>1, <1>3, <1>4, InsertedIs DEF t
<1>7. \A j \in 1 .. Len(blocks) + 1 : t[j] = IF j < i THEN blocks[j] ELSE IF j = i THEN b
                                            ELSE IF j = i + 1 THEN c ELSE blocks[j - 1]
  BY DEF CutAt, t
<1>0. Len(blocks) \in Nat BY <1>3
<1>8. ASSUME Alike(asked')
      PROVE  /\ \A j \in 1 .. Len(t) - 1 : t[j].size \in asked'
             /\ \A d \in lent' : \E j \in 1 .. Len(t) - 1 : d = t[j]
  <2>1. Alike(asked) BY <1>5, <1>8 DEF Alike
  <2>2. \A j \in 1 .. Len(blocks) - 1 : blocks[j].size \in asked BY <2>1 DEF TlsfInv
  <2>3. i = Len(blocks)
    <3> SUFFICES ASSUME i # Len(blocks) PROVE FALSE
      OBVIOUS
    <3>1. blocks[i].size \in asked' /\ n \in asked' BY <1>0, <1>1, <1>5, <2>2
    <3>2. blocks[i].size < n + BlockHeader BY <1>8, <3>1 DEF Alike
    <3>3. blocks[i].size \in Nat BY <1>a DEF Cells
    <3> QED BY <1>1, <1>2, <3>2, <3>3
  <2>4. ASSUME NEW j \in 1 .. Len(t) - 1 PROVE t[j].size \in asked'
    <3>1. CASE j = i BY <1>0, <1>4, <1>5, <1>6, <1>7, <2>3, <3>1
    <3>2. CASE j # i
      <4>1. j \in 1 .. Len(blocks) - 1 /\ t[j] = blocks[j] BY <1>0, <1>6, <1>7, <2>3, <3>2
      <4> QED BY <1>5, <2>2, <4>1
    <3> QED BY <3>1, <3>2
  <2>5. ASSUME NEW d \in lent' PROVE \E j \in 1 .. Len(t) - 1 : d = t[j]
    <3>1. CASE d = b
      <4>1. i \in 1 .. Len(t) - 1 /\ t[i] = b BY <1>0, <1>1, <1>6, <1>7, <2>3
      <4> QED BY <3>1, <4>1
    <3>2. CASE d # b
      <4>1. PICK j \in 1 .. Len(blocks) - 1 : d = blocks[j] BY <1>5, <2>1, <3>2 DEF TlsfInv
      <4>2. j \in 1 .. Len(t) - 1 /\ t[j] = blocks[j] BY <1>0, <1>6, <1>7, <2>3, <4>1
      <4> QED BY <4>1, <4>2
    <3> QED BY <3>1, <3>2
  <2> QED BY <2>4, <2>5
<1>9. asked' \subseteq TlsfRequests BY <1>5 DEF TlsfInv
<1> QED BY <1>4, <1>5, <1>6, <1>8, <1>9 DEF TlsfInv, t

LEMMA TlsfStepInv == TlsfInv /\ [TlsfNext]_tlsfVars => TlsfInv'
<1> SUFFICES ASSUME TlsfInv, [TlsfNext]_tlsfVars PROVE TlsfInv'
  OBVIOUS
<1>1. ASSUME NEW n \in TlsfRequests, TlsfRefuse(n) PROVE TlsfInv'
  <2>1. Alike(asked') => Alike(asked) BY <1>1 DEF TlsfRefuse, Alike
  <2> QED BY <1>1, <2>1 DEF TlsfRefuse, TlsfInv
<1>2. ASSUME NEW b \in lent, TlsfFree(b) PROVE TlsfInv'
  BY <1>2 DEF TlsfFree, TlsfInv
<1>3. CASE UNCHANGED tlsfVars BY <1>3 DEF tlsfVars, TlsfInv
<1> QED BY <1>1, <1>2, <1>3, TlsfAllocInv DEF TlsfNext

LEMMA TlsfInvApart == TlsfInv => TlsfApart
<1> SUFFICES ASSUME TlsfInv PROVE TlsfApart
  OBVIOUS
<1>1. /\ blocks[1].at = 0 /\ Behind(Last(blocks)) = TlsfSize
      /\ \A i \in 2 .. Len(blocks) : blocks[i].at = Behind(blocks[i - 1])
  BY DEF TlsfInv, Tiled, Last
<1>2. ASSUME Alike(asked), NEW b \in lent, NEW c \in lent, b # c
      PROVE  Behind(b) <= c.at \/ Behind(c) <= b.at
  <2>1. PICK i \in 1 .. Len(blocks) - 1 : b = blocks[i] BY <1>2 DEF TlsfInv
  <2>2. PICK j \in 1 .. Len(blocks) - 1 : c = blocks[j] BY <1>2 DEF TlsfInv
  <2>3. Len(blocks) \in Nat BY DEF TlsfInv
  <2>4. i \in 1 .. Len(blocks) /\ j \in 1 .. Len(blocks) /\ (i < j \/ j < i)
    BY <1>2, <2>1, <2>2, <2>3
  <2> QED BY <2>1, <2>2, <2>4 DEF TlsfInv, Tiled
<1> QED BY <1>1, <1>2 DEF TlsfApart, Alike

\* For any size of the pool and any sizes asked for: the list tiles the pool, and
\* until two sizes differ by a header or more nobody is given memory that is held.
THEOREM TlsfStaysApart == TlsfSpec => []TlsfApart
<1>1. TlsfInit => TlsfInv BY TlsfInitInv
<1>2. TlsfInv /\ [TlsfNext]_tlsfVars => TlsfInv' BY TlsfStepInv
<1>3. TlsfInv => TlsfApart BY TlsfInvApart
<1> QED BY <1>1, <1>2, <1>3, PTL DEF TlsfSpec

-----------------------------------------------------------------------------
(***************************************************************************)
(* The books: a sum over a finite set, which is the same whichever member  *)
(* is taken first.                                                         *)
(***************************************************************************)
Cost(h, b) == Header + h[b].size

Costs(h, S) == IsFiniteSet(S) /\ \A b \in S : Cost(h, b) \in Nat

Sums(g, h, S) == /\ g \in [SUBSET S -> Nat] /\ g[{}] = 0
                 /\ \A T \in SUBSET S : \A b \in T : g[T] = Cost(h, b) + g[T \ {b}]

\* Induction over the finite sets, for the members of a set of sets.
LEMMA SetInduction ==
  ASSUME NEW S, IsFiniteSet(S), NEW Good, {} \in Good,
         \A T \in SUBSET S : (T # {} /\ \A b \in T : T \ {b} \in Good) => T \in Good
  PROVE  S \in Good
<1> DEFINE N == Cardinality(S)
           Counts == {n \in 0 .. N : \A T \in SUBSET S : Cardinality(T) = n => T \in Good}
<1>1. N \in Nat BY FS_CardinalityType
<1>2. \A T \in SUBSET S : IsFiniteSet(T) /\ Cardinality(T) \in Nat BY FS_Subset, FS_CardinalityType
<1> HIDE DEF N
<1>3. 0 \in Counts
  <2>1. \A T \in SUBSET S : Cardinality(T) = 0 => T = {} BY <1>2, FS_EmptySet
  <2> QED BY <1>1, <2>1
<1>4. ASSUME NEW n \in 0 .. N, n > 0, n - 1 \in Counts PROVE n \in Counts
  <2> SUFFICES ASSUME NEW T \in SUBSET S, Cardinality(T) = n PROVE T \in Good
    OBVIOUS
  <2>1. T # {} BY <1>4, FS_EmptySet
  <2>2. ASSUME NEW b \in T PROVE T \ {b} \in Good
    <3>1. Cardinality(T \ {b}) = n - 1 /\ T \ {b} \in SUBSET S BY <1>2, FS_RemoveElement
    <3> QED BY <1>4, <3>1
  <2> QED BY <2>1, <2>2
<1> HIDE DEF Counts
<1>5. 0 .. N \subseteq Counts BY <1>1, <1>3, <1>4, InductionTo
<1>6. N \in Counts BY <1>1, <1>5
<1> QED BY <1>6 DEF Counts, N

LEMMA SumExists == ASSUME NEW h, NEW S, Costs(h, S) PROVE \E g : Sums(g, h, S)
<1> DEFINE Good == {T \in SUBSET S : \E g : Sums(g, h, T)}
<1>1. {} \in Good
  <2> DEFINE g == [T \in SUBSET {} |-> 0]
  <2>1. Sums(g, h, {}) BY DEF Sums
  <2> QED BY <2>1
<1>2. ASSUME NEW T \in SUBSET S, T # {}, \A b \in T : T \ {b} \in Good PROVE T \in Good
  <2>1. PICK y \in T : TRUE BY <1>2
  <2>2. PICK g : Sums(g, h, T \ {y}) BY <1>2
  <2> DEFINE k == [U \in SUBSET T |-> IF y \in U THEN Cost(h, y) + g[U \ {y}] ELSE g[U]]
  <2>3. \A b \in T : Cost(h, b) \in Nat BY DEF Costs
  <2>4. /\ g \in [SUBSET (T \ {y}) -> Nat] /\ g[{}] = 0
        /\ \A U \in SUBSET (T \ {y}) : \A b \in U : g[U] = Cost(h, b) + g[U \ {b}]
    BY <2>2 DEF Sums
  <2>5. \A U \in SUBSET T : U \ {y} \in SUBSET (T \ {y}) /\ g[U \ {y}] \in Nat BY <2>4
  <2>6. \A U \in SUBSET T : y \notin U => U \in SUBSET (T \ {y}) /\ g[U] \in Nat BY <2>4
  <2>7. k \in [SUBSET T -> Nat] BY <2>1, <2>3, <2>5, <2>6
  <2>8. k[{}] = 0 BY <2>4
  <2>9. ASSUME NEW U \in SUBSET T, NEW b \in U PROVE k[U] = Cost(h, b) + k[U \ {b}]
    <3>0. U \ {b} \in SUBSET T OBVIOUS
    <3>1. CASE y \notin U
      <4>1. U \in SUBSET (T \ {y}) /\ y \notin U \ {b} BY <3>1
      <4>2. k[U] = g[U] /\ k[U \ {b}] = g[U \ {b}] BY <3>0, <3>1, <4>1
      <4> QED BY <2>4, <4>1, <4>2
    <3>2. CASE y = b
      <4>1. k[U] = Cost(h, y) + g[U \ {y}] /\ y \notin U \ {b} BY <3>2
      <4>2. k[U \ {b}] = g[U \ {b}] BY <3>0, <4>1
      <4> QED BY <3>2, <4>1, <4>2
    <3>3. CASE y \in U /\ y # b
      <4> DEFINE V == U \ {y}
      <4>1. V \in SUBSET (T \ {y}) /\ b \in V /\ (U \ {b}) \ {y} = V \ {b} BY <3>3
      <4>2. k[U] = Cost(h, y) + g[V] BY <3>3
      <4>3. k[U \ {b}] = Cost(h, y) + g[V \ {b}] BY <3>0, <3>3, <4>1
      <4> HIDE DEF V, k
      <4>4. g[V] = Cost(h, b) + g[V \ {b}] BY <2>4, <4>1
      <4>5. Cost(h, b) \in Nat /\ Cost(h, y) \in Nat /\ g[V \ {b}] \in Nat BY <2>1, <2>3, <2>4, <4>1
      <4> QED BY <4>2, <4>3, <4>4, <4>5
    <3> QED BY <3>1, <3>2, <3>3
  <2> HIDE DEF k
  <2>10. Sums(k, h, T) BY <2>7, <2>8, <2>9 DEF Sums
  <2> QED BY <2>10
<1>3. IsFiniteSet(S) BY DEF Costs
<1> HIDE DEF Good
<1>4. S \in Good BY <1>1, <1>2, <1>3, SetInduction
<1> QED BY <1>4 DEF Good

\* What Booked computes is that sum.
LEMMA BookedIs ==
  ASSUME NEW h, NEW S, IsFiniteSet(S), NEW g, Sums(g, h, S), NEW T \in SUBSET S
  PROVE  Booked(h, T) = g[T]
<1> DEFINE F(p, s) == IF s = {} THEN 0
                      ELSE LET x == CHOOSE x \in s : TRUE IN Header + h[x].size + p[s \ {x}]
           iter == CHOOSE iter : iter = [s \in SUBSET T |-> F(iter, s)]
           k == [s \in SUBSET T |-> g[s]]
<1>1. /\ g \in [SUBSET S -> Nat] /\ g[{}] = 0
      /\ \A U \in SUBSET S : \A b \in U : g[U] = Header + h[b].size + g[U \ {b}]
  BY DEF Sums, Cost
<1>2. ASSUME NEW s \in SUBSET T PROVE k[s] = F(k, s)
  <2>1. CASE s = {} BY <1>1, <2>1
  <2>2. CASE s # {}
    <3> DEFINE x == CHOOSE x \in s : TRUE
    <3>1. x \in s BY <2>2
    <3> HIDE DEF x
    <3>2. g[s] = Header + h[x].size + g[s \ {x}] /\ s \ {x} \in SUBSET T BY <1>1, <3>1
    <3> QED BY <2>2, <3>2 DEF x
  <2> QED BY <2>1, <2>2
<1>3. k = [s \in SUBSET T |-> F(k, s)] BY <1>2
<1>4. iter = [s \in SUBSET T |-> F(iter, s)] BY <1>3
<1>5. Booked(h, T) = iter[T] BY DEF Booked, MapThenSumSet, MapThenFoldSet
<1> HIDE DEF iter, k
<1> DEFINE Good == {s \in SUBSET T : iter[s] = g[s]}
<1>6. {} \in Good BY <1>1, <1>4
<1>7. ASSUME NEW s \in SUBSET T, s # {}, \A b \in s : s \ {b} \in Good PROVE s \in Good
  <2> DEFINE x == CHOOSE x \in s : TRUE
  <2>1. x \in s BY <1>7
  <2>2. iter[s] = Header + h[x].size + iter[s \ {x}] BY <1>4, <1>7
  <2> HIDE DEF x
  <2>3. iter[s \ {x}] = g[s \ {x}] BY <1>7, <2>1
  <2>4. g[s] = Header + h[x].size + g[s \ {x}] BY <1>1, <2>1
  <2> QED BY <2>2, <2>3, <2>4
<1>8. IsFiniteSet(T) BY FS_Subset
<1> HIDE DEF Good
<1>9. T \in Good BY <1>6, <1>7, <1>8, SetInduction
<1> QED BY <1>5, <1>9 DEF Good

LEMMA BookedEmpty == ASSUME NEW h PROVE Booked(h, {}) = 0
<1>1. Costs(h, {}) /\ {} \in SUBSET {} BY FS_EmptySet DEF Costs
<1>2. PICK g : Sums(g, h, {}) BY <1>1, SumExists
<1>3. g[{}] = 0 BY <1>2 DEF Sums
<1>4. IsFiniteSet({}) BY FS_EmptySet
<1> QED BY <1>1, <1>2, <1>3, <1>4, BookedIs

LEMMA BookedTaken ==
  ASSUME NEW h, NEW S, Costs(h, S)
  PROVE  /\ Booked(h, S) \in Nat
         /\ \A b \in S : Booked(h, S) = Cost(h, b) + Booked(h, S \ {b}) /\ Booked(h, S \ {b}) \in Nat
<1>1. PICK g : Sums(g, h, S) BY SumExists
<1>2. \A T \in SUBSET S : Booked(h, T) = g[T] BY <1>1, BookedIs DEF Costs
<1>3. \A b \in S : S \ {b} \in SUBSET S OBVIOUS
<1> QED BY <1>1, <1>2, <1>3 DEF Sums

LEMMA BookedSame ==
  ASSUME NEW h, NEW k, NEW S, Costs(h, S), \A b \in S : k[b].size = h[b].size
  PROVE  Booked(k, S) = Booked(h, S)
<1>1. PICK g : Sums(g, h, S) BY SumExists
<1>2. \A b \in S : Cost(k, b) = Cost(h, b) BY DEF Cost
<1>3. Sums(g, k, S) BY <1>1, <1>2 DEF Sums
<1> QED BY <1>1, <1>3, BookedIs DEF Costs

\* A block is added to those that are booked.
LEMMA BookedAdded ==
  ASSUME NEW h, NEW S, Costs(h, S), NEW b, b \notin S, Cost(h, b) \in Nat
  PROVE  /\ Costs(h, S \cup {b}) /\ Booked(h, S) \in Nat
         /\ Booked(h, S \cup {b}) = Booked(h, S) + Cost(h, b)
<1>1. Costs(h, S \cup {b}) BY FS_AddElement DEF Costs
<1>2. (S \cup {b}) \ {b} = S OBVIOUS
<1>3. Booked(h, S \cup {b}) = Cost(h, b) + Booked(h, S) BY <1>1, <1>2, BookedTaken
<1>4. Booked(h, S) \in Nat BY BookedTaken
<1> QED BY <1>1, <1>3, <1>4

-----------------------------------------------------------------------------
(***************************************************************************)
(* The list: every block on it leads to the next free block by address,    *)
(* and is what the block before it leads to.                               *)
(***************************************************************************)
HeapBlocks == [size : Nat, next : Int, prev : Int, is_free : BOOLEAN]

HeapTyped(h, S) == /\ IsFiniteSet(DOMAIN h) /\ h \in [DOMAIN h -> HeapBlocks]
                   /\ S \subseteq DOMAIN h /\ S \subseteq Nat /\ Null \in DOMAIN h

NextIn(S, b, c) == /\ c \in S \cup {Null}
                   /\ c # Null => b < c
                   /\ \A d \in S : b < d => c # Null /\ c <= d

Linked(h, F) == /\ \A b \in F \cup {Null} : NextIn(F, b, h[b].next)
                /\ \A b \in F : h[b].prev \in F \cup {Null} /\ h[h[b].prev].next = b

\* The walk takes the links, on the free blocks, for as long as there are any.
LEMMA WalkSteps ==
  ASSUME NEW h, NEW F, HeapTyped(h, F), Linked(h, F)
  PROVE  /\ Longest(h) \in Nat /\ Cardinality(F) < Longest(h)
         /\ Walk(h) \in [0 .. Longest(h) -> F \cup {Null}]
         /\ Walk(h)[0] = h[Null].next
         /\ \A i \in 1 .. Longest(h) :
              Walk(h)[i] = IF Walk(h)[i - 1] = Null THEN Null ELSE h[Walk(h)[i - 1]].next
<1> DEFINE L == Longest(h)
           T == F \cup {Null}
           Step == [b \in T |-> IF b = Null THEN Null ELSE h[b].next]
           E(p, i) == IF i = 0 THEN h[Null].next
                      ELSE IF p[i - 1] = Null THEN Null ELSE h[p[i - 1]].next
           at == Walk(h)
<1>1. L \in Nat /\ Cardinality(F) < L
  <2>1. IsFiniteSet(DOMAIN h) /\ F \cup {Null} \subseteq DOMAIN h /\ Null \notin F
    BY DEF HeapTyped, Null
  <2>2. IsFiniteSet(F) /\ IsFiniteSet(F \cup {Null}) BY <2>1, FS_Subset
  <2>3. Cardinality(F \cup {Null}) = Cardinality(F) + 1 BY <2>1, <2>2, FS_AddElement
  <2>4. Cardinality(F \cup {Null}) <= Cardinality(DOMAIN h) BY <2>1, FS_Subset
  <2> QED BY <2>1, <2>2, <2>3, <2>4, FS_CardinalityType DEF Longest
<1> HIDE DEF L
<1>2. h[Null].next \in T /\ \A b \in T : h[b].next \in T BY DEF Linked, NextIn
<1>3. PICK f : RunOf(f, L, T, h[Null].next, Step)
  <2>1. Step \in [T -> T] BY <1>2
  <2> HIDE DEF T, Step
  <2> QED BY <1>1, <1>2, <2>1, Iterated
<1>4. /\ f \in [0 .. L -> T] /\ f[0] = h[Null].next
      /\ \A i \in 1 .. L : f[i] = IF f[i - 1] = Null THEN Null ELSE h[f[i - 1]].next
  <2>1. f \in [0 .. L -> T] /\ f[0] = h[Null].next /\ \A i \in 1 .. L : f[i] = Step[f[i - 1]]
    BY <1>3 DEF RunOf
  <2>2. ASSUME NEW i \in 1 .. L PROVE f[i - 1] \in T BY <1>1, <2>1
  <2> QED BY <2>1, <2>2
<1> HIDE DEF Step
<1>5. ASSUME NEW i \in 0 .. L PROVE f[i] = E(f, i)
  <2>1. CASE i = 0 BY <1>4, <2>1
  <2>2. CASE i # 0
    <3>1. i \in 1 .. L /\ i - 1 \in 0 .. L BY <1>1, <2>2
    <3> QED BY <1>4, <2>2, <3>1
  <2> QED BY <2>1, <2>2
<1>6. f = [i \in 0 .. L |-> E(f, i)] BY <1>4, <1>5
<1>7. at = [i \in 0 .. L |-> E(at, i)] BY <1>6 DEF Walk, L
<1> HIDE DEF at
<1>8. at[0] = h[Null].next BY <1>1, <1>7
<1>9. ASSUME NEW i \in 1 .. L PROVE at[i] = IF at[i - 1] = Null THEN Null ELSE h[at[i - 1]].next
  <2>1. i \in 0 .. L /\ i # 0 BY <1>1
  <2> QED BY <1>7, <2>1
<1> DEFINE Good == {i \in 0 .. L : at[i] \in T}
<1>10. 0 \in Good BY <1>1, <1>2, <1>8
<1>11. ASSUME NEW i \in 0 .. L, i > 0, i - 1 \in Good PROVE i \in Good BY <1>2, <1>9, <1>11
<1> HIDE DEF Good, T
<1>12. 0 .. L \subseteq Good BY <1>1, <1>10, <1>11, InductionTo
<1>13. at \in [0 .. L -> T] BY <1>7, <1>12 DEF Good
<1> QED BY <1>1, <1>8, <1>9, <1>13 DEF L, T, at

\* Free blocks of a lower address.
Lower(F, b) == {d \in F : d < b}

LEMMA LowerGrows ==
  ASSUME NEW F, IsFiniteSet(F), F \subseteq Nat, NEW b \in F
  PROVE  /\ Cardinality(Lower(F, b)) \in Nat /\ Cardinality(Lower(F, b)) < Cardinality(F)
         /\ \A c \in F : b < c => Cardinality(Lower(F, b)) < Cardinality(Lower(F, c))
         /\ Cardinality(Lower(F, b) \cup {b}) = Cardinality(Lower(F, b)) + 1
<1>1. Lower(F, b) \cup {b} \subseteq F /\ b \notin Lower(F, b) BY DEF Lower
<1>2. IsFiniteSet(Lower(F, b)) /\ Cardinality(Lower(F, b)) \in Nat /\ Cardinality(F) \in Nat
  BY <1>1, FS_Subset, FS_CardinalityType
<1>3. Cardinality(Lower(F, b) \cup {b}) = Cardinality(Lower(F, b)) + 1 BY <1>1, <1>2, FS_AddElement
<1>4. Cardinality(Lower(F, b)) < Cardinality(F)
  <2>1. Cardinality(Lower(F, b) \cup {b}) <= Cardinality(F) BY <1>1, FS_Subset
  <2> QED BY <1>2, <1>3, <2>1
<1>5. ASSUME NEW c \in F, b < c PROVE Cardinality(Lower(F, b)) < Cardinality(Lower(F, c))
  <2>1. Lower(F, b) \cup {b} \subseteq Lower(F, c) /\ Lower(F, c) \subseteq F
    <3>1. \A d \in F : d < b => d < c BY <1>5
    <3> QED BY <1>5, <3>1 DEF Lower
  <2>2. IsFiniteSet(Lower(F, c)) /\ Cardinality(Lower(F, c)) \in Nat
    BY <2>1, FS_Subset, FS_CardinalityType
  <2>3. Cardinality(Lower(F, b) \cup {b}) <= Cardinality(Lower(F, c)) BY <2>1, <2>2, FS_Subset
  <2> QED BY <1>2, <1>3, <2>2, <2>3
<1> QED BY <1>2, <1>3, <1>4, <1>5

\* The block after i steps has i free blocks below it: the walk meets all.
LEMMA WalkMeetsAll ==
  ASSUME NEW h, NEW F, HeapTyped(h, F), Linked(h, F)
  PROVE  /\ Walk(h)[Longest(h)] = Null
         /\ Range(Walk(h)) \ {Null} = F
<1> DEFINE L == Longest(h)
           at == Walk(h)
           Card == Cardinality(F)
<1>1. /\ L \in Nat /\ Card < L /\ at \in [0 .. L -> F \cup {Null}] /\ at[0] = h[Null].next
      /\ \A i \in 1 .. L : at[i] = IF at[i - 1] = Null THEN Null ELSE h[at[i - 1]].next
  BY WalkSteps
<1>2. /\ IsFiniteSet(F) /\ F \subseteq Nat /\ Null \notin F /\ Card \in Nat
      /\ \A b \in F : Null < b
  BY FS_Subset, FS_CardinalityType DEF HeapTyped, Null
<1> HIDE DEF L, at, Card
<1> DEFINE Rank(b) == Cardinality(Lower(F, b))
           Good == {i \in 0 .. L : IF i < Card THEN at[i] \in F /\ Rank(at[i]) = i ELSE at[i] = Null}
<1>3. 0 \in Good
  <2>1. NextIn(F, Null, at[0]) BY <1>1 DEF Linked
  <2>2. CASE at[0] = Null
    <3>1. F = {} BY <1>2, <2>1, <2>2 DEF NextIn
    <3>2. Card = 0 BY <3>1, FS_EmptySet DEF Card
    <3> QED BY <1>1, <2>2, <3>2
  <2>3. CASE at[0] # Null
    <3>1. at[0] \in F /\ \A d \in F : at[0] <= d BY <1>2, <2>1, <2>3 DEF NextIn
    <3>2. Lower(F, at[0]) = {}
      <4> DEFINE first == at[0]
      <4>0. first \in Nat /\ \A d \in F : d \in Nat /\ first <= d BY <1>2, <3>1
      <4> HIDE DEF first
      <4>1. \A d \in F : ~(d < first) BY <4>0
      <4> QED BY <4>1 DEF Lower, first
    <3>3. Rank(at[0]) = 0 BY <3>2, FS_EmptySet
    <3>4. 0 < Card BY <1>2, <3>1, <3>3, LowerGrows DEF Card
    <3> QED BY <1>1, <3>1, <3>3, <3>4
  <2> QED BY <2>2, <2>3
<1>4. ASSUME NEW i \in 0 .. L, i > 0, i - 1 \in Good PROVE i \in Good
  <2>0. i \in 1 .. L /\ i - 1 \in 0 .. L BY <1>1, <1>4
  <2>1. CASE at[i - 1] = Null
    <3>1. ~(i - 1 < Card) BY <1>2, <1>4, <2>1
    <3>2. at[i] = Null BY <1>1, <2>0, <2>1
    <3>3. ~(i < Card) BY <1>2, <2>0, <3>1
    <3> QED BY <3>2, <3>3
  <2>2. CASE at[i - 1] # Null
    <3> DEFINE b == at[i - 1]
    <3>1. b \in F /\ Rank(b) = i - 1 /\ at[i] = h[b].next BY <1>1, <1>4, <2>0, <2>2
    <3>2. NextIn(F, b, at[i]) BY <3>1 DEF Linked
    <3> HIDE DEF b
    <3>3. Cardinality(Lower(F, b) \cup {b}) = i
      <4>1. Cardinality(Lower(F, b) \cup {b}) = Rank(b) + 1 BY <1>2, <3>1, LowerGrows
      <4> HIDE DEF Rank
      <4>2. (i - 1) + 1 = i BY <1>1, <2>0
      <4> QED BY <3>1, <4>1, <4>2
    <3>4. CASE at[i] = Null
      <4>1. \A d \in F : ~(b < d) BY <3>2, <3>4 DEF NextIn
      <4>2. \A d \in F : d < b \/ d = b BY <1>2, <3>1, <4>1
      <4>3. Lower(F, b) \cup {b} = F BY <3>1, <4>2 DEF Lower
      <4>4. Card = i BY <3>3, <4>3 DEF Card
      <4> QED BY <1>2, <3>4, <4>4
    <3>5. CASE at[i] # Null
      <4>1. at[i] \in F /\ b < at[i] /\ \A d \in F : b < d => at[i] <= d BY <3>2, <3>5 DEF NextIn
      <4>2. \A d \in F : d < at[i] <=> d < b \/ d = b
        <5> SUFFICES ASSUME NEW d \in F PROVE d < at[i] <=> d < b \/ d = b
          OBVIOUS
        <5>1. d \in Nat /\ b \in Nat /\ at[i] \in Nat BY <1>2, <3>1, <4>1
        <5>2. b < d => at[i] <= d BY <4>1
        <5>3. b < at[i] BY <4>1
        <5> QED BY <5>1, <5>2, <5>3
      <4>3. Lower(F, at[i]) = Lower(F, b) \cup {b} BY <3>1, <4>2 DEF Lower
      <4>4. Rank(at[i]) = i BY <3>3, <4>3
      <4>5. i < Card BY <1>2, <4>1, <4>4, LowerGrows DEF Card
      <4> QED BY <4>1, <4>4, <4>5
    <3> QED BY <3>4, <3>5
  <2> QED BY <2>1, <2>2
<1> HIDE DEF Good
<1>5. 0 .. L \subseteq Good BY <1>1, <1>3, <1>4, InductionTo
<1>6. at[L] = Null
  <2>1. L \in Good /\ ~(L < Card) BY <1>1, <1>2, <1>5
  <2> QED BY <2>1 DEF Good
<1>7. ASSUME NEW b \in F PROVE \E i \in 0 .. L : at[i] = b
  <2> DEFINE i == Rank(b)
  <2>1. i \in Nat /\ i < Card BY <1>2, LowerGrows DEF Card
  <2>2. i \in 0 .. L BY <1>1, <1>2, <2>1
  <2>3. at[i] \in F /\ Rank(at[i]) = Rank(b)
    <3> HIDE DEF i
    <3>1. at[i] \in F /\ Rank(at[i]) = i BY <1>5, <2>1, <2>2 DEF Good
    <3> QED BY <3>1 DEF i
  <2> HIDE DEF i
  <2>4. at[i] \in Nat /\ b \in Nat BY <1>2, <2>3
  <2>5. ~(at[i] < b) /\ ~(b < at[i])
    <3> DEFINE c == at[i]
    <3>1. c \in F /\ Rank(c) = Rank(b) BY <2>3
    <3> HIDE DEF c
    <3>2. /\ Rank(c) \in Nat /\ Rank(b) \in Nat
          /\ c < b => Rank(c) < Rank(b)
          /\ b < c => Rank(b) < Rank(c)
      BY <1>2, <3>1, LowerGrows
    <3>3. ~(c < b) /\ ~(b < c) BY <3>1, <3>2
    <3> QED BY <3>3 DEF c
  <2>6. at[i] = b BY <2>4, <2>5
  <2> QED BY <2>2, <2>6
<1>8. Range(at) = {at[i] : i \in 0 .. L} BY <1>1 DEF Range
<1>9. Range(at) \ {Null} = F
  <2>1. \A i \in 0 .. L : at[i] \in F \cup {Null} BY <1>1
  <2>2. F \subseteq Range(at) BY <1>7, <1>8
  <2>3. Range(at) \subseteq F \cup {Null} BY <1>8, <2>1
  <2> QED BY <1>2, <2>2, <2>3
<1> QED BY <1>6, <1>9 DEF at, L

-----------------------------------------------------------------------------
HeapOn(D) == [D -> HeapBlocks]

\* What a write to one field changes.
NextSet(k, h, D, b, v) ==
  /\ k \in HeapOn(D)
  /\ \A c \in D : /\ k[c].size = h[c].size /\ k[c].is_free = h[c].is_free /\ k[c].prev = h[c].prev
                  /\ k[c].next = IF c = b THEN v ELSE h[c].next

PrevSet(k, h, D, b, v) ==
  /\ k \in HeapOn(D)
  /\ \A c \in D : /\ k[c].size = h[c].size /\ k[c].is_free = h[c].is_free /\ k[c].next = h[c].next
                  /\ k[c].prev = IF c = b THEN v ELSE h[c].prev

SizeSet(k, h, D, b, v) ==
  /\ k \in HeapOn(D)
  /\ \A c \in D : /\ k[c].next = h[c].next /\ k[c].is_free = h[c].is_free /\ k[c].prev = h[c].prev
                  /\ k[c].size = IF c = b THEN v ELSE h[c].size

LEMMA SetIs ==
  ASSUME NEW D, NEW h \in HeapOn(D), NEW b \in D
  PROVE  /\ \A v \in Int : NextSet(Set(h, b, "next", v), h, D, b, v)
         /\ \A v \in Int : PrevSet(Set(h, b, "prev", v), h, D, b, v)
         /\ \A v \in Nat : SizeSet(Set(h, b, "size", v), h, D, b, v)
<1>1. h[b] \in HeapBlocks /\ h \in [D -> HeapBlocks] BY DEF HeapOn
<1>2. ASSUME NEW v \in Int PROVE NextSet(Set(h, b, "next", v), h, D, b, v)
  <2> DEFINE n == [h[b] EXCEPT !["next"] = v]
  <2>1. n \in HeapBlocks /\ n.size = h[b].size /\ n.is_free = h[b].is_free /\ n.prev = h[b].prev /\ n.next = v
    BY <1>1 DEF HeapBlocks
  <2>2. Set(h, b, "next", v) = [h EXCEPT ![b] = n] BY DEF Set
  <2> HIDE DEF n, HeapBlocks
  <2> QED BY <1>1, <2>1, <2>2 DEF NextSet, HeapOn
<1>3. ASSUME NEW v \in Int PROVE PrevSet(Set(h, b, "prev", v), h, D, b, v)
  <2> DEFINE n == [h[b] EXCEPT !["prev"] = v]
  <2>1. n \in HeapBlocks /\ n.size = h[b].size /\ n.is_free = h[b].is_free /\ n.next = h[b].next /\ n.prev = v
    BY <1>1 DEF HeapBlocks
  <2>2. Set(h, b, "prev", v) = [h EXCEPT ![b] = n] BY DEF Set
  <2> HIDE DEF n, HeapBlocks
  <2> QED BY <1>1, <2>1, <2>2 DEF PrevSet, HeapOn
<1>4. ASSUME NEW v \in Nat PROVE SizeSet(Set(h, b, "size", v), h, D, b, v)
  <2> DEFINE n == [h[b] EXCEPT !["size"] = v]
  <2>1. n \in HeapBlocks /\ n.next = h[b].next /\ n.is_free = h[b].is_free /\ n.prev = h[b].prev /\ n.size = v
    BY <1>1 DEF HeapBlocks
  <2>2. Set(h, b, "size", v) = [h EXCEPT ![b] = n] BY DEF Set
  <2> HIDE DEF n, HeapBlocks
  <2> QED BY <1>1, <2>1, <2>2 DEF SizeSet, HeapOn
<1> QED BY <1>2, <1>3, <1>4

LEMMA FieldTypes ==
  ASSUME NEW D, NEW h \in HeapOn(D), NEW b \in D
  PROVE  /\ h[b] \in HeapBlocks /\ h[b].size \in Nat /\ h[b].next \in Int /\ h[b].prev \in Int
         /\ h[b].is_free \in BOOLEAN
<1>1. h[b] \in HeapBlocks BY DEF HeapOn
<1> QED BY <1>1 DEF HeapBlocks

\* A header that is written anew, and one that is put on the list.
LEMMA NewBlock ==
  ASSUME NEW n \in Nat
  PROVE  /\ [Block(n) EXCEPT !.is_free = FALSE] \in HeapBlocks
         /\ [Block(n) EXCEPT !.is_free = FALSE].size = n
         /\ [Block(n) EXCEPT !.is_free = FALSE].is_free = FALSE
         /\ Block(n) \in HeapBlocks /\ Block(n).size = n /\ Block(n).is_free = TRUE
<1>1. Null \in Int BY DEF Null
<1> QED BY <1>1 DEF Block, HeapBlocks

Listed(n, p, q) == [Block(n) EXCEPT !.prev = p, !.next = q]

Written(x, n, p, q) ==
  x \in HeapBlocks /\ x.size = n /\ x.is_free = TRUE /\ x.prev = p /\ x.next = q

LEMMA ListedIs ==
  ASSUME NEW s \in Nat, NEW x \in Int, NEW y \in Int
  PROVE  Written(Listed(s, x, y), s, x, y)
  BY DEF Block, HeapBlocks, Listed, Written

\* Taking a block off the list makes its neighbours each other's.
LEMMA RemovedIs ==
  ASSUME NEW D, NEW h \in HeapOn(D), NEW b \in D,
         h[b].prev \in D, h[b].prev # b, h[b].next \in D, h[b].next # b,
         NEW k, k = remove_from_free_list(h, b)
  PROVE  /\ k \in HeapOn(D)
         /\ \A c \in D : k[c].size = h[c].size /\ k[c].is_free = (c # b /\ h[c].is_free)
         /\ \A c \in D \ {b} : /\ k[c].next = IF c = h[b].prev THEN h[b].next ELSE h[c].next
                               /\ k[c].prev = IF c = h[b].next THEN h[b].prev ELSE h[c].prev
<1> DEFINE p == h[b].prev
           n == h[b].next
           back == Set(h, p, "next", n)
           fore == Set(back, n, "prev", p)
           mine == [Block(fore[b].size) EXCEPT !.is_free = FALSE]
<1>1. p \in D /\ p # b /\ n \in D /\ n # b /\ p \in Int /\ n \in Int BY FieldTypes
<1>2. NextSet(back, h, D, p, n)
  <2> HIDE DEF p, n
  <2> QED BY <1>1, SetIs
<1>3. back[b].next = n /\ back[b].prev = p /\ back \in HeapOn(D) BY <1>1, <1>2 DEF NextSet
<1>4. PrevSet(fore, back, D, n, p)
  <2> HIDE DEF p, n, back
  <2> QED BY <1>1, <1>3, SetIs
<1>5. k = [fore EXCEPT ![b] = mine] BY <1>3 DEF remove_from_free_list
<1> HIDE DEF fore, back
<1>6. fore \in HeapOn(D) /\ fore[b].size = h[b].size /\ h[b].size \in Nat
  BY <1>2, <1>4, FieldTypes DEF NextSet, PrevSet
<1>7. mine \in HeapBlocks /\ mine.size = h[b].size /\ mine.is_free = FALSE BY <1>6, NewBlock
<1> HIDE DEF mine
<1>8. k \in HeapOn(D) /\ \A c \in D : k[c] = IF c = b THEN mine ELSE fore[c]
  BY <1>5, <1>6, <1>7 DEF HeapOn
<1>9. ASSUME NEW c \in D, c # b
      PROVE  /\ k[c].size = h[c].size /\ k[c].is_free = h[c].is_free
             /\ k[c].next = IF c = p THEN n ELSE h[c].next
             /\ k[c].prev = IF c = n THEN p ELSE h[c].prev
  <2>1. k[c] = fore[c] BY <1>8, <1>9
  <2> HIDE DEF p, n
  <2> QED BY <1>2, <1>4, <2>1 DEF NextSet, PrevSet
<1>10. k[b].size = h[b].size /\ k[b].is_free = FALSE BY <1>7, <1>8
<1>11. ASSUME NEW c \in D PROVE k[c].size = h[c].size /\ k[c].is_free = (c # b /\ h[c].is_free)
  <2>1. CASE c = b BY <1>10, <2>1
  <2>2. CASE c # b
    <3>1. h[c].is_free \in BOOLEAN BY FieldTypes
    <3> QED BY <1>9, <2>2, <3>1
  <2> QED BY <2>1, <2>2
<1>12. \A c \in D \ {b} : /\ k[c].next = IF c = p THEN n ELSE h[c].next
                          /\ k[c].prev = IF c = n THEN p ELSE h[c].prev
  BY <1>9
<1> QED BY <1>8, <1>11, <1>12

RemovedOf(k, h, F, b) ==
  /\ k \in HeapOn(DOMAIN h) /\ Linked(k, F \ {b})
  /\ \A c \in DOMAIN h : k[c].size = h[c].size /\ k[c].is_free = (c # b /\ h[c].is_free)

LEMMA LinkedRemoved ==
  ASSUME NEW h, NEW F, HeapTyped(h, F), Linked(h, F), NEW b \in F,
         NEW k, k = remove_from_free_list(h, b)
  PROVE  RemovedOf(k, h, F, b)
<1> DEFINE D == DOMAIN h
           p == h[b].prev
           n == h[b].next
           E == F \ {b}
<1>1. /\ h \in HeapOn(D) /\ F \subseteq D /\ F \subseteq Nat /\ Null \in D /\ Null \notin F
      /\ \A c \in F : Null < c
  BY DEF HeapTyped, HeapOn, Null
<1>2. /\ p \in F \cup {Null} /\ h[p].next = b /\ NextIn(F, b, n) /\ NextIn(F, p, b)
      /\ n \in F \cup {Null}
  BY DEF Linked, NextIn
<1>3. p # b /\ n # b /\ p < b
  BY <1>1, <1>2 DEF NextIn
<1>4. b \in D /\ p \in D /\ n \in D BY <1>1, <1>2
<1>5. /\ k \in HeapOn(D)
      /\ \A c \in D : k[c].size = h[c].size /\ k[c].is_free = (c # b /\ h[c].is_free)
      /\ \A c \in D \ {b} : /\ k[c].next = IF c = p THEN n ELSE h[c].next
                            /\ k[c].prev = IF c = n THEN p ELSE h[c].prev
  <2> HIDE DEF D
  <2> QED BY <1>1, <1>3, <1>4, RemovedIs
<1> HIDE DEF p, n, D
<1>6. ASSUME NEW c \in E \cup {Null} PROVE NextIn(E, c, k[c].next)
  <2>1. c \in D \ {b} /\ c \in F \cup {Null} BY <1>1
  <2>2. CASE c = p
    <3>1. k[c].next = n BY <1>5, <2>1, <2>2
    <3>2. n \in E \cup {Null} BY <1>2, <1>3
    <3>3. n # Null => p < n
      <4>1. ASSUME n # Null PROVE p < n
        <5>1. n \in Nat /\ b < n BY <1>1, <1>2, <4>1 DEF NextIn
        <5>2. p \in Int /\ b \in Nat BY <1>1, <1>2 DEF Null
        <5> QED BY <1>3, <5>1, <5>2
      <4> QED BY <4>1
    <3>4. ASSUME NEW d \in E, p < d PROVE n # Null /\ n <= d
      <4>1. b <= d BY <1>2, <3>4 DEF NextIn
      <4>2. b < d BY <1>1, <4>1
      <4> QED BY <1>2, <4>2 DEF NextIn
    <3> QED BY <2>2, <3>1, <3>2, <3>3, <3>4 DEF NextIn
  <2>3. CASE c # p
    <3>1. k[c].next = h[c].next /\ NextIn(F, c, h[c].next) BY <1>5, <2>1, <2>3 DEF Linked
    <3>2. h[c].next # b
      <4>1. ASSUME h[c].next = b PROVE FALSE
        <5>1. NextIn(F, c, b) BY <3>1, <4>1
        <5>2. c \in Int /\ p \in Int /\ c < b
          <6>1. b # Null BY <1>1
          <6> QED BY <1>1, <1>2, <2>1, <5>1, <6>1 DEF NextIn, Null
        <5>3. c < p => p \in F
          <6>1. p = Null => ~(c < p) BY <1>1, <2>1 DEF Null
          <6> QED BY <1>2, <6>1
        <5>4. p < c => c \in F
          <6>1. c = Null => ~(p < c) BY <1>1, <1>2 DEF Null
          <6> QED BY <2>1, <6>1
        <5>5. c < p => b <= p BY <5>1, <5>3 DEF NextIn
        <5>6. p < c => b <= c BY <1>2, <5>4 DEF NextIn
        <5>7. b \in Nat BY <1>1
        <5> QED BY <1>3, <2>3, <5>2, <5>5, <5>6, <5>7
      <4> QED BY <4>1
    <3> QED BY <3>1, <3>2 DEF NextIn
  <2> QED BY <2>2, <2>3
<1>7. ASSUME NEW c \in E PROVE k[c].prev \in E \cup {Null} /\ k[k[c].prev].next = c
  <2>0. c \in D \ {b} /\ c \in F BY <1>1
  <2>1. CASE c = n
    <3>1. k[c].prev = p BY <1>5, <2>0, <2>1
    <3>2. p \in D \ {b} /\ p \in E \cup {Null} BY <1>2, <1>3, <1>4
    <3>3. k[p].next = n BY <1>5, <3>2
    <3> QED BY <2>1, <3>1, <3>2, <3>3
  <2>2. CASE c # n
    <3> DEFINE q == h[c].prev
    <3>1. k[c].prev = q BY <1>5, <2>0, <2>2
    <3>2. q \in F \cup {Null} /\ h[q].next = c BY <2>0 DEF Linked
    <3> HIDE DEF q
    <3>3. q # b /\ q # p BY <1>2, <2>0, <2>2, <3>2 DEF n
    <3>4. q \in D \ {b} BY <1>1, <3>2, <3>3
    <3>5. k[q].next = c BY <1>5, <3>2, <3>3, <3>4
    <3> QED BY <3>1, <3>2, <3>3, <3>5
  <2> QED BY <2>1, <2>2
<1>8. Linked(k, E) BY <1>6, <1>7 DEF Linked
<1> QED BY <1>5, <1>8 DEF D, RemovedOf

\* Where a walk stops, if anything stops it.
LEMMA StopIs ==
  ASSUME NEW h, NEW F, HeapTyped(h, F), Linked(h, F), NEW stops,
         Null \in stops \/ F \cap stops # {}
  PROVE  Stop(h, stops) \in stops \cap (F \cup {Null})
<1> DEFINE L == Longest(h)
           at == Walk(h)
           I == {i \in DOMAIN at : at[i] \in stops}
<1>1. L \in Nat /\ at \in [0 .. L -> F \cup {Null}] BY WalkSteps
<1>2. at[L] = Null /\ Range(at) \ {Null} = F BY WalkMeetsAll
<1> HIDE DEF L, at
<1>3. \E i \in 0 .. L : at[i] \in stops
  <2>1. CASE Null \in stops BY <1>1, <1>2, <2>1
  <2>2. CASE F \cap stops # {}
    <3>1. PICK b \in F : b \in stops BY <2>2
    <3>2. b \in Range(at) BY <1>2
    <3> QED BY <1>1, <3>1, <3>2 DEF Range
  <2> QED BY <2>1, <2>2
<1>4. I \in SUBSET Nat /\ I # {} BY <1>1, <1>3
<1>5. Min(I) \in I
  <2> HIDE DEF I
  <2>1. \E x \in I : \A y \in I : x <= y BY <1>4, LeastNatural
  <2> QED BY <2>1 DEF Min
<1>6. Stop(h, stops) = at[Min(I)] BY DEF Stop, at
<1>7. Min(I) \in 0 .. L /\ at[Min(I)] \in stops BY <1>1, <1>5
<1> HIDE DEF I
<1>8. at[Min(I)] \in F \cup {Null} BY <1>1, <1>7
<1> QED BY <1>6, <1>7, <1>8

\* The place of a block that is not on the list: between two that are linked.
LEMMA PlaceIs ==
  ASSUME NEW h, NEW F, HeapTyped(h, F), Linked(h, F), NEW b \in Nat, b \notin F,
         NEW p, p = Predecessor(h, b), NEW n, n = Stop(h, Above(h, b))
  PROVE  /\ p \in F \cup {Null} /\ n \in F \cup {Null}
         /\ h[p].next = n /\ p < b /\ (n # Null => b < n)
<1> DEFINE L == Longest(h)
           at == Walk(h)
           I == {i \in DOMAIN at : at[i] \in Above(h, b)}
           m == Min(I)
<1>1. /\ L \in Nat /\ at \in [0 .. L -> F \cup {Null}] /\ at[0] = h[Null].next
      /\ \A i \in 1 .. L : at[i] = IF at[i - 1] = Null THEN Null ELSE h[at[i - 1]].next
  BY WalkSteps
<1>2. at[L] = Null BY WalkMeetsAll
<1>3. p = (IF m = 0 THEN Null ELSE at[m - 1]) /\ n = at[m] BY DEF Predecessor, Stop
<1> HIDE DEF L, at
<1>4. Null \in Above(h, b) /\ \A d \in DOMAIN h : d >= b => d \in Above(h, b) BY DEF Above
<1>5. I \in SUBSET Nat /\ I # {} BY <1>1, <1>2, <1>4
<1>6. m \in I /\ \A i \in I : m <= i
  <2> HIDE DEF I
  <2>1. \E x \in I : \A y \in I : x <= y BY <1>5, LeastNatural
  <2> QED BY <2>1 DEF Min
<1>7. m \in 0 .. L /\ at[m] \in Above(h, b) /\ \A i \in 0 .. L : at[i] \in Above(h, b) => m <= i
  <2> HIDE DEF m
  <2> QED BY <1>1, <1>6
<1> HIDE DEF m, I
<1>8. F \subseteq DOMAIN h /\ F \subseteq Nat /\ Null < b /\ Null \notin F
  BY DEF HeapTyped, Null
<1>9. n \in F \cup {Null} BY <1>1, <1>3, <1>7
<1>10. n # Null => b < n
  <2>1. ASSUME n # Null PROVE b < n
    <3>1. n >= b BY <1>3, <1>7, <2>1 DEF Above
    <3>2. n \in Nat /\ n # b BY <1>8, <1>9, <2>1
    <3> QED BY <3>1, <3>2
  <2> QED BY <2>1
<1>11. CASE m = 0
  <2>1. p = Null /\ n = h[Null].next BY <1>1, <1>3, <1>11
  <2> QED BY <1>8, <1>9, <1>10, <2>1
<1>12. CASE m # 0
  <2>1. m \in 1 .. L /\ m - 1 \in 0 .. L /\ ~(m <= m - 1) BY <1>1, <1>7, <1>12
  <2>2. p = at[m - 1] /\ p \notin Above(h, b) BY <1>3, <1>7, <1>12, <2>1
  <2>3. p # Null /\ p \in F BY <1>1, <1>4, <2>1, <2>2
  <2>4. n = h[p].next BY <1>1, <1>3, <2>1, <2>2, <2>3
  <2>5. p \in Nat /\ ~(p >= b) BY <1>4, <1>8, <2>2, <2>3
  <2>6. p < b BY <2>5
  <2> QED BY <1>9, <1>10, <2>3, <2>4, <2>6
<1> QED BY <1>11, <1>12

\* Putting a block on the list.
LEMMA AddedIs ==
  ASSUME NEW D, NEW h \in HeapOn(D), NEW b \in D,
         NEW p \in D, NEW n \in D, p \in Int, n \in Int, b \in Int, p # b, n # b,
         p = Predecessor(h, b), n = Stop(h, Above(h, b)),
         NEW k, k = add_to_free_list(h, b)
  PROVE  /\ k \in HeapOn(D) /\ k[b].next = n /\ k[b].prev = p
         /\ \A c \in D : k[c].size = h[c].size /\ k[c].is_free = (c = b \/ h[c].is_free)
         /\ \A c \in D \ {b} : /\ k[c].next = IF c = p THEN b ELSE h[c].next
                               /\ k[c].prev = IF c = n THEN b ELSE h[c].prev
<1> DEFINE made == Listed(h[b].size, p, n)
           mine == [h EXCEPT ![b] = made]
           fore == Set(mine, p, "next", b)
<1>1. Written(made, h[b].size, p, n)
  <2>1. h[b].size \in Nat BY FieldTypes
  <2> QED BY ONLY <2>1, p \in Int, n \in Int, ListedIs
<1>2. k = Set(fore, n, "prev", b) BY DEF add_to_free_list, Listed
<1> HIDE DEF made
<1>3. mine \in HeapOn(D) /\ \A c \in D : mine[c] = IF c = b THEN made ELSE h[c]
  BY <1>1 DEF HeapOn, Written
<1> HIDE DEF mine
<1>4. NextSet(fore, mine, D, p, b) BY <1>3, SetIs
<1>5. fore \in HeapOn(D) BY <1>4 DEF NextSet
<1> HIDE DEF fore
<1>6. PrevSet(k, fore, D, n, b) BY <1>2, <1>5, SetIs
<1>7. k[b].next = n /\ k[b].prev = p /\ k[b].size = h[b].size /\ k[b].is_free = TRUE
  <2>1. mine[b] = made BY <1>3
  <2>2. made.size = h[b].size /\ made.is_free = TRUE /\ made.prev = p /\ made.next = n
    BY <1>1 DEF Written
  <2>3. /\ fore[b].size = mine[b].size /\ fore[b].is_free = mine[b].is_free
        /\ fore[b].prev = mine[b].prev /\ fore[b].next = mine[b].next
    BY <1>4 DEF NextSet
  <2>4. /\ k[b].size = fore[b].size /\ k[b].is_free = fore[b].is_free
        /\ k[b].prev = fore[b].prev /\ k[b].next = fore[b].next
    BY <1>6 DEF PrevSet
  <2> QED BY <2>1, <2>2, <2>3, <2>4
<1>8. ASSUME NEW c \in D, c # b
      PROVE  /\ k[c].size = h[c].size /\ k[c].is_free = h[c].is_free
             /\ k[c].next = IF c = p THEN b ELSE h[c].next
             /\ k[c].prev = IF c = n THEN b ELSE h[c].prev
  <2>1. mine[c] = h[c] BY <1>3, <1>8
  <2>2. /\ fore[c].size = h[c].size /\ fore[c].is_free = h[c].is_free /\ fore[c].prev = h[c].prev
        /\ fore[c].next = IF c = p THEN b ELSE h[c].next
    BY <1>4, <2>1 DEF NextSet
  <2>3. /\ k[c].size = fore[c].size /\ k[c].is_free = fore[c].is_free /\ k[c].next = fore[c].next
        /\ k[c].prev = IF c = n THEN b ELSE fore[c].prev
    BY <1>6 DEF PrevSet
  <2> QED BY <2>2, <2>3
<1>9. ASSUME NEW c \in D PROVE k[c].size = h[c].size /\ k[c].is_free = (c = b \/ h[c].is_free)
  <2>1. CASE c = b BY <1>7, <2>1
  <2>2. CASE c # b
    <3>1. h[c].is_free \in BOOLEAN BY FieldTypes
    <3> QED BY <1>8, <2>2, <3>1
  <2> QED BY <2>1, <2>2
<1>10. k \in HeapOn(D) BY <1>6 DEF PrevSet
<1>11. \A c \in D \ {b} : /\ k[c].next = IF c = p THEN b ELSE h[c].next
                          /\ k[c].prev = IF c = n THEN b ELSE h[c].prev
  BY <1>8
<1> QED BY <1>7, <1>9, <1>10, <1>11

AddedTo(k, h, F, b) ==
  /\ k \in HeapOn(DOMAIN h) /\ Linked(k, F \cup {b})
  /\ \A c \in DOMAIN h : k[c].size = h[c].size /\ k[c].is_free = (c = b \/ h[c].is_free)

LEMMA LinkedAdded ==
  ASSUME NEW h, NEW F, HeapTyped(h, F), Linked(h, F), NEW b \in DOMAIN h, b \in Nat, b \notin F,
         NEW k, k = add_to_free_list(h, b)
  PROVE  AddedTo(k, h, F, b)
<1> DEFINE D == DOMAIN h
           p == Predecessor(h, b)
           n == Stop(h, Above(h, b))
           E == F \cup {b}
<1>1. /\ h \in HeapOn(D) /\ F \subseteq D /\ F \subseteq Nat /\ Null \in D /\ Null \notin F
      /\ Null < b /\ \A c \in F : Null < c
  BY DEF HeapTyped, HeapOn, Null
<1>2. /\ p \in F \cup {Null} /\ n \in F \cup {Null} /\ h[p].next = n /\ p < b /\ (n # Null => b < n)
  BY PlaceIs
<1>3. p \in Int /\ n \in Int /\ b \in Int /\ p # b /\ n # b /\ p \in D /\ n \in D
  <2> HIDE DEF p, n
  <2> QED BY <1>1, <1>2 DEF Null
<1>4. /\ k \in HeapOn(D) /\ k[b].next = n /\ k[b].prev = p
      /\ \A c \in D : k[c].size = h[c].size /\ k[c].is_free = (c = b \/ h[c].is_free)
      /\ \A c \in D \ {b} : /\ k[c].next = IF c = p THEN b ELSE h[c].next
                            /\ k[c].prev = IF c = n THEN b ELSE h[c].prev
  BY <1>1, <1>3, AddedIs
<1> HIDE DEF p, n, D
<1>5. NextIn(F, p, n) BY <1>2 DEF Linked
<1>6. ASSUME NEW c \in E \cup {Null} PROVE NextIn(E, c, k[c].next)
  <2>1. CASE c = b
    <3>1. ASSUME NEW d \in E, b < d PROVE n # Null /\ n <= d
      <4>1. d \in F /\ d \in Nat BY <1>1, <1>3, <3>1
      <4>2. p < d BY <1>2, <1>3, <3>1, <4>1
      <4> QED BY <1>5, <4>1, <4>2 DEF NextIn
    <3> QED BY <1>2, <1>4, <2>1, <3>1 DEF NextIn
  <2>2. CASE c = p
    <3>1. c \in D \ {b} /\ k[c].next = b BY <1>3, <1>4, <2>2
    <3>2. ASSUME NEW d \in E, p < d PROVE b <= d
      <4>1. CASE d = b BY <1>3, <4>1
      <4>2. CASE d \in F
        <5>1. n # Null /\ n <= d BY <1>5, <3>2, <4>2 DEF NextIn
        <5>2. d \in Nat BY <1>1, <4>2
        <5> QED BY <1>2, <1>3, <5>1, <5>2
      <4> QED BY <4>1, <4>2
    <3>3. b # Null BY <1>1
    <3> QED BY <1>2, <2>2, <3>1, <3>2, <3>3 DEF NextIn
  <2>3. CASE c # b /\ c # p
    <3>1. c \in F \cup {Null} /\ c \in D \ {b} BY <1>1, <2>3
    <3>2. k[c].next = h[c].next /\ NextIn(F, c, h[c].next) BY <1>4, <2>3, <3>1 DEF Linked
    <3>3. c < b => h[c].next # Null /\ h[c].next <= b
      <4>1. ASSUME c < b PROVE h[c].next # Null /\ h[c].next <= b
        <5> DEFINE s == h[c].next
        <5>1. c \in Int BY <1>1, <3>1 DEF Null
        <5>2. p < c \/ c < p BY <1>3, <2>3, <5>1
        <5>3. CASE p < c
          <6>1. c \in F BY <1>1, <1>2, <3>1, <5>3 DEF Null
          <6>2. n # Null /\ n <= c BY <1>5, <5>3, <6>1 DEF NextIn
          <6>3. FALSE BY <1>2, <1>3, <4>1, <5>1, <6>2
          <6> QED BY <6>3
        <5>4. CASE c < p
          <6>1. p \in F BY <1>1, <1>2, <3>1, <5>4 DEF Null
          <6>2. s # Null /\ s <= p /\ s \in F BY <3>2, <5>4, <6>1 DEF NextIn
          <6>3. s \in Nat BY <1>1, <6>2
          <6> HIDE DEF s
          <6>4. s <= b BY <1>2, <1>3, <6>2, <6>3
          <6> QED BY <6>2, <6>4 DEF s
        <5> QED BY <5>2, <5>3, <5>4
      <4> QED BY <4>1
    <3> QED BY <3>2, <3>3 DEF NextIn
  <2> QED BY <2>1, <2>2, <2>3
<1>7. ASSUME NEW c \in E PROVE k[c].prev \in E \cup {Null} /\ k[k[c].prev].next = c
  <2>1. CASE c = b
    <3>1. k[c].prev = p /\ p \in D \ {b} BY <1>3, <1>4, <2>1
    <3>2. k[p].next = b BY <1>4, <3>1
    <3> QED BY <1>2, <2>1, <3>1, <3>2
  <2>2. CASE c # b /\ c = n
    <3>1. k[c].prev = b BY <1>1, <1>3, <1>4, <2>2
    <3> QED BY <1>4, <2>2, <3>1
  <2>3. CASE c # b /\ c # n
    <3> DEFINE q == h[c].prev
    <3>1. c \in F /\ c \in D \ {b} BY <1>1, <2>3
    <3>2. k[c].prev = q BY <1>4, <2>3, <3>1
    <3>3. q \in F \cup {Null} /\ h[q].next = c BY <3>1 DEF Linked
    <3> HIDE DEF q
    <3>4. q # p BY <1>2, <2>3, <3>3
    <3>5. q \in D \ {b} BY <1>1, <3>3
    <3>6. k[q].next = c BY <1>4, <3>3, <3>4, <3>5
    <3> QED BY <3>2, <3>3, <3>6
  <2> QED BY <2>1, <2>2, <2>3
<1>8. Linked(k, E) BY <1>6, <1>7 DEF Linked
<1> QED BY <1>4, <1>8 DEF D, AddedTo

\* find_free_block finds a free block that is large enough.
LEMMA FindIs ==
  ASSUME NEW h, NEW F, HeapTyped(h, F), Linked(h, F), NEW n, Suits(h, n) # {}
  PROVE  find_free_block(h, n) \in F /\ h[find_free_block(h, n)].size >= n
<1> DEFINE fits == Suits(h, n)
           best == {b \in fits : \A d \in fits : h[b].size <= h[d].size}
           sizes == {h[b].size : b \in fits}
<1>1. fits \subseteq F /\ \A b \in fits : h[b].size >= n BY WalkMeetsAll DEF Suits
<1>2. \A b \in F : h[b].size \in Nat BY DEF HeapTyped, HeapBlocks
<1>3. Null \notin F BY DEF HeapTyped, Null
<1> HIDE DEF fits
<1>4. sizes \in SUBSET Nat /\ sizes # {} BY <1>1, <1>2 DEF fits
<1>5. PICK least \in sizes : \A m \in sizes : least <= m BY <1>4, LeastNatural
<1>6. PICK b \in fits : h[b].size = least BY <1>5
<1>7. b \in best BY <1>5, <1>6
<1>8. best \subseteq fits OBVIOUS
<1>9. find_free_block(h, n) = Stop(h, best) BY DEF find_free_block, fits
<1> HIDE DEF best
<1>10. F \cap best # {} BY <1>1, <1>7, <1>8
<1>11. Stop(h, best) \in best BY <1>10, StopIs
<1> QED BY <1>1, <1>8, <1>9, <1>11

LEMMA LinkedSame ==
  ASSUME NEW h, NEW k, NEW F, Linked(h, F),
         \A x \in F \cup {Null} : k[x].next = h[x].next /\ k[x].prev = h[x].prev
  PROVE  Linked(k, F)
<1>1. ASSUME NEW c \in F \cup {Null} PROVE NextIn(F, c, k[c].next)
  BY DEF Linked
<1>2. ASSUME NEW c \in F PROVE k[c].prev \in F \cup {Null} /\ k[k[c].prev].next = c
  <2>1. h[c].prev \in F \cup {Null} /\ h[h[c].prev].next = c BY DEF Linked
  <2>2. k[c].prev = h[c].prev OBVIOUS
  <2> QED BY <2>1, <2>2
<1> QED BY <1>1, <1>2 DEF Linked

\* What is written last, in the block that is handed out.
GivenOut(k, h, D, b, n) == /\ k \in HeapOn(D) /\ k[b].size = n /\ k[b].is_free = FALSE
                           /\ \A c \in D \ {b} : k[c] = h[c]

HandOut(h, b, n) == [h EXCEPT ![b].size = n, ![b].is_free = FALSE]

LEMMA HandedOut ==
  ASSUME NEW D, NEW h \in HeapOn(D), NEW b \in D, NEW n \in Nat,
         NEW k, k = HandOut(h, b, n)
  PROVE  GivenOut(k, h, D, b, n)
<1> DEFINE given == [[h[b] EXCEPT !.size = n] EXCEPT !.is_free = FALSE]
<1>1. h[b] \in HeapBlocks BY DEF HeapOn
<1>2. given \in HeapBlocks /\ given.size = n /\ given.is_free = FALSE BY <1>1 DEF HeapBlocks
<1>3. k = [h EXCEPT ![b] = given] BY DEF HeapOn, HandOut
<1> HIDE DEF given
<1> QED BY <1>2, <1>3 DEF HeapOn, GivenOut

WholeOf(k, h, F, b, n) ==
  /\ k \in HeapOn(DOMAIN h) /\ Linked(k, F \ {b})
  /\ k[b].size = n /\ k[b].is_free = FALSE
  /\ \A c \in DOMAIN h \ {b} : k[c].size = h[c].size /\ k[c].is_free = h[c].is_free

\* A block is handed out whole.
LEMMA AllocWhole ==
  ASSUME NEW h, NEW F, HeapTyped(h, F), Linked(h, F), NEW b \in F, NEW n \in Nat,
         ~Splits(h, b, n), NEW k, k = Allocated(h, b, n)
  PROVE  WholeOf(k, h, F, b, n)
<1> DEFINE gone == remove_from_free_list(h, b)
           D == DOMAIN h
<1>1. /\ gone \in HeapOn(D) /\ Linked(gone, F \ {b})
      /\ \A c \in D : gone[c].size = h[c].size /\ gone[c].is_free = (c # b /\ h[c].is_free)
  <2>1. RemovedOf(gone, h, F, b) BY LinkedRemoved
  <2> QED BY <2>1 DEF RemovedOf
<1>2. k = HandOut(gone, b, n) BY DEF Allocated, split_block, HandOut
<1>3. b \in D /\ F \subseteq D /\ Null \in D /\ Null \notin F /\ h \in HeapOn(D)
  BY DEF HeapTyped, Null, HeapOn
<1> HIDE DEF gone, D
<1>4. /\ k \in HeapOn(D) /\ k[b].size = n /\ k[b].is_free = FALSE
      /\ \A c \in D \ {b} : k[c] = gone[c]
  <2>1. gone \in HeapOn(D) /\ b \in D BY <1>1, <1>3
  <2>2. GivenOut(k, gone, D, b, n) BY <2>1, <1>2, HandedOut
  <2> QED BY <2>2 DEF GivenOut
<1>5. Linked(k, F \ {b})
  <2>1. \A c \in (F \ {b}) \cup {Null} : k[c] = gone[c] BY <1>3, <1>4
  <2> QED BY <1>1, <2>1, LinkedSame
<1>6. ASSUME NEW c \in D \ {b} PROVE k[c].size = h[c].size /\ k[c].is_free = h[c].is_free
  <2>1. k[c] = gone[c] /\ gone[c].size = h[c].size /\ gone[c].is_free = (c # b /\ h[c].is_free)
    BY <1>1, <1>4
  <2>2. c # b /\ h[c].is_free \in BOOLEAN BY <1>3, FieldTypes
  <2> QED BY <2>1, <2>2
<1> QED BY <1>4, <1>5, <1>6 DEF D, WholeOf

\* A header is written behind the units that are handed out.
CutOf(k, h, D, b, n, r, s) ==
  /\ k \in HeapOn(D \cup {r})
  /\ k[r].size = s /\ k[r].is_free = TRUE /\ k[b].size = n
  /\ \A c \in D \ {r} : /\ k[c].next = h[c].next /\ k[c].prev = h[c].prev
                        /\ k[c].is_free = h[c].is_free
                        /\ c # b => k[c].size = h[c].size

LEMMA CutIs ==
  ASSUME NEW D, NEW h \in HeapOn(D), NEW b \in D, NEW n \in Nat, NEW r, r # b, NEW s \in Nat,
         NEW k, k = Set(Placed(h, r, Block(s)), b, "size", n)
  PROVE  CutOf(k, h, D, b, n, r, s)
<1> DEFINE placed == Placed(h, r, Block(s))
           made == Block(s)
           E == D \cup {r}
<1>1. made \in HeapBlocks /\ made.size = s /\ made.is_free = TRUE BY NewBlock
<1> HIDE DEF made
<1>2. placed \in HeapOn(E) /\ \A c \in E : placed[c] = IF c = r THEN made ELSE h[c]
  <2>1. DOMAIN h = D BY DEF HeapOn
  <2>2. placed = [c \in E |-> IF c = r THEN made ELSE h[c]] BY <2>1 DEF Placed, made
  <2>3. \A c \in E : (IF c = r THEN made ELSE h[c]) \in HeapBlocks BY <1>1 DEF HeapOn
  <2> HIDE DEF placed
  <2> QED BY <2>2, <2>3 DEF HeapOn
<1> HIDE DEF placed, E
<1>3. b \in E /\ r \in E /\ D \subseteq E BY DEF E
<1>4. SizeSet(k, placed, E, b, n)
  <2>1. k = Set(placed, b, "size", n) BY DEF placed
  <2> QED BY <1>2, <1>3, <2>1, SetIs
<1>5. k[r].size = s /\ k[r].is_free = TRUE
  <2>1. placed[r] = made BY <1>2, <1>3
  <2>2. k[r].size = placed[r].size /\ k[r].is_free = placed[r].is_free BY <1>3, <1>4 DEF SizeSet
  <2> QED BY <1>1, <2>1, <2>2
<1>6. ASSUME NEW c \in D \ {r}
      PROVE  /\ k[c].next = h[c].next /\ k[c].prev = h[c].prev
             /\ k[c].is_free = h[c].is_free
             /\ c # b => k[c].size = h[c].size
  <2>1. placed[c] = h[c] /\ c \in E BY <1>2, <1>3
  <2> QED BY <1>4, <2>1 DEF SizeSet
<1>7. k \in HeapOn(E) /\ k[b].size = n BY <1>3, <1>4 DEF SizeSet
<1> QED BY <1>5, <1>6, <1>7 DEF E, CutOf

LEMMA TypedOn ==
  ASSUME NEW D, IsFiniteSet(D), NEW k \in HeapOn(D), NEW S \in SUBSET D, S \subseteq Nat, Null \in D
  PROVE  HeapTyped(k, S)
<1>1. k \in [D -> HeapBlocks] BY DEF HeapOn
<1> QED BY <1>1 DEF HeapTyped

SplitOf(k, h, F, b, n, r, s) ==
  /\ k \in HeapOn(DOMAIN h \cup {r}) /\ Linked(k, (F \ {b}) \cup {r})
  /\ k[b].size = n /\ k[b].is_free = FALSE
  /\ k[r].size = s /\ k[r].is_free = TRUE
  /\ \A c \in DOMAIN h \ {b, r} : k[c].size = h[c].size /\ k[c].is_free = h[c].is_free

\* A block is split, its front handed out and its rest put on the list.
LEMMA AllocSplit ==
  ASSUME NEW h, NEW F, HeapTyped(h, F), Linked(h, F), NEW b \in F, NEW n \in Nat,
         Splits(h, b, n), NEW r, r = b + Header + n, r \in Nat, r # b, r \notin F,
         NEW s \in Nat, s = Remaining(h, b, n), NEW k, k = Allocated(h, b, n)
  PROVE  SplitOf(k, h, F, b, n, r, s)
<1> DEFINE D == DOMAIN h
           E == D \cup {r}
           cut == Set(Placed(h, r, Block(s)), b, "size", n)
           gone == remove_from_free_list(cut, b)
           kept == add_to_free_list(gone, r)
<1>1. /\ b \in D /\ F \subseteq D /\ F \subseteq Nat /\ Null \in D /\ Null \notin F
      /\ h \in HeapOn(D) /\ IsFiniteSet(D) /\ r # Null
  BY DEF HeapTyped, Null, HeapOn
<1> HIDE DEF D
<1>2. /\ cut \in HeapOn(E) /\ cut[r].size = s /\ cut[r].is_free = TRUE /\ cut[b].size = n
      /\ \A c \in D \ {r} : /\ cut[c].next = h[c].next /\ cut[c].prev = h[c].prev
                            /\ cut[c].is_free = h[c].is_free
                            /\ c # b => cut[c].size = h[c].size
  <2>1. CutOf(cut, h, D, b, n, r, s)
    <3> HIDE DEF E
    <3> QED BY <1>1, CutIs
  <2> HIDE DEF cut
  <2> QED BY <2>1 DEF CutOf
<1>3. k = HandOut(kept, b, n)
  <2>1. split_block(h, b, n) = cut BY DEF split_block
  <2> QED BY <2>1 DEF Allocated, HandOut
<1> HIDE DEF cut
<1>4. IsFiniteSet(E) /\ F \subseteq E /\ Null \in E /\ b \in E /\ r \in E /\ F \subseteq D \ {r}
  BY <1>1, FS_AddElement
<1> HIDE DEF E
<1>5. HeapTyped(cut, F) BY <1>1, <1>2, <1>4, TypedOn
<1>6. Linked(cut, F)
  <2>1. Null \in D \ {r} BY <1>1
  <2>2. \A c \in F \cup {Null} : cut[c].next = h[c].next /\ cut[c].prev = h[c].prev
    BY <1>2, <1>4, <2>1
  <2> QED BY <2>2, LinkedSame
<1>7. DOMAIN cut = E BY <1>2 DEF HeapOn
<1>8. /\ gone \in HeapOn(E) /\ Linked(gone, F \ {b})
      /\ \A c \in E : gone[c].size = cut[c].size /\ gone[c].is_free = (c # b /\ cut[c].is_free)
  <2>1. RemovedOf(gone, cut, F, b) BY <1>5, <1>6, LinkedRemoved
  <2> HIDE DEF gone
  <2> QED BY <1>7, <2>1 DEF RemovedOf
<1> HIDE DEF gone
<1>9. DOMAIN gone = E BY <1>8 DEF HeapOn
<1>10. HeapTyped(gone, F \ {b}) BY <1>1, <1>4, <1>8, TypedOn
<1>11. /\ kept \in HeapOn(E) /\ Linked(kept, (F \ {b}) \cup {r})
       /\ \A c \in E : kept[c].size = gone[c].size /\ kept[c].is_free = (c = r \/ gone[c].is_free)
  <2>1. r \in DOMAIN gone /\ r \notin F \ {b} BY <1>4, <1>9
  <2>2. AddedTo(kept, gone, F \ {b}, r) BY <1>1, <1>8, <1>10, <2>1, LinkedAdded
  <2> HIDE DEF kept
  <2> QED BY <1>9, <2>2 DEF AddedTo
<1> HIDE DEF kept
<1>12. GivenOut(k, kept, E, b, n) BY <1>3, <1>4, <1>11, HandedOut
<1>13. k \in HeapOn(E) /\ k[b].size = n /\ k[b].is_free = FALSE BY <1>12 DEF GivenOut
<1>14. Linked(k, (F \ {b}) \cup {r})
  <2>1. \A c \in ((F \ {b}) \cup {r}) \cup {Null} : c \in E \ {b} BY <1>1, <1>4
  <2>2. \A c \in ((F \ {b}) \cup {r}) \cup {Null} : k[c] = kept[c] BY <1>12, <2>1 DEF GivenOut
  <2> QED BY <1>11, <2>2, LinkedSame
<1>15. k[r].size = s /\ k[r].is_free = TRUE
  <2>1. k[r] = kept[r] BY <1>4, <1>12 DEF GivenOut
  <2>2. kept[r].size = gone[r].size /\ kept[r].is_free = TRUE BY <1>4, <1>11
  <2>3. gone[r].size = cut[r].size BY <1>4, <1>8
  <2> QED BY <1>2, <2>1, <2>2, <2>3
<1>16. ASSUME NEW c \in D \ {b, r} PROVE k[c].size = h[c].size /\ k[c].is_free = h[c].is_free
  <2>1. c \in E \ {b} /\ c \in D \ {r} BY DEF E
  <2>2. k[c] = kept[c] BY <1>12, <2>1 DEF GivenOut
  <2>3. kept[c].size = gone[c].size /\ kept[c].is_free = (c = r \/ gone[c].is_free) BY <1>11, <2>1
  <2>4. gone[c].size = cut[c].size /\ gone[c].is_free = (c # b /\ cut[c].is_free) BY <1>8, <2>1
  <2>5. cut[c].size = h[c].size /\ cut[c].is_free = h[c].is_free BY <1>2, <2>1
  <2>6. h[c].is_free \in BOOLEAN BY <1>1, FieldTypes
  <2>7. k[c].size = h[c].size BY <2>2, <2>3, <2>4, <2>5
  <2>8. c # b /\ c # r OBVIOUS
  <2>9. k[c].is_free = h[c].is_free BY <2>2, <2>3, <2>4, <2>5, <2>6, <2>8
  <2> QED BY <2>7, <2>9
<1> QED BY <1>13, <1>14, <1>15, <1>16 DEF D, E, SplitOf

-----------------------------------------------------------------------------
(***************************************************************************)
(* The heap is sound: free blocks are linked, blocks lie one behind the    *)
(* other, and the books show what was granted and have room for the rest.  *)
(***************************************************************************)
Spread(h, S) == \A b \in S : /\ After(h, b) <= HeapSize
                             /\ \A c \in S : b < c => After(h, b) <= c

Sound(h, F, G, u) ==
  /\ HeapTyped(h, F \cup G) /\ F \cap G = {}
  /\ Linked(h, F) /\ Spread(h, F \cup G)
  /\ \A b \in F : h[b].is_free = TRUE
  /\ \A b \in G : h[b].is_free = FALSE
  /\ u = Booked(h, G) /\ u + Booked(h, F) <= HeapSize

HeapNumbers == \* what the assumption says of the numbers
  /\ HeapSize \in Nat /\ Header \in Nat /\ Least \in Nat /\ Width \in Nat
  /\ Header > 0 /\ Width > 0 /\ HeapSize > Header /\ HeapSize < Width

LEMMA HeapNumbersAre == HeapNumbers
BY HeapAssumption DEF HeapNumbers

LEMMA TypedPart ==
  ASSUME NEW h, NEW S, HeapTyped(h, S), NEW T \in SUBSET S
  PROVE  HeapTyped(h, T) /\ Costs(h, T)
<1>1. HeapTyped(h, T) BY DEF HeapTyped
<1>2. IsFiniteSet(T) BY <1>1, FS_Subset DEF HeapTyped
<1>3. ASSUME NEW b \in T PROVE Cost(h, b) \in Nat
  <2>1. h[b].size \in Nat BY <1>1 DEF HeapTyped, HeapBlocks
  <2> QED BY <2>1, HeapNumbersAre DEF Cost, HeapNumbers
<1> QED BY <1>1, <1>2, <1>3 DEF Costs

\* The remainder of a difference.
LEMMA Modulo ==
  ASSUME NEW x \in Int, NEW m \in Nat, m > 0
  PROVE  /\ 0 <= x /\ x < m => x % m = x
         /\ x < 0 /\ -m <= x => x % m = x + m
OBVIOUS

\* A split without an overrun leaves a rest that lies inside the block.
LEMMA RestIs ==
  ASSUME NEW z \in Nat, NEW n \in Nat, n <= z, z + Header <= HeapSize,
         NEW s, s = (z - n - Header) % Width, s <= z
  PROVE  s \in Nat /\ s = z - n - Header
<1>1. HeapNumbers BY HeapNumbersAre
<1>2. z - n - Header \in Int BY <1>1 DEF HeapNumbers
<1>3. CASE z - n - Header < 0
  <2>1. -Width <= z - n - Header BY <1>1 DEF HeapNumbers
  <2>2. s = (z - n - Header) + Width BY <1>1, <1>2, <1>3, <2>1, Modulo DEF HeapNumbers
  <2>3. FALSE BY <1>1, <2>2 DEF HeapNumbers
  <2> QED BY <2>3
<1>4. CASE z - n - Header >= 0
  <2>1. z - n - Header < Width BY <1>1 DEF HeapNumbers
  <2>2. s = z - n - Header BY <1>1, <1>2, <1>4, <2>1, Modulo DEF HeapNumbers
  <2> QED BY <1>2, <1>4, <2>2
<1> QED BY <1>2, <1>3, <1>4

LEMMA BookedMore ==
  ASSUME NEW h, NEW S, Costs(h, S), NEW b, b \notin S, NEW m \in Nat,
         NEW k, k[b].size = m, \A c \in S : k[c].size = h[c].size
  PROVE  /\ Booked(h, S) \in Nat
         /\ Booked(k, S \cup {b}) = Booked(h, S) + Header + m
<1>1. Booked(k, S) = Booked(h, S) BY BookedSame
<1>2. Costs(k, S) BY DEF Costs, Cost
<1>3. Cost(k, b) = Header + m /\ Header \in Nat BY HeapNumbersAre DEF Cost, HeapNumbers
<1>4. Cost(k, b) \in Nat BY <1>3
<1>5. Booked(k, S) \in Nat /\ Booked(k, S \cup {b}) = Booked(k, S) + Cost(k, b)
  BY <1>2, <1>4, BookedAdded
<1> QED BY <1>1, <1>3, <1>5

LEMMA BookedLess ==
  ASSUME NEW h, NEW S, Costs(h, S), NEW b \in S, h[b].size \in Nat,
         NEW k, \A c \in S \ {b} : k[c].size = h[c].size
  PROVE  /\ Booked(k, S \ {b}) \in Nat /\ Booked(h, S) \in Nat
         /\ Booked(h, S) = Booked(k, S \ {b}) + Header + h[b].size
<1> DEFINE z == h[b].size
           rest == Booked(h, S \ {b})
           all == Booked(h, S)
           less == Booked(k, S \ {b})
<1>1. all \in Nat /\ all = Cost(h, b) + rest /\ rest \in Nat
  BY BookedTaken
<1>2. Costs(h, S \ {b}) BY FS_Subset DEF Costs
<1>3. less = rest BY <1>2, BookedSame
<1>4. Cost(h, b) = Header + z /\ z \in Nat BY DEF Cost
<1>5. Header \in Nat BY HeapNumbersAre DEF HeapNumbers
<1> HIDE DEF z, rest, all, less
<1>6. less \in Nat /\ all = less + Header + z BY <1>1, <1>3, <1>4, <1>5
<1> QED BY <1>1, <1>6 DEF z, all, less

\* Blocks that do not grow stay apart.
LEMMA SpreadSmaller ==
  ASSUME NEW h, NEW S, HeapTyped(h, S), Spread(h, S), NEW T \in SUBSET S,
         NEW k, \A c \in T : k[c].size \in Nat /\ k[c].size <= h[c].size
  PROVE  Spread(k, T)
<1>1. ASSUME NEW c \in T PROVE After(k, c) <= HeapSize /\ \A d \in T : c < d => After(k, c) <= d
  <2> DEFINE z == h[c].size
             y == k[c].size
             e == After(h, c)
             l == After(k, c)
  <2>1. c \in Nat /\ z \in Nat /\ y \in Nat /\ y <= z BY DEF HeapTyped, HeapBlocks
  <2>2. Header \in Nat /\ HeapSize \in Nat BY HeapNumbersAre DEF HeapNumbers
  <2>3. e = c + Header + z /\ l = c + Header + y BY DEF After
  <2>4. e <= HeapSize /\ \A d \in T : d \in Nat /\ (c < d => e <= d) BY DEF Spread, HeapTyped
  <2> HIDE DEF z, y, e, l
  <2>5. l <= e /\ l \in Nat /\ e \in Nat BY <2>1, <2>2, <2>3
  <2>6. l <= HeapSize BY <2>2, <2>4, <2>5
  <2>7. \A d \in T : c < d => l <= d BY <2>4, <2>5
  <2> QED BY <2>6, <2>7 DEF l
<1> QED BY <1>1 DEF Spread

LEMMA AllocWholeSound ==
  ASSUME NEW h, NEW F, NEW G, NEW u, Sound(h, F, G, u), NEW b \in F, NEW n \in Nat,
         n <= h[b].size, ~Splits(h, b, n), NEW k, k = Allocated(h, b, n)
  PROVE  Sound(k, F \ {b}, G \cup {b}, u + Header + n)
<1> DEFINE S == F \cup G
           D == DOMAIN h
           E == F \ {b}
           I == G \cup {b}
           z == h[b].size
<1>1. /\ HeapTyped(h, S) /\ F \cap G = {} /\ Linked(h, F) /\ Spread(h, S)
      /\ \A c \in F : h[c].is_free = TRUE
      /\ \A c \in G : h[c].is_free = FALSE
      /\ u = Booked(h, G) /\ u + Booked(h, F) <= HeapSize
  BY DEF Sound
<1>2. HeapTyped(h, F) /\ Costs(h, F) /\ Costs(h, G) BY <1>1, TypedPart
<1>3. /\ k \in HeapOn(D) /\ Linked(k, E)
      /\ k[b].size = n /\ k[b].is_free = FALSE
      /\ \A c \in D \ {b} : k[c].size = h[c].size /\ k[c].is_free = h[c].is_free
  <2>1. WholeOf(k, h, F, b, n) BY <1>1, <1>2, AllocWhole
  <2> QED BY <2>1 DEF WholeOf
<1>4. /\ S \subseteq D /\ IsFiniteSet(D) /\ Null \in D /\ S \subseteq Nat
      /\ \A c \in S : h[c].size \in Nat
  BY <1>1 DEF HeapTyped, HeapBlocks
<1>5. E \cup I = S /\ E \cap I = {} /\ b \notin G /\ b \in S BY <1>1
<1>6. HeapTyped(k, E \cup I) BY <1>3, <1>4, <1>5, TypedOn
<1>7. Spread(k, E \cup I)
  <2>1. ASSUME NEW c \in S PROVE k[c].size \in Nat /\ k[c].size <= h[c].size
    <3>1. CASE c = b BY <1>3, <3>1
    <3>2. CASE c # b
      <4>1. k[c].size = h[c].size /\ h[c].size \in Nat BY <1>3, <1>4, <3>2
      <4> QED BY <4>1
    <3> QED BY <3>1, <3>2
  <2> QED BY <1>1, <1>5, <2>1, SpreadSmaller
<1>8. \A c \in E : k[c].is_free = TRUE BY <1>1, <1>3, <1>4
<1>9. \A c \in I : k[c].is_free = FALSE BY <1>1, <1>3, <1>4, <1>5
<1>10. /\ Booked(h, G) \in Nat
       /\ Booked(k, I) = Booked(h, G) + Header + n
  <2>1. \A c \in G : k[c].size = h[c].size BY <1>3, <1>4, <1>5
  <2>2. k[b].size = n BY <1>3
  <2> QED BY <1>2, <1>5, <2>1, <2>2, BookedMore
<1>11. /\ Booked(k, E) \in Nat /\ Booked(h, F) \in Nat
       /\ Booked(h, F) = Booked(k, E) + Header + z /\ z \in Nat /\ n <= z
  BY <1>2, <1>3, <1>4, BookedLess
<1>12. Booked(k, I) = u + Header + n /\ u \in Nat BY <1>1, <1>10
<1>13. u + Header + n + Booked(k, E) <= HeapSize
  <2> DEFINE x == Booked(k, E)
             y == Booked(h, F)
  <2>1. x \in Nat /\ y \in Nat /\ y = x + Header + z /\ u + y <= HeapSize BY <1>1, <1>11
  <2>2. Header \in Nat /\ HeapSize \in Nat BY HeapNumbersAre DEF HeapNumbers
  <2> HIDE DEF x, y, z
  <2>3. u + Header + n + x <= HeapSize BY <1>11, <1>12, <2>1, <2>2
  <2> QED BY <2>3 DEF x
<1> HIDE DEF E, I
<1>14. Sound(k, E, I, u + Header + n)
  <2>1. E \cap I = {} BY <1>5
  <2> QED BY <1>3, <1>6, <1>7, <1>8, <1>9, <1>12, <1>13, <2>1 DEF Sound
<1> QED BY <1>14 DEF E, I

LEMMA AllocSplitSound ==
  ASSUME NEW h, NEW F, NEW G, NEW u, Sound(h, F, G, u), NEW b \in F, NEW n \in Nat,
         n <= h[b].size, Splits(h, b, n), ~Overruns(h, b, n), NEW k, k = Allocated(h, b, n)
  PROVE  Sound(k, (F \ {b}) \cup {b + Header + n}, G \cup {b}, u + Header + n)
<1> DEFINE S == F \cup G
           D == DOMAIN h
           z == h[b].size
           r == b + Header + n
           s == Remaining(h, b, n)
           L == F \ {b}
           E == L \cup {r}
           I == G \cup {b}
<1>1. /\ HeapTyped(h, S) /\ F \cap G = {} /\ Linked(h, F) /\ Spread(h, S)
      /\ \A c \in F : h[c].is_free = TRUE
      /\ \A c \in G : h[c].is_free = FALSE
      /\ u = Booked(h, G) /\ u + Booked(h, F) <= HeapSize
  BY DEF Sound
<1>2. HeapTyped(h, F) /\ Costs(h, F) /\ Costs(h, G) BY <1>1, TypedPart
<1>3. /\ S \subseteq D /\ IsFiniteSet(D) /\ Null \in D /\ S \subseteq Nat
      /\ \A c \in S : h[c].size \in Nat
  BY <1>1 DEF HeapTyped, HeapBlocks
<1>4. HeapNumbers BY HeapNumbersAre
<1>5. z \in Nat /\ b \in Nat /\ b \in S /\ b + Header + z <= HeapSize
  BY <1>1, <1>3 DEF Spread, After
<1>6. s \in Nat /\ s = z - n - Header
  <2>1. s <= z
    <3>1. s \in Int BY <1>4, <1>5 DEF Remaining, HeapNumbers
    <3> QED BY <1>5, <3>1 DEF Overruns
  <2>2. z + Header <= HeapSize BY <1>4, <1>5 DEF HeapNumbers
  <2>3. s = (z - n - Header) % Width BY DEF Remaining
  <2> HIDE DEF s, z
  <2> QED BY <1>5, <2>1, <2>2, <2>3, RestIs DEF z
<1>7. r \in Nat /\ b < r /\ r < b + Header + z
  <2>1. s >= Header + Least BY DEF Splits
  <2> HIDE DEF s, z
  <2> QED BY <1>4, <1>5, <1>6, <2>1 DEF HeapNumbers
<1>8. r \notin S
  <2>1. ASSUME r \in S PROVE FALSE
    <3>1. b + Header + z <= r BY <1>1, <1>5, <1>7, <2>1 DEF Spread, After
    <3> HIDE DEF r, z
    <3> QED BY <1>4, <1>5, <1>7, <3>1 DEF HeapNumbers
  <2> QED BY <2>1
<1>9. SplitOf(k, h, F, b, n, r, s)
  <2>1. r # b /\ r \notin F BY <1>5, <1>7, <1>8
  <2>2. HeapTyped(h, F) /\ Linked(h, F) BY <1>1, <1>2
  <2> HIDE DEF s
  <2> QED BY <1>6, <1>7, <2>1, <2>2, AllocSplit DEF s
<1> HIDE DEF r, s
<1>10. /\ k \in HeapOn(D \cup {r}) /\ Linked(k, E)
       /\ k[b].size = n /\ k[b].is_free = FALSE
       /\ k[r].size = s /\ k[r].is_free = TRUE
       /\ \A c \in D \ {b, r} : k[c].size = h[c].size /\ k[c].is_free = h[c].is_free
  BY <1>9 DEF SplitOf
<1>11. /\ E \cup I = S \cup {r} /\ E \cap I = {} /\ b \notin G /\ r \notin L
       /\ L \subseteq D \ {b, r} /\ G \subseteq D \ {b, r}
  BY <1>1, <1>3, <1>5, <1>7, <1>8
<1>12. HeapTyped(k, E \cup I)
  <2>1. IsFiniteSet(D \cup {r}) BY <1>3, FS_AddElement
  <2>2. S \cup {r} \subseteq Nat /\ S \cup {r} \subseteq D \cup {r} BY <1>3, <1>7
  <2> HIDE DEF S, D, E, I
  <2>3. HeapTyped(k, S \cup {r}) BY <1>3, <1>10, <2>1, <2>2, TypedOn
  <2> QED BY <1>11, <2>3
<1>13. Spread(k, E \cup I)
  <2>1. After(k, b) = r BY <1>10 DEF After, r
  <2>2. After(k, r) = After(h, b) /\ After(h, b) \in Nat /\ r < After(h, b)
    <3>1. After(k, r) = r + Header + s BY <1>10 DEF After
    <3>2. r + Header + s = b + Header + z BY <1>4, <1>5, <1>6 DEF r, HeapNumbers
    <3>3. After(h, b) = b + Header + z BY DEF After
    <3>4. b + Header + z \in Nat BY <1>4, <1>5 DEF HeapNumbers
    <3> QED BY <1>7, <3>1, <3>2, <3>3, <3>4
  <2>3. ASSUME NEW c \in S, c # b PROVE After(k, c) = After(h, c)
    <3>1. c \in D \ {b, r} BY <1>3, <1>8, <2>3
    <3> QED BY <1>10, <3>1 DEF After
  <2>4. ASSUME NEW c \in S PROVE c \in Nat /\ After(h, c) \in Nat /\ c < After(h, c)
    <3>1. c \in Nat /\ h[c].size \in Nat BY <1>3
    <3> QED BY <1>4, <3>1 DEF After, HeapNumbers
  <2>5. \A c \in S : After(h, c) <= HeapSize /\ \A d \in S : c < d => After(h, c) <= d
    BY <1>1 DEF Spread
  <2> DEFINE y == After(h, b)
  <2>6. y \in Nat /\ r \in Nat /\ b \in Nat /\ HeapSize \in Nat /\ b < r /\ r < y /\ y <= HeapSize
    BY <1>4, <1>5, <1>7, <2>2, <2>5 DEF HeapNumbers
  <2>7. ASSUME NEW c \in S \cup {r}
        PROVE  After(k, c) <= HeapSize /\ \A d \in S \cup {r} : c < d => After(k, c) <= d
    <3>1. CASE c = b
      <4>1. ASSUME NEW d \in S, b < d PROVE r <= d
        <5>1. y <= d /\ d \in Nat BY <1>5, <2>4, <2>5, <4>1
        <5> HIDE DEF y
        <5> QED BY <2>6, <5>1
      <4>2. r <= HeapSize /\ r <= r
        <5> HIDE DEF y
        <5> QED BY <2>6
      <4> QED BY <2>1, <3>1, <4>1, <4>2
    <3>2. CASE c = r
      <4>1. ASSUME NEW d \in S, r < d PROVE y <= d
        <5>1. b < d
          <6>1. d \in Nat BY <2>4
          <6> QED BY <2>6, <4>1, <6>1
        <5> QED BY <1>5, <2>5, <5>1
      <4>2. ~(r < r) BY <2>6
      <4> QED BY <2>2, <2>6, <3>2, <4>1, <4>2
    <3>3. CASE c # b /\ c # r
      <4> DEFINE x == After(h, c)
      <4>1. c \in S /\ After(k, c) = x /\ x <= HeapSize /\ c \in Nat /\ x \in Nat
            /\ \A d \in S : c < d => x <= d
        BY <2>3, <2>4, <2>5, <3>3
      <4> HIDE DEF x, y
      <4>2. ASSUME c < r PROVE x <= r
        <5>1. CASE c < b
          <6>1. x <= b BY <1>5, <4>1, <5>1
          <6> QED BY <2>6, <4>1, <6>1
        <5>2. CASE b < c
          <6>1. y <= c BY <1>5, <2>5, <4>1, <5>2 DEF y
          <6>2. FALSE BY <2>6, <4>1, <4>2, <6>1
          <6> QED BY <6>2
        <5> QED BY <2>6, <3>3, <4>1, <5>1, <5>2
      <4> QED BY <4>1, <4>2
    <3> QED BY <3>1, <3>2, <3>3
  <2> QED BY <1>11, <2>7 DEF Spread
<1>14. \A c \in E : k[c].is_free = TRUE
  <2>1. ASSUME NEW c \in L PROVE k[c].is_free = TRUE
    <3>1. h[c].is_free = TRUE BY <1>1
    <3> QED BY <1>10, <1>11, <3>1
  <2> QED BY <1>10, <2>1
<1>15. \A c \in I : k[c].is_free = FALSE
  <2>1. ASSUME NEW c \in G PROVE k[c].is_free = FALSE
    <3>1. h[c].is_free = FALSE BY <1>1
    <3> QED BY <1>10, <1>11, <3>1
  <2> QED BY <1>10, <2>1
<1>16. \A c \in L \cup G : k[c].size = h[c].size BY <1>10, <1>11
<1>17. /\ Booked(h, G) \in Nat
       /\ Booked(k, I) = Booked(h, G) + Header + n
  <2>1. k[b].size = n /\ \A c \in G : k[c].size = h[c].size BY <1>10, <1>16
  <2> QED BY <1>2, <1>11, <2>1, BookedMore
<1>18. /\ Booked(h, L) \in Nat /\ Booked(h, F) \in Nat
       /\ Booked(h, F) = Booked(h, L) + Header + z
  <2>1. h[b].size \in Nat /\ \A c \in F \ {b} : h[c].size = h[c].size BY <1>5
  <2> QED BY <1>2, <2>1, BookedLess
<1>19. Booked(k, E) = Booked(h, L) + Header + s
  <2>1. k[r].size = s /\ \A c \in L : k[c].size = h[c].size BY <1>10, <1>16
  <2>2. Costs(h, L)
    <3>1. L \in SUBSET S OBVIOUS
    <3> QED BY <1>1, <3>1, TypedPart
  <2> HIDE DEF E, L
  <2>3. Booked(k, L \cup {r}) = Booked(h, L) + Header + s
    <3>1. s \in Nat /\ r \notin L BY <1>6, <1>11
    <3> QED BY ONLY <2>1, <2>2, <3>1, BookedMore
  <2> QED BY <2>3 DEF E
<1>20. Booked(k, I) = u + Header + n /\ u \in Nat BY <1>1, <1>17
<1>21. u + Header + n + Booked(k, E) <= HeapSize
  <2> DEFINE x == Booked(k, E)
             y == Booked(h, F)
             w == Booked(h, L)
  <2>1. w \in Nat /\ y \in Nat /\ y = w + Header + z /\ u + y <= HeapSize /\ x = w + Header + s
    BY <1>1, <1>18, <1>19
  <2>2. Header \in Nat /\ HeapSize \in Nat BY <1>4 DEF HeapNumbers
  <2> HIDE DEF x, y, w, z
  <2>3. u + Header + n + x <= HeapSize BY <1>5, <1>6, <1>20, <2>1, <2>2
  <2> QED BY <2>3 DEF x
<1> HIDE DEF E, I
<1>22. Sound(k, E, I, u + Header + n)
  <2>1. E \cap I = {} BY <1>11
  <2> QED BY <1>10, <1>12, <1>13, <1>14, <1>15, <1>20, <1>21, <2>1 DEF Sound
<1> QED BY <1>22 DEF E, I, r

LEMMA AllocSound ==
  ASSUME NEW h, NEW F, NEW G, NEW u, Sound(h, F, G, u), NEW n \in Nat,
         Suits(h, n) # {}, NEW b, b = find_free_block(h, n), ~Overruns(h, b, n)
  PROVE  b \in F /\ \E E : Sound(Allocated(h, b, n), E, G \cup {b}, u + Header + n)
<1>1. HeapTyped(h, F \cup G) /\ Linked(h, F) BY DEF Sound
<1>2. HeapTyped(h, F) BY <1>1, TypedPart
<1>3. b \in F /\ h[b].size >= n BY <1>1, <1>2, FindIs
<1>4. h[b].size \in Nat BY <1>2, <1>3 DEF HeapTyped, HeapBlocks
<1>5. n <= h[b].size BY <1>3, <1>4
<1>6. CASE Splits(h, b, n) BY <1>3, <1>5, <1>6, AllocSplitSound
<1>7. CASE ~Splits(h, b, n) BY <1>3, <1>5, <1>7, AllocWholeSound
<1> QED BY <1>3, <1>6, <1>7

\* A block is put back on the list and merged with no other.
LEMMA FreeSound ==
  ASSUME NEW h, NEW F, NEW G, NEW u, Sound(h, F, G, u), NEW b \in G, ~Merges(h, b)
  PROVE  /\ u \in Nat /\ GivenBack(h, b) \in Nat
         /\ GivenBack(h, b) <= u /\ u <= HeapSize
         /\ Sound(Freed(h, b), F \cup {b}, G \ {b}, u - GivenBack(h, b))
<1> DEFINE S == F \cup G
           D == DOMAIN h
           z == h[b].size
           E == F \cup {b}
           I == G \ {b}
           k == add_to_free_list(h, b)
<1>1. /\ HeapTyped(h, S) /\ F \cap G = {} /\ Linked(h, F) /\ Spread(h, S)
      /\ \A c \in F : h[c].is_free = TRUE
      /\ \A c \in G : h[c].is_free = FALSE
      /\ u = Booked(h, G) /\ u + Booked(h, F) <= HeapSize
  BY DEF Sound
<1>2. HeapTyped(h, F) /\ Costs(h, F) /\ Costs(h, G) BY <1>1, TypedPart
<1>3. /\ S \subseteq D /\ IsFiniteSet(D) /\ Null \in D /\ S \subseteq Nat
      /\ \A c \in S : h[c].size \in Nat
  BY <1>1 DEF HeapTyped, HeapBlocks
<1>4. b \in D /\ b \in Nat /\ b \notin F /\ z \in Nat BY <1>1, <1>3
<1>5. AddedTo(k, h, F, b) BY <1>1, <1>2, <1>4, LinkedAdded
<1> HIDE DEF k
<1>6. /\ k \in HeapOn(D) /\ Linked(k, E)
      /\ \A c \in D : k[c].size = h[c].size /\ k[c].is_free = (c = b \/ h[c].is_free)
  BY <1>5 DEF AddedTo
<1>7. Freed(h, b) = k /\ GivenBack(h, b) = Header + z
  <2>1. h[b].is_free = FALSE BY <1>1
  <2>2. DOMAIN k = D BY <1>6 DEF HeapOn
  <2>3. \A c \in D : After(k, c) = After(h, c) BY <1>6 DEF After
  <2>4. Touching(k, b) = Touching(h, b) BY <1>4, <2>2, <2>3 DEF Touching
  <2>5. Stop(k, {Null} \cup Touching(h, b)) = Null BY <2>1 DEF Merges, k
  <2>6. merge_free_blocks(k, b) = k BY <2>4, <2>5 DEF merge_free_blocks
  <2> QED BY <2>1, <2>6 DEF Freed, GivenBack, k
<1>8. E \cup I = S /\ E \cap I = {} /\ I \in SUBSET G BY <1>1
<1>9. HeapTyped(k, E \cup I)
  <2> HIDE DEF S, D, E, I
  <2>1. HeapTyped(k, S) BY <1>3, <1>6, TypedOn
  <2> QED BY <1>8, <2>1
<1>10. Spread(k, E \cup I)
  <2>1. ASSUME NEW c \in S PROVE k[c].size \in Nat /\ k[c].size <= h[c].size
    <3>1. k[c].size = h[c].size /\ h[c].size \in Nat BY <1>3, <1>6
    <3> QED BY <3>1
  <2> QED BY <1>1, <1>8, <2>1, SpreadSmaller
<1>11. \A c \in E : k[c].is_free = TRUE BY <1>1, <1>3, <1>4, <1>6
<1>12. ASSUME NEW c \in I PROVE k[c].is_free = FALSE
  <2>1. c \in D /\ c # b /\ h[c].is_free = FALSE BY <1>1, <1>3
  <2>2. k[c].is_free = (c = b \/ h[c].is_free) BY <1>6, <2>1
  <2> QED BY <2>1, <2>2
<1>13. \A c \in S : k[c].size = h[c].size BY <1>3, <1>6
<1>14. /\ Booked(k, I) \in Nat /\ Booked(h, G) \in Nat
       /\ Booked(h, G) = Booked(k, I) + Header + z
  <2>1. h[b].size \in Nat /\ \A c \in G \ {b} : k[c].size = h[c].size BY <1>4, <1>13
  <2> QED BY <1>2, <2>1, BookedLess
<1>15. Booked(h, F) \in Nat /\ Booked(k, E) = Booked(h, F) + Header + z
  <2>1. k[b].size = z /\ \A c \in F : k[c].size = h[c].size BY <1>4, <1>13
  <2> HIDE DEF z
  <2> QED BY <1>2, <1>4, <2>1, BookedMore
<1> DEFINE x == Booked(k, I)
           y == Booked(h, G)
           w == Booked(h, F)
           v == Booked(k, E)
           g == GivenBack(h, b)
<1>16. /\ x \in Nat /\ y \in Nat /\ w \in Nat /\ y = x + Header + z /\ v = w + Header + z
       /\ u = y /\ u + w <= HeapSize /\ g = Header + z
  BY <1>1, <1>7, <1>14, <1>15
<1>17. Header \in Nat /\ HeapSize \in Nat BY HeapNumbersAre DEF HeapNumbers
<1> HIDE DEF x, y, w, v, g, z
<1>18. u \in Nat /\ g \in Nat /\ g <= u /\ u <= HeapSize /\ u - g = x /\ u - g + v <= HeapSize
  BY <1>4, <1>16, <1>17
<1> HIDE DEF E, I
<1>19. Sound(k, E, I, u - g)
  <2>1. E \cap I = {} BY <1>8
  <2> QED BY <1>6, <1>9, <1>10, <1>11, <1>12, <1>18, <2>1 DEF Sound, x, v
<1> QED BY <1>7, <1>18, <1>19 DEF E, I, g

-----------------------------------------------------------------------------
(***************************************************************************)
(* defrag: a free block takes up the one that the list leads to, when that *)
(* starts where it ends.                                                   *)
(***************************************************************************)
Join(h, c, n) == Set(Set(Set(h, c, "size", h[c].size + Header + h[n].size), c, "next", h[n].next),
                     h[n].next, "prev", c)

JoinOf(k, h, D, c, n) ==
  /\ k \in HeapOn(D)
  /\ \A d \in D : /\ k[d].is_free = h[d].is_free
                  /\ k[d].size = IF d = c THEN h[c].size + Header + h[n].size ELSE h[d].size
                  /\ k[d].next = IF d = c THEN h[n].next ELSE h[d].next
                  /\ k[d].prev = IF d = h[n].next THEN c ELSE h[d].prev

LEMMA JoinIs ==
  ASSUME NEW D, NEW h \in HeapOn(D), NEW c \in D, c \in Int, NEW n \in D, h[n].next \in D
  PROVE  JoinOf(Join(h, c, n), h, D, c, n)
<1> DEFINE v == h[c].size + Header + h[n].size
           m == h[n].next
           one == Set(h, c, "size", v)
           two == Set(one, c, "next", m)
           k == Set(two, m, "prev", c)
<1>1. v \in Nat /\ m \in Int /\ m \in D
  <2>1. h[c].size \in Nat /\ h[n].size \in Nat /\ m \in Int BY FieldTypes
  <2> QED BY <2>1, HeapNumbersAre DEF HeapNumbers
<1>2. Join(h, c, n) = k BY DEF Join
<1> HIDE DEF v, m
<1>3. SizeSet(one, h, D, c, v) BY <1>1, SetIs
<1>4. one \in HeapOn(D) BY <1>3 DEF SizeSet
<1> HIDE DEF one
<1>5. NextSet(two, one, D, c, m) BY <1>1, <1>4, SetIs
<1>6. two \in HeapOn(D) BY <1>5 DEF NextSet
<1> HIDE DEF two
<1>7. PrevSet(k, two, D, m, c) BY <1>1, <1>6, SetIs
<1> HIDE DEF k
<1>8. ASSUME NEW d \in D
      PROVE  /\ k[d].is_free = h[d].is_free
             /\ k[d].size = IF d = c THEN v ELSE h[d].size
             /\ k[d].next = IF d = c THEN m ELSE h[d].next
             /\ k[d].prev = IF d = m THEN c ELSE h[d].prev
  <2>1. /\ one[d].next = h[d].next /\ one[d].is_free = h[d].is_free /\ one[d].prev = h[d].prev
        /\ one[d].size = IF d = c THEN v ELSE h[d].size
    BY <1>3 DEF SizeSet
  <2>2. /\ two[d].size = one[d].size /\ two[d].is_free = one[d].is_free /\ two[d].prev = one[d].prev
        /\ two[d].next = IF d = c THEN m ELSE one[d].next
    BY <1>5 DEF NextSet
  <2>3. /\ k[d].size = two[d].size /\ k[d].is_free = two[d].is_free /\ k[d].next = two[d].next
        /\ k[d].prev = IF d = m THEN c ELSE two[d].prev
    BY <1>7 DEF PrevSet
  <2> QED BY <2>1, <2>2, <2>3
<1>9. k \in HeapOn(D) BY <1>7 DEF PrevSet
<1> QED BY <1>2, <1>8, <1>9 DEF JoinOf, v, m

LEMMA LinkedJoined ==
  ASSUME NEW h, NEW F, HeapTyped(h, F), Linked(h, F), NEW c \in F, NEW n \in F, n = h[c].next,
         NEW k, JoinOf(k, h, DOMAIN h, c, n)
  PROVE  Linked(k, F \ {n})
<1> DEFINE D == DOMAIN h
           m == h[n].next
           E == F \ {n}
<1>1. /\ h \in HeapOn(D) /\ F \subseteq D /\ F \subseteq Nat /\ Null \in D /\ Null \notin F
      /\ \A d \in F : Null < d
  BY DEF HeapTyped, HeapOn, Null
<1>2. /\ NextIn(F, c, n) /\ NextIn(F, n, m) /\ m \in F \cup {Null} BY DEF Linked, NextIn
<1>3. c < n /\ n # Null /\ c # n /\ m # n /\ c \in Nat /\ n \in Nat
  BY <1>1, <1>2 DEF NextIn
<1>4. \A d \in D : /\ k[d].next = IF d = c THEN m ELSE h[d].next
                   /\ k[d].prev = IF d = m THEN c ELSE h[d].prev
  BY DEF JoinOf
<1> HIDE DEF m, D
<1>5. ASSUME NEW d \in E \cup {Null} PROVE NextIn(E, d, k[d].next)
  <2>0. d \in D /\ d \in F \cup {Null} BY <1>1
  <2>1. CASE d = c
    <3>1. k[d].next = m BY <1>4, <2>0, <2>1
    <3>2. m \in E \cup {Null} BY <1>2, <1>3
    <3>3. m # Null => c < m
      <4>1. ASSUME m # Null PROVE c < m
        <5>1. m \in Nat /\ n < m BY <1>1, <1>2, <4>1 DEF NextIn
        <5> QED BY <1>3, <5>1
      <4> QED BY <4>1
    <3>4. ASSUME NEW e \in E, c < e PROVE m # Null /\ m <= e
      <4>1. n <= e /\ e \in Nat /\ e # n BY <1>1, <1>2, <3>4 DEF NextIn
      <4>2. n < e BY <1>3, <4>1
      <4> QED BY <1>2, <4>2 DEF NextIn
    <3> QED BY <2>1, <3>1, <3>2, <3>3, <3>4 DEF NextIn
  <2>2. CASE d # c
    <3>1. k[d].next = h[d].next /\ NextIn(F, d, h[d].next) BY <1>4, <2>0, <2>2 DEF Linked
    <3>2. h[d].next # n
      <4>1. ASSUME h[d].next = n PROVE FALSE
        <5>1. NextIn(F, d, n) BY <3>1, <4>1
        <5>2. d \in Int /\ d < n
          <6>1. d < n BY <1>3, <5>1 DEF NextIn
          <6>2. Null \in Int /\ F \subseteq Int BY <1>1 DEF Null
          <6>3. d \in Int BY ONLY <2>0, <6>2
          <6> QED BY <6>1, <6>3
        <5>3. c < d => d \in F
          <6>1. d = Null => ~(c < d) BY <1>3 DEF Null
          <6> QED BY <2>0, <6>1
        <5>4. d < c => n <= c BY <5>1 DEF NextIn
        <5>5. c < d => n <= d BY <1>2, <5>3 DEF NextIn
        <5> QED BY <1>3, <2>2, <5>2, <5>4, <5>5
      <4> QED BY <4>1
    <3> QED BY <3>1, <3>2 DEF NextIn
  <2> QED BY <2>1, <2>2
<1>6. ASSUME NEW d \in E PROVE k[d].prev \in E \cup {Null} /\ k[k[d].prev].next = d
  <2>0. d \in D /\ d \in F /\ d # n /\ d # Null /\ c \in D /\ c \in E BY <1>1, <1>3
  <2>1. CASE d = m
    <3>1. k[d].prev = c BY <1>4, <2>0, <2>1
    <3>2. k[c].next = m BY <1>4, <2>0
    <3> QED BY <2>0, <2>1, <3>1, <3>2
  <2>2. CASE d # m
    <3> DEFINE q == h[d].prev
    <3>1. k[d].prev = q BY <1>4, <2>0, <2>2
    <3>2. q \in F \cup {Null} /\ h[q].next = d BY <2>0 DEF Linked
    <3> HIDE DEF q
    <3>3. q # n /\ q # c BY <1>3, <2>0, <2>2, <3>2 DEF m
    <3>4. q \in D BY <1>1, <3>2
    <3>5. k[q].next = d BY <1>4, <3>2, <3>3, <3>4
    <3> QED BY <3>1, <3>2, <3>3, <3>5
  <2> QED BY <2>1, <2>2
<1> QED BY <1>5, <1>6 DEF Linked

LEMMA JoinSound ==
  ASSUME NEW h, NEW F, NEW G, NEW u, Sound(h, F, G, u), NEW c \in F, NEW n, n = h[c].next,
         n # Null, After(h, c) = n
  PROVE  /\ Join(h, c, n) \in HeapOn(DOMAIN h) /\ c \in F \ {n}
         /\ Sound(Join(h, c, n), F \ {n}, G, u)
<1> DEFINE S == F \cup G
           D == DOMAIN h
           E == F \ {n}
           k == Join(h, c, n)
           y == h[c].size
           z == h[n].size
<1>1. /\ HeapTyped(h, S) /\ F \cap G = {} /\ Linked(h, F) /\ Spread(h, S)
      /\ \A d \in F : h[d].is_free = TRUE
      /\ \A d \in G : h[d].is_free = FALSE
      /\ u = Booked(h, G) /\ u + Booked(h, F) <= HeapSize
  BY DEF Sound
<1>2. HeapTyped(h, F) /\ Costs(h, F) /\ Costs(h, G) BY <1>1, TypedPart
<1>3. /\ S \subseteq D /\ IsFiniteSet(D) /\ Null \in D /\ S \subseteq Nat
      /\ \A d \in S : h[d].size \in Nat
      /\ h \in HeapOn(D)
  BY <1>1 DEF HeapTyped, HeapBlocks, HeapOn
<1>4. NextIn(F, c, n) BY <1>1 DEF Linked
<1>5. n \in F /\ c < n BY <1>4 DEF NextIn
<1>6. h[n].next \in D
  <2>1. h[n].next \in F \cup {Null} BY <1>1, <1>5 DEF Linked, NextIn
  <2> QED BY <1>3, <2>1
<1>7. /\ c \in D /\ n \in D /\ c \in Nat /\ n \in Nat /\ y \in Nat /\ z \in Nat /\ c # n
      /\ n = c + Header + y
  <2>1. c \in D /\ n \in D /\ c \in Nat /\ n \in Nat /\ y \in Nat /\ z \in Nat BY <1>3, <1>5
  <2>2. n = c + Header + y BY DEF After
  <2> HIDE DEF y, z
  <2> QED BY <1>5, <2>1, <2>2
<1>8. JoinOf(k, h, D, c, n)
  <2> HIDE DEF D
  <2> QED BY <1>3, <1>6, <1>7, JoinIs
<1> HIDE DEF k
<1>9. Linked(k, E) BY <1>1, <1>2, <1>5, <1>8, LinkedJoined
<1>10. /\ k \in HeapOn(D)
       /\ \A d \in D : /\ k[d].is_free = h[d].is_free
                       /\ d # c => k[d].size = h[d].size
       /\ k[c].size = y + Header + z
  <2>1. c \in D BY <1>7
  <2> HIDE DEF D
  <2> QED BY <1>8, <2>1 DEF JoinOf
<1>11. E \cup G \subseteq S /\ c \in E /\ E \cap G = {} /\ c \notin G BY <1>1, <1>7
<1>12. HeapTyped(k, E \cup G)
  <2>1. E \cup G \in SUBSET D /\ E \cup G \subseteq Nat BY <1>3, <1>11
  <2> HIDE DEF S, D, E
  <2> QED BY <1>3, <1>10, <2>1, TypedOn
<1>13. Header \in Nat /\ Header > 0 /\ HeapSize \in Nat BY HeapNumbersAre DEF HeapNumbers
<1>14. Spread(k, E \cup G)
  <2>1. After(k, c) = After(h, n) /\ After(h, n) \in Nat /\ n < After(h, n)
    <3>1. After(k, c) = c + Header + (y + Header + z) BY <1>10 DEF After
    <3>2. After(h, n) = n + Header + z BY DEF After
    <3> HIDE DEF y, z
    <3> QED BY <1>7, <1>13, <3>1, <3>2
  <2>2. ASSUME NEW d \in S, d # c PROVE After(k, d) = After(h, d)
    <3>1. k[d].size = h[d].size BY <1>3, <1>10, <2>2
    <3> QED BY <3>1 DEF After
  <2>3. \A d \in S : After(h, d) <= HeapSize /\ \A e \in S : d < e => After(h, d) <= e
    BY <1>1 DEF Spread
  <2>4. ASSUME NEW d \in E \cup G
        PROVE  After(k, d) <= HeapSize /\ \A e \in E \cup G : d < e => After(k, d) <= e
    <3>0. d \in S /\ n \in S /\ c \in S BY <1>5
    <3>1. CASE d = c
      <4>1. ASSUME NEW e \in E \cup G, c < e PROVE After(h, n) <= e
        <5>1. e \in S /\ e \in Nat /\ e # n BY <1>1, <1>3, <1>5
        <5>2. n <= e BY <2>3, <3>0, <4>1, <5>1
        <5>3. n < e BY <1>7, <5>1, <5>2
        <5> QED BY <2>3, <3>0, <5>1, <5>3
      <4> QED BY <2>1, <2>3, <3>0, <3>1, <4>1
    <3>2. CASE d # c
      <4>1. \A e \in E \cup G : e \in S BY <1>11
      <4> QED BY <2>2, <2>3, <3>0, <3>2, <4>1
    <3> QED BY <3>1, <3>2
  <2> QED BY <2>4 DEF Spread
<1>15. \A d \in E : k[d].is_free = TRUE BY <1>1, <1>3, <1>10
<1>16. \A d \in G : k[d].is_free = FALSE BY <1>1, <1>3, <1>10
<1>17. Booked(k, G) = u
  <2>1. \A d \in G : k[d].size = h[d].size BY <1>3, <1>10, <1>11
  <2> QED BY <1>1, <1>2, <2>1, BookedSame
<1> DEFINE A == F \ {n}
           B == A \ {c}
<1>18. Costs(h, A) /\ Costs(h, B)
  <2>1. A \in SUBSET S /\ B \in SUBSET S OBVIOUS
  <2> QED BY <1>1, <2>1, TypedPart
<1>19. /\ Booked(h, A) \in Nat /\ Booked(h, F) \in Nat
       /\ Booked(h, F) = Booked(h, A) + Header + z
  <2>1. h[n].size \in Nat /\ \A d \in F \ {n} : h[d].size = h[d].size BY <1>7
  <2> QED BY <1>2, <1>5, <2>1, BookedLess
<1>20. /\ Booked(h, B) \in Nat
       /\ Booked(h, A) = Booked(h, B) + Header + y
  <2>1. h[c].size \in Nat /\ \A d \in A \ {c} : h[d].size = h[d].size /\ c \in A BY <1>7, <1>11
  <2> QED BY <1>11, <1>18, <2>1, BookedLess
<1>21. Booked(k, E) = Booked(h, B) + Header + (y + Header + z)
  <2>1. k[c].size = y + Header + z /\ y + Header + z \in Nat BY <1>7, <1>10, <1>13
  <2>2. \A d \in B : k[d].size = h[d].size BY <1>3, <1>10
  <2>3. c \notin B /\ E = B \cup {c} BY <1>11
  <2> HIDE DEF B, E, y, z
  <2>4. Booked(k, B \cup {c}) = Booked(h, B) + Header + (y + Header + z)
    BY ONLY <1>18, <2>1, <2>2, <2>3, BookedMore
  <2> QED BY <2>3, <2>4
<1>22. u + Booked(k, E) <= HeapSize
  <2> DEFINE a == Booked(k, E)
             f == Booked(h, F)
             g == Booked(h, A)
             b == Booked(h, B)
  <2>1. f = g + Header + z /\ g = b + Header + y /\ a = b + Header + (y + Header + z)
        /\ b \in Nat /\ u + f <= HeapSize
    BY <1>1, <1>19, <1>20, <1>21
  <2> HIDE DEF a, f, g, b, y, z
  <2>2. a = f BY <1>7, <1>13, <2>1
  <2> QED BY <2>1, <2>2 DEF a
<1> HIDE DEF E
<1>23. Sound(k, E, G, u)
  BY <1>9, <1>11, <1>12, <1>14, <1>15, <1>16, <1>17, <1>22 DEF Sound
<1> QED BY <1>10, <1>11, <1>23 DEF E, k

\* Where a pass of defrag can be: at a free block of a sound heap, or at the end.
Passes(D, G, u) == {p \in [h : HeapOn(D), at : Int] :
                      \E F : Sound(p.h, F, G, u) /\ p.at \in F \cup {Null}}

PassStep(p) ==
  LET c == p.at
      n == p.h[c].next
  IN  IF c = Null THEN p
      ELSE IF n # Null /\ After(p.h, c) = n THEN [h |-> Join(p.h, c, n), at |-> c]
      ELSE [p EXCEPT !.at = n]

LEMMA PassIs ==
  ASSUME NEW D, NEW G, NEW u, NEW x \in HeapOn(D), NEW F, Sound(x, F, G, u),
         NEW y \in F \cup {Null}
  PROVE  [h |-> x, at |-> y] \in Passes(D, G, u)
<1> DEFINE p == [h |-> x, at |-> y]
<1>1. F \subseteq Int /\ Null \in Int BY DEF Sound, HeapTyped, Null
<1>2. y \in Int BY <1>1
<1>3. p \in [h : HeapOn(D), at : Int] BY <1>2
<1>4. p.h = x /\ p.at = y OBVIOUS
<1> HIDE DEF p
<1> QED BY <1>3, <1>4 DEF Passes, p

LEMMA PassStays ==
  ASSUME NEW D, NEW G, NEW u, NEW p \in Passes(D, G, u)
  PROVE  PassStep(p) \in Passes(D, G, u)
<1> DEFINE x == p.h
           c == p.at
           n == x[c].next
<1>1. PICK F : Sound(x, F, G, u) /\ c \in F \cup {Null} BY DEF Passes
<1>2. x \in HeapOn(D) /\ p \in [h : HeapOn(D), at : Int] BY DEF Passes
<1>3. p = [h |-> x, at |-> c] /\ \A v : [p EXCEPT !.at = v] = [h |-> x, at |-> v] BY <1>2
<1>4. DOMAIN x = D BY <1>2 DEF HeapOn
<1>5. n \in F \cup {Null} BY <1>1 DEF Sound, Linked, NextIn
<1>6. PassStep(p) = IF c = Null THEN p
                    ELSE IF n # Null /\ After(x, c) = n THEN [h |-> Join(x, c, n), at |-> c]
                    ELSE [h |-> x, at |-> n]
  BY <1>3 DEF PassStep
<1> HIDE DEF x, c
<1>7. CASE c = Null BY <1>6, <1>7
<1>8. CASE c # Null /\ n # Null /\ After(x, c) = n
  <2>1. c \in F BY <1>1, <1>8
  <2>2. /\ Join(x, c, n) \in HeapOn(D) /\ c \in F \ {n}
        /\ Sound(Join(x, c, n), F \ {n}, G, u)
    BY <1>1, <1>4, <1>8, <2>1, JoinSound
  <2>3. [h |-> Join(x, c, n), at |-> c] \in Passes(D, G, u) BY <2>2, PassIs
  <2> QED BY <1>6, <1>8, <2>3
<1>9. CASE c # Null /\ ~(n # Null /\ After(x, c) = n)
  <2> HIDE DEF n
  <2>1. [h |-> x, at |-> n] \in Passes(D, G, u) BY <1>1, <1>2, <1>5, PassIs
  <2> QED BY <1>6, <1>9, <2>1
<1> QED BY <1>7, <1>8, <1>9

LEMMA DefragSound ==
  ASSUME NEW h, NEW F, NEW G, NEW u, Sound(h, F, G, u)
  PROVE  \E E : Sound(Defragmented(h), E, G, u)
<1> DEFINE D == DOMAIN h
           L == 2 * Longest(h)
           T == Passes(D, G, u)
           start == [h |-> h, at |-> h[Null].next]
           Step == [p \in T |-> PassStep(p)]
           V(a, i) == IF i = 0 THEN start
                      ELSE LET p == a[i - 1]
                               c == p.at
                               n == p.h[c].next
                           IN  IF c = Null THEN p
                               ELSE IF n # Null /\ After(p.h, c) = n
                               THEN [h |-> Set(Set(Set(p.h, c, "size", p.h[c].size + Header + p.h[n].size),
                                                   c, "next", p.h[n].next), p.h[n].next, "prev", c),
                                     at |-> c]
                               ELSE [p EXCEPT !.at = n]
           pass == CHOOSE a : a = [i \in 0 .. L |-> V(a, i)]
<1>1. HeapTyped(h, F) /\ Linked(h, F) BY TypedPart DEF Sound
<1>2. L \in Nat
  <2>1. Longest(h) \in Nat BY <1>1, WalkSteps
  <2> QED BY <2>1
<1>3. start \in T
  <2>1. h \in HeapOn(D) BY <1>1 DEF HeapTyped, HeapOn
  <2>2. h[Null].next \in F \cup {Null} BY <1>1 DEF Linked, NextIn
  <2> HIDE DEF D
  <2> QED BY <2>1, <2>2, PassIs
<1>4. Defragmented(h) = pass[L].h BY DEF Defragmented
<1>5. \A a, i : V(a, i) = IF i = 0 THEN start ELSE PassStep(a[i - 1]) BY DEF PassStep, Join
<1> HIDE DEF V, L, T, start
<1>6. PICK f : RunOf(f, L, T, start, Step)
  <2>1. Step \in [T -> T] BY PassStays DEF T
  <2> HIDE DEF Step
  <2> QED BY <1>2, <1>3, <2>1, Iterated
<1>7. f \in [0 .. L -> T] /\ f[0] = start /\ \A i \in 1 .. L : f[i] = PassStep(f[i - 1])
  <2>1. f \in [0 .. L -> T] /\ f[0] = start /\ \A i \in 1 .. L : f[i] = Step[f[i - 1]]
    BY <1>6 DEF RunOf
  <2>2. ASSUME NEW i \in 1 .. L PROVE f[i - 1] \in T BY <1>2, <2>1
  <2> QED BY <2>1, <2>2
<1>8. ASSUME NEW i \in 0 .. L PROVE f[i] = V(f, i)
  <2>1. CASE i = 0 BY <1>5, <1>7, <2>1
  <2>2. CASE i # 0
    <3>1. i \in 1 .. L BY <1>2, <2>2
    <3> QED BY <1>5, <1>7, <2>2, <3>1
  <2> QED BY <2>1, <2>2
<1>9. f = [i \in 0 .. L |-> V(f, i)] BY <1>7, <1>8
<1>10. pass = [i \in 0 .. L |-> V(pass, i)] BY <1>9
<1> HIDE DEF pass
<1> DEFINE Good == {i \in 0 .. L : pass[i] \in T}
<1>11. 0 \in Good BY <1>2, <1>3, <1>5, <1>10
<1>12. ASSUME NEW i \in 0 .. L, i > 0, i - 1 \in Good PROVE i \in Good
  <2>1. pass[i] = PassStep(pass[i - 1])
    <3>1. pass[i] = V(pass, i) BY <1>10
    <3>2. V(pass, i) = IF i = 0 THEN start ELSE PassStep(pass[i - 1]) BY <1>5
    <3>3. i # 0 BY <1>2, <1>12
    <3> QED BY <3>1, <3>2, <3>3
  <2>2. pass[i - 1] \in T BY <1>12
  <2>3. pass[i] \in T BY <2>1, <2>2, PassStays DEF T
  <2> QED BY <2>3
<1> HIDE DEF Good
<1>13. 0 .. L \subseteq Good BY <1>2, <1>11, <1>12, InductionTo
<1>14. pass[L] \in T BY <1>2, <1>13 DEF Good
<1>15. \E E : Sound(pass[L].h, E, G, u) BY <1>14 DEF T, Passes
<1> QED BY <1>4, <1>15

-----------------------------------------------------------------------------
(***************************************************************************)
(* The inductive invariant.  HeapApart speaks of the blocks that a walk of *)
(* the list meets; how the calls change the list can be said only of the   *)
(* set of free blocks itself, and heap_used stays what was granted because *)
(* the books have room for all blocks, so that nothing wraps round.        *)
(***************************************************************************)
HeapSound == \E F : Sound(header, F, granted, heap_used)

HeapInv == ~damaged => HeapSound

LEMMA EmptySound == Sound(Empty, {0}, {}, 0)
<1> DEFINE z == HeapSize - Header
           first == Block(z)
           root == [Block(0) EXCEPT !.next = 0]
<1>1. HeapNumbers BY HeapNumbersAre
<1>2. z \in Nat BY <1>1 DEF HeapNumbers
<1>3. first \in HeapBlocks /\ first.size = z /\ first.is_free = TRUE /\ first.next = Null /\ first.prev = Null
  <2>1. Null \in Int BY DEF Null
  <2> HIDE DEF z
  <2> QED BY <1>2, <2>1 DEF Block, HeapBlocks
<1>4. root \in HeapBlocks /\ root.next = 0
  <2>1. Block(0) \in HeapBlocks BY NewBlock
  <2> QED BY <2>1 DEF HeapBlocks
<1>5. Null # 0 /\ Null \in Int BY DEF Null
<1> HIDE DEF first, root
<1>6. Empty = [b \in {Null, 0} |-> IF b = Null THEN root ELSE first] BY DEF Empty, first, root
<1>7. Empty \in HeapOn({Null, 0}) /\ Empty[Null] = root /\ Empty[0] = first
  BY <1>3, <1>4, <1>5, <1>6 DEF HeapOn
<1> HIDE DEF z
<1>8. HeapTyped(Empty, {0})
  <2>1. IsFiniteSet({Null, 0})
    <3>1. IsFiniteSet({0}) BY FS_Singleton
    <3>2. {Null, 0} = {0} \cup {Null} OBVIOUS
    <3> QED BY <3>1, <3>2, FS_AddElement
  <2> QED BY <1>7, <2>1, TypedOn
<1>9. Linked(Empty, {0})
  <2>1. NextIn({0}, Null, 0) /\ NextIn({0}, 0, Null) BY <1>5 DEF NextIn, Null
  <2>2. Empty[Null].next = 0 /\ Empty[0].next = Null /\ Empty[0].prev = Null BY <1>3, <1>4, <1>7
  <2> QED BY <2>1, <2>2 DEF Linked
<1>10. Spread(Empty, {0})
  <2>1. After(Empty, 0) = HeapSize BY <1>1, <1>3, <1>7 DEF After, z, HeapNumbers
  <2> QED BY <1>1, <2>1 DEF Spread, HeapNumbers
<1>11. Booked(Empty, {0}) = HeapSize
  <2>1. Costs(Empty, {}) /\ Empty[0].size = z BY <1>3, <1>7, FS_EmptySet DEF Costs
  <2>2. Booked(Empty, {} \cup {0}) = Booked(Empty, {}) + Header + z
    BY <1>2, <2>1, BookedMore
  <2>3. {} \cup {0} = {0} OBVIOUS
  <2> QED BY <1>1, <2>2, <2>3, BookedEmpty DEF z, HeapNumbers
<1>12. {0} \cup {} = {0} OBVIOUS
<1>13. Booked(Empty, {}) = 0 /\ 0 + HeapSize <= HeapSize BY <1>1, BookedEmpty DEF HeapNumbers
<1>14. Empty[0].is_free = TRUE BY <1>3, <1>7
<1> QED BY <1>8, <1>9, <1>10, <1>11, <1>12, <1>13, <1>14 DEF Sound

LEMMA HeapInit_Inv == HeapInit => HeapInv
BY EmptySound DEF HeapInit, HeapInv, HeapSound

\* A sound heap gives its books as numbers inside the buffer.
LEMMA SoundBooks ==
  ASSUME NEW h, NEW F, NEW G, NEW u, Sound(h, F, G, u)
  PROVE  u \in Nat /\ u <= HeapSize
<1>1. HeapTyped(h, F \cup G) /\ u = Booked(h, G) /\ u + Booked(h, F) <= HeapSize BY DEF Sound
<1>2. Costs(h, F) /\ Costs(h, G) BY <1>1, TypedPart
<1> DEFINE a == Booked(h, F)
<1>3. u \in Nat /\ a \in Nat BY <1>1, <1>2, BookedTaken
<1>4. HeapSize \in Nat BY HeapNumbersAre DEF HeapNumbers
<1>5. u + a <= HeapSize BY <1>1
<1> HIDE DEF a
<1> QED BY <1>3, <1>4, <1>5

LEMMA HeapNext_Inv == HeapInv /\ [HeapNext]_heapVars => HeapInv'
<1> SUFFICES ASSUME HeapInv, [HeapNext]_heapVars, ~damaged' PROVE HeapSound'
  BY DEF HeapInv
<1>0. Requests \subseteq Nat /\ HeapNumbers BY HeapAssumption, HeapNumbersAre
<1>1. ASSUME NEW n \in Requests, HeapAlloc(n) PROVE HeapSound'
  <2> DEFINE b == find_free_block(header, n)
  <2>1. /\ Suits(header, n) # {} /\ header' = Allocated(header, b, n)
        /\ granted' = granted \cup {b} /\ ~damaged /\ ~Overruns(header, b, n)
        /\ heap_used' = heap_used + Header + n
    BY <1>1 DEF HeapAlloc
  <2>2. PICK F : Sound(header, F, granted, heap_used) BY <2>1 DEF HeapInv, HeapSound
  <2>3. n \in Nat BY <1>0
  <2>4. \E E : Sound(Allocated(header, b, n), E, granted \cup {b}, heap_used + Header + n)
    BY <2>1, <2>2, <2>3, AllocSound
  <2> HIDE DEF b
  <2> QED BY <2>1, <2>4 DEF HeapSound
<1>2. ASSUME NEW b \in granted, HeapFree(b) PROVE HeapSound'
  <2>1. /\ header' = Freed(header, b) /\ granted' = granted \ {b} /\ ~damaged /\ ~Merges(header, b)
        /\ heap_used' = (heap_used - GivenBack(header, b)) % Width
    BY <1>2 DEF HeapFree
  <2>2. PICK F : Sound(header, F, granted, heap_used) BY <2>1 DEF HeapInv, HeapSound
  <2> DEFINE g == GivenBack(header, b)
  <2>3. /\ heap_used \in Nat /\ g \in Nat /\ g <= heap_used /\ heap_used <= HeapSize
        /\ Sound(Freed(header, b), F \cup {b}, granted \ {b}, heap_used - g)
    BY <2>1, <2>2, FreeSound
  <2>4. heap_used' = heap_used - g
    <3>1. heap_used' = (heap_used - g) % Width BY <2>1
    <3> HIDE DEF g
    <3>2. heap_used - g \in Int /\ 0 <= heap_used - g /\ heap_used - g < Width
      BY <1>0, <2>3 DEF HeapNumbers
    <3>3. (heap_used - g) % Width = heap_used - g BY <1>0, <3>2, Modulo DEF HeapNumbers
    <3> QED BY <3>1, <3>3
  <2> HIDE DEF g
  <2> QED BY <2>1, <2>3, <2>4 DEF HeapSound
<1>3. ASSUME NEW b \in granted, NEW n \in Requests, HeapRealloc(b, n) PROVE HeapSound'
  <2> DEFINE c == find_free_block(header, n)
             new == Allocated(header, c, n)
             g == GivenBack(new, b)
  <2>1. /\ Suits(header, n) # {} /\ header' = Freed(new, b)
        /\ granted' = (granted \ {b}) \cup {c} /\ ~damaged
        /\ ~Overruns(header, c, n) /\ ~Merges(new, b)
        /\ heap_used' = (heap_used + Header + n - g) % Width
    BY <1>3 DEF HeapRealloc
  <2>2. PICK F : Sound(header, F, granted, heap_used) BY <2>1 DEF HeapInv, HeapSound
  <2>3. n \in Nat BY <1>0
  <2>4. c \in F /\ \E E : Sound(new, E, granted \cup {c}, heap_used + Header + n)
    BY <2>1, <2>2, <2>3, AllocSound
  <2>5. PICK E : Sound(new, E, granted \cup {c}, heap_used + Header + n) BY <2>4
  <2>6. c # b BY <2>2, <2>4 DEF Sound
  <2> HIDE DEF c, new
  <2> DEFINE w == heap_used + Header + n
  <2>7. /\ w \in Nat /\ g \in Nat /\ g <= w /\ w <= HeapSize
        /\ Sound(Freed(new, b), E \cup {b}, (granted \cup {c}) \ {b}, w - g)
    <3> HIDE DEF w
    <3> QED BY <2>1, <2>5, FreeSound DEF w
  <2>8. heap_used' = w - g
    <3>0. heap_used \in Nat /\ Header \in Nat BY <1>0, <2>2, SoundBooks DEF HeapNumbers
    <3>1. heap_used + Header + n - g = w - g
      <4> HIDE DEF g
      <4> QED BY <2>3, <2>7, <3>0
    <3>2. heap_used' = (heap_used + Header + n - g) % Width BY <2>1
    <3> HIDE DEF g, w
    <3>3. w - g \in Int /\ 0 <= w - g /\ w - g < Width BY <1>0, <2>7 DEF HeapNumbers
    <3>4. (w - g) % Width = w - g BY <1>0, <3>3, Modulo DEF HeapNumbers
    <3> QED BY <3>1, <3>2, <3>4
  <2>9. (granted \cup {c}) \ {b} = granted' BY <2>1, <2>6
  <2> HIDE DEF g, w
  <2> QED BY <2>1, <2>7, <2>8, <2>9 DEF HeapSound
<1>4. ASSUME HeapReset PROVE HeapSound' BY <1>4, EmptySound DEF HeapReset, HeapSound
<1>5. ASSUME HeapDefrag PROVE HeapSound'
  <2>1. header' = Defragmented(header) /\ UNCHANGED <<heap_used, granted, damaged>>
    BY <1>5 DEF HeapDefrag
  <2>2. PICK F : Sound(header, F, granted, heap_used) BY <2>1 DEF HeapInv, HeapSound
  <2>3. \E E : Sound(Defragmented(header), E, granted, heap_used) BY <2>2, DefragSound
  <2> QED BY <2>1, <2>3 DEF HeapSound
<1>6. ASSUME UNCHANGED heapVars PROVE HeapSound'
  BY <1>6 DEF heapVars, HeapInv, HeapSound
<1> QED BY <1>1, <1>2, <1>3, <1>4, <1>5, <1>6 DEF HeapNext

LEMMA SoundApart == HeapInv => HeapApart
<1> SUFFICES ASSUME NEW F, Sound(header, F, granted, heap_used)
             PROVE  /\ \A b, c \in OnList \cup granted :
                         /\ Extent(b) \subseteq 0 .. HeapSize - 1
                         /\ b # c => Extent(b) \cap Extent(c) = {}
                    /\ \A b \in OnList : /\ header[header[b].prev].next = b
                                         /\ header[b].is_free /\ b \notin granted
                    /\ heap_used = Booked(header, granted)
  BY DEF HeapInv, HeapSound, HeapApart
<1> DEFINE S == F \cup granted
<1>1. HeapTyped(header, S) /\ Linked(header, F) /\ Spread(header, S) /\ HeapTyped(header, F)
  BY TypedPart DEF Sound
<1>2. OnList = F BY <1>1, WalkMeetsAll DEF OnList
<1>3. ASSUME NEW b \in S PROVE b \in Nat /\ After(header, b) \in Nat /\ After(header, b) <= HeapSize
  <2>1. b \in Nat /\ header[b].size \in Nat BY <1>1 DEF HeapTyped, HeapBlocks
  <2>2. Header \in Nat BY HeapNumbersAre DEF HeapNumbers
  <2>3. After(header, b) \in Nat BY <2>1, <2>2 DEF After
  <2> QED BY <1>1, <2>1, <2>3 DEF Spread
<1>4. ASSUME NEW b \in S PROVE Extent(b) \subseteq 0 .. HeapSize - 1
  <2>1. HeapSize \in Nat BY HeapNumbersAre DEF HeapNumbers
  <2> DEFINE e == After(header, b)
  <2>2. b \in Nat /\ e \in Nat /\ e <= HeapSize BY <1>3
  <2> HIDE DEF e
  <2>3. b .. e - 1 \subseteq 0 .. HeapSize - 1 BY <2>1, <2>2
  <2> QED BY <2>3 DEF Extent, e
<1>5. ASSUME NEW b \in S, NEW c \in S, b < c PROVE Extent(b) \cap Extent(c) = {}
  <2> DEFINE e == After(header, b)
             d == After(header, c)
  <2>1. b \in Nat /\ c \in Nat /\ e \in Nat /\ d \in Nat /\ e <= c BY <1>1, <1>3, <1>5 DEF Spread
  <2> HIDE DEF e, d
  <2>2. (b .. e - 1) \cap (c .. d - 1) = {} BY <2>1
  <2> QED BY <2>2 DEF Extent, e, d
<1>6. ASSUME NEW b \in S, NEW c \in S, b # c PROVE Extent(b) \cap Extent(c) = {}
  <2>1. b \in Nat /\ c \in Nat BY <1>3
  <2>2. b < c \/ c < b BY <1>6, <2>1
  <2> QED BY <1>5, <2>2
<1>7. ASSUME NEW b \in F
      PROVE  header[header[b].prev].next = b /\ header[b].is_free /\ b \notin granted
  BY DEF Sound, Linked
<1> QED BY <1>2, <1>4, <1>6, <1>7 DEF Sound

(***************************************************************************)
(* Until a split overruns or a merge is made, blocks of the shared heap    *)
(* lie apart inside the buffer, whoever has them, the list leads both ways *)
(* and heap->used is what the granted blocks and their headers take.       *)
(***************************************************************************)
THEOREM HeapStaysApart == HeapSpec => []HeapApart
<1>1. HeapInit => HeapInv BY HeapInit_Inv
<1>2. HeapInv /\ [HeapNext]_heapVars => HeapInv' BY HeapNext_Inv
<1>3. HeapInv => HeapApart BY SoundApart
<1> QED BY <1>1, <1>2, <1>3, PTL DEF HeapSpec
=============================================================================
