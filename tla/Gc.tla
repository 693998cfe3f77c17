--------------------------------- MODULE Gc ---------------------------------
(***************************************************************************)
(* The garbage collector of src/src/mm/gc.c.  Objects carry a reference    *)
(* count and are linked on the list of their generation; a root is linked  *)
(* on the list of roots through the same two pointers.  A call is taken as *)
(* one step, though the critical sections around the counts are commented  *)
(* out.  mp_gc_collect marks the collector as running before it calls the  *)
(* collections, which then return at once: it changes nothing, and so the  *)
(* collection that an allocation starts at max_objects is not a step here. *)
(*                                                                         *)
(* A walk that meets itself never returns, and one that meets freed memory *)
(* is undefined: neither is a step.                                        *)
(***************************************************************************)
EXTENDS Integers, FiniteSets

CONSTANTS Objects, NoObject,
          MaxRefs  \* references to one object at most (a bound)

ASSUME ObjectsAssumption == IsFiniteSet(Objects) /\ NoObject \notin Objects
ASSUME MaxRefsAssumption == MaxRefs \in Nat \ {0}

VARIABLES live,        \* the objects allocated and not freed
          gnext, gprev,  \* an object's links
          refs,        \* an object's ref_count
          young,       \* the objects with MP_GC_FLAG_YOUNG
          marked,      \* those with MP_GC_FLAG_MARKED
          young_list, old_list, root_list,
          num_objects,
          rooted       \* history: the objects added as roots and not removed

gcVars == <<live, gnext, gprev, refs, young, marked,
            young_list, old_list, root_list, num_objects, rooted>>

GcInit == /\ live = {} /\ young = {} /\ marked = {} /\ rooted = {}
          /\ gnext = [o \in Objects |-> NoObject]
          /\ gprev = [o \in Objects |-> NoObject]
          /\ refs = [o \in Objects |-> 0]
          /\ young_list = NoObject /\ old_list = NoObject /\ root_list = NoObject
          /\ num_objects = 0

\* A link of an object set, if there is an object.
Link(links, o, to) == IF o = NoObject THEN links ELSE [links EXCEPT ![o] = to]
-----------------------------------------------------------------------------
Alloc(o) == /\ o \notin live
            /\ live' = live \cup {o}
            /\ refs' = [refs EXCEPT ![o] = 1]
            /\ young' = young \cup {o}
            /\ marked' = marked \ {o}
            /\ gnext' = [gnext EXCEPT ![o] = young_list]
            /\ gprev' = Link([gprev EXCEPT ![o] = NoObject], young_list, o)
            /\ young_list' = o
            /\ num_objects' = num_objects + 1
            /\ UNCHANGED <<old_list, root_list, rooted>>

IncRef(o) == /\ o \in live
             /\ refs[o] < MaxRefs
             /\ refs' = [refs EXCEPT ![o] = @ + 1]
             /\ UNCHANGED <<live, gnext, gprev, young, marked,
                            young_list, old_list, root_list, num_objects, rooted>>

\* Mutant of Unlist: the object after the one freed keeps pointing back at it.
UnlistForward(o) == /\ gnext' = Link(gnext, gprev[o], gnext[o])
                    /\ gprev' = gprev
                    /\ young_list' = IF gprev[o] = NoObject /\ o \in young
                                     THEN gnext[o] ELSE young_list
                    /\ old_list' = IF gprev[o] = NoObject /\ o \notin young
                                   THEN gnext[o] ELSE old_list

\* An object freed leaves the list of its generation.
Unlist(o) == /\ gnext' = Link(gnext, gprev[o], gnext[o])
             /\ gprev' = Link(gprev, gnext[o], gprev[o])
             /\ young_list' = IF gprev[o] = NoObject /\ o \in young
                              THEN gnext[o] ELSE young_list
             /\ old_list' = IF gprev[o] = NoObject /\ o \notin young
                            THEN gnext[o] ELSE old_list

\* mp_gc_free, by the holder of the last reference or by mp_gc_decref.
Free(o) == /\ o \in live \ rooted
           /\ refs[o] = 1
           /\ {gprev[o], gnext[o]} \subseteq live \cup {NoObject}
           /\ Unlist(o)
           /\ live' = live \ {o}
           /\ num_objects' = num_objects - 1
           /\ refs' = [refs EXCEPT ![o] = 0]
           /\ UNCHANGED <<young, marked, root_list, rooted>>

\* mp_gc_decref that leaves a reference; the last one frees.
DecRef(o) == /\ o \in live
             /\ refs[o] > 1
             /\ refs' = [refs EXCEPT ![o] = @ - 1]
             /\ UNCHANGED <<live, gnext, gprev, young, marked,
                            young_list, old_list, root_list, num_objects, rooted>>

RefStep == \E o \in Objects : Alloc(o) \/ IncRef(o) \/ DecRef(o) \/ Free(o)

GcRefsSpec == GcInit /\ [][RefStep]_gcVars
-----------------------------------------------------------------------------
AddRoot(o) == /\ o \in live \ rooted
              /\ gnext' = [gnext EXCEPT ![o] = root_list]
              /\ gprev' = [Link(gprev, root_list, o) EXCEPT ![o] = NoObject]
              /\ root_list' = o
              /\ rooted' = rooted \cup {o}
              /\ UNCHANGED <<live, refs, young, marked, young_list, old_list, num_objects>>

RemoveRoot(o) ==
  /\ o \in rooted
  /\ gnext' = [Link(gnext, gprev[o], gnext[o]) EXCEPT ![o] = NoObject]
  /\ gprev' = [Link(gprev, gnext[o], gprev[o]) EXCEPT ![o] = NoObject]
  /\ root_list' = IF gprev[o] = NoObject THEN gnext[o] ELSE root_list
  /\ rooted' = rooted \ {o}
  /\ UNCHANGED <<live, refs, young, marked, young_list, old_list, num_objects>>

\* Where some links lead in n steps from a head, and what is met on the way.
Way(head, links) ==
  LET way[n \in 0 .. Cardinality(Objects)] ==
        IF n = 0 THEN head ELSE IF way[n - 1] = NoObject THEN NoObject ELSE links[way[n - 1]]
  IN  way

Met(head, links) == {Way(head, links)[n] : n \in 0 .. Cardinality(Objects)} \ {NoObject}

Walkable(head, links, alive) == /\ Way(head, links)[Cardinality(Objects)] = NoObject
                                /\ Met(head, links) \subseteq alive

\* Sweeping a list frees what is not marked and clears the marks of the rest;
\* only forward links are mended.
Swept(head, links, marks) ==
  LET way == Way(head, links)
      kept == Met(head, links) \cap marks
      FirstFrom(n) == IF \E i \in DOMAIN way : i >= n /\ way[i] \in kept
                      THEN way[CHOOSE i \in DOMAIN way :
                                 /\ i >= n /\ way[i] \in kept
                                 /\ \A j \in DOMAIN way : n <= j /\ j < i => way[j] \notin kept]
                      ELSE NoObject
      After(o) == FirstFrom(1 + CHOOSE i \in DOMAIN way : way[i] = o)
  IN  [head |-> FirstFrom(0),
       links |-> [o \in Objects |-> IF o \in kept THEN After(o) ELSE links[o]],
       freed |-> Met(head, links) \ kept,
       marks |-> marks \ kept]

CollectFull ==
  LET marks == marked \cup Met(root_list, gnext)
      first == Swept(young_list, gnext, marks)
      second == Swept(old_list, first.links, first.marks)
  IN  /\ Walkable(root_list, gnext, live)
      /\ Walkable(young_list, gnext, live)
      /\ Walkable(old_list, first.links, live \ first.freed)
      /\ live' = live \ (first.freed \cup second.freed)
      /\ gnext' = second.links
      /\ young_list' = first.head
      /\ old_list' = second.head
      /\ marked' = second.marks
      /\ num_objects' = num_objects - Cardinality(first.freed \cup second.freed)
      /\ UNCHANGED <<gprev, refs, young, root_list, rooted>>

\* promote_young moves the young list to the front of the old one, reversed.
CollectYoung ==
  LET swept == Swept(young_list, gnext, marked \cup (Met(root_list, gnext) \cap young))
      way == Way(swept.head, swept.links)
      moved == Met(swept.head, swept.links)
      Place(o) == CHOOSE n \in DOMAIN way : way[n] = o
  IN  /\ Walkable(root_list, gnext, live)
      /\ Walkable(young_list, gnext, live)
      /\ moved # {} /\ old_list # NoObject => old_list \in live \ swept.freed
      /\ live' = live \ swept.freed
      /\ gnext' = [o \in Objects |-> IF o \notin moved THEN swept.links[o]
                                     ELSE IF Place(o) = 0 THEN old_list
                                     ELSE way[Place(o) - 1]]
      /\ gprev' = [o \in Objects |-> IF o \in moved THEN swept.links[o]
                                     ELSE IF o = old_list /\ moved # {} THEN swept.head
                                     ELSE gprev[o]]
      /\ old_list' = IF moved = {} THEN old_list ELSE CHOOSE o \in moved : swept.links[o] = NoObject
      /\ young_list' = NoObject
      /\ young' = young \ moved
      /\ marked' = swept.marks
      /\ num_objects' = num_objects - Cardinality(swept.freed)
      /\ UNCHANGED <<refs, root_list, rooted>>

GcNext == \/ RefStep
          \/ \E o \in Objects : AddRoot(o) \/ RemoveRoot(o)
          \/ CollectFull
          \/ CollectYoung

GcSpec == GcInit /\ [][GcNext]_gcVars
-----------------------------------------------------------------------------
(***************************************************************************)
(* With references alone, the young list holds exactly the objects that    *)
(* are allocated, each once, its links mirror each other, and num_objects  *)
(* counts it, in whatever order the references are dropped.                *)
(***************************************************************************)
GenerationExact ==
  /\ Walkable(young_list, gnext, live)
  /\ Met(young_list, gnext) = live
  /\ \A o \in live : /\ gnext[o] # NoObject => gprev[gnext[o]] = o
                     /\ gprev[o] = NoObject <=> o = young_list
  /\ num_objects = Cardinality(live)

\* "Roots are objects that are always considered live." (gc.h:212)
RootsSurvive == rooted \subseteq live
=============================================================================
