------------------------------ MODULE JsonTree ------------------------------
(***************************************************************************)
(* The value side of src/src/serialization/json.c: objects that are added  *)
(* to, looked up, removed from, copied and compared.  An object is the     *)
(* sequence of its pairs, which may repeat a key; a value is a number.     *)
(* Arrays are an object's values without the keys and take the same room.  *)
(*                                                                         *)
(* Two objects are worked on.  Beside them, queued keeps what each key of  *)
(* an object should answer: the values added under it, the oldest first.   *)
(* An allocation may fail in every call.  An addition that fails half way  *)
(* leaves its object with an array that is freed: it dangles, and no call  *)
(* on it has a meaning any more.  Of the memory, the strings of the keys   *)
(* are counted: every addition, and every pair copied, leaves one behind.  *)
(***************************************************************************)
EXTENDS Integers, SequencesExt

CONSTANTS Names, Numbers,
          FirstPairs,  \* the first capacity of an object: 8
          MaxPairs,    \* pairs of an object (a bound)
          MaxLost      \* keys left behind in a behaviour (a bound)

VARIABLES pairs,   \* pairs[o]: <<key, value>> of object o in order
          room,    \* room[o]: its capacity
          queued,  \* queued[o][k]: the values added as k and not removed
          twin,    \* object 2 was last made as a copy of object 1 as it is
          dangling,     \* the objects one of whose arrays is freed
          freed_twice,  \* a value was freed a second time
          key_blocks,   \* the strings of keys that are allocated
          lost          \* history: those nothing points to any more

memoryVars == <<dangling, freed_twice, key_blocks, lost>>
treeVars == <<pairs, room, queued, twin, memoryVars>>

Trees == {1, 2}

TreeInit == /\ pairs = [o \in Trees |-> <<>>] /\ room = [o \in Trees |-> 0]
            /\ queued = [o \in Trees |-> [k \in Names |-> <<>>]]
            /\ twin = TRUE
            /\ dangling = {} /\ freed_twice = FALSE /\ key_blocks = 0 /\ lost = 0
-----------------------------------------------------------------------------
At(o, k) == {i \in DOMAIN pairs[o] : pairs[o][i][1] = k}

\* Mutant of ObjectGet: the last pair answers.
ObjectGetLast(o, k) == {pairs[o][i][2] : i \in {j \in At(o, k) : \A n \in At(o, k) : n <= j}}

\* The value of the first pair with the key, as a set that may be empty.
ObjectGet(o, k) == {pairs[o][i][2] : i \in {j \in At(o, k) : \A n \in At(o, k) : j <= n}}

ObjectHas(o, k) == ObjectGet(o, k) # {}

ObjectKeys(o) == [i \in DOMAIN pairs[o] |-> pairs[o][i][1]]

MoreRoom(o) == IF Len(pairs[o]) < room[o] THEN room[o]
               ELSE IF room[o] = 0 THEN FirstPairs ELSE 2 * room[o]

\* A string of the key that nothing ever points to.
KeyLost(n) == lost' = lost + n /\ lost' <= MaxLost

\* The key is copied, twice, the value taken over, and both put behind the others.
ObjectAdd(o, k, v) ==
  /\ o \notin dangling
  /\ Len(pairs[o]) < MaxPairs
  /\ pairs' = [pairs EXCEPT ![o] = Append(@, <<k, v>>)]
  /\ room' = [room EXCEPT ![o] = MoreRoom(o)]
  /\ queued' = [queued EXCEPT ![o][k] = Append(@, v)]
  /\ twin' = FALSE
  /\ KeyLost(1) /\ key_blocks' = key_blocks + 2
  /\ UNCHANGED <<dangling, freed_twice>>

\* Both arrays are asked for at once.  If only one is had, it is freed again
\* though it has taken the place of the one the object still points to.
GrowthFails(o) == /\ Len(pairs[o]) = room[o]
                  /\ \/ UNCHANGED dangling
                     \/ room[o] > 0 /\ dangling' = dangling \cup {o}
                  /\ UNCHANGED room

KeyFails(o) == /\ room' = [room EXCEPT ![o] = MoreRoom(o)]
               /\ UNCHANGED dangling

ObjectAddFails(o) == /\ o \notin dangling
                     /\ GrowthFails(o) \/ KeyFails(o)
                     /\ KeyLost(1) /\ key_blocks' = key_blocks + 1
                     /\ UNCHANGED <<pairs, queued, twin, freed_twice>>

\* The first pair with the key goes, with its string, and those behind it move up.
ObjectRemove(o, k) ==
  /\ o \notin dangling
  /\ At(o, k) # {}
  /\ LET i == CHOOSE j \in At(o, k) : \A n \in At(o, k) : j <= n
     IN pairs' = [pairs EXCEPT ![o] = SubSeq(@, 1, i - 1) \o SubSeq(@, i + 1, Len(@))]
  /\ queued' = [queued EXCEPT ![o][k] = Tail(@)]
  /\ twin' = FALSE
  /\ key_blocks' = key_blocks - 1
  /\ UNCHANGED <<room, dangling, freed_twice, lost>>

\* The capacity after n additions to an empty object.
RoomFor(n) == IF n = 0 THEN 0
              ELSE Min({FirstPairs * 2^j : j \in {i \in 0..n : n <= FirstPairs * 2^i}})

\* Object 2 is dropped, freed unless it dangles, and becomes a copy of object 1.
\* The copies of the keys are copied once more, and left.
DeepCopy ==
  LET old == Len(pairs[2])
      new == Len(pairs[1])
  IN /\ 1 \notin dangling
     /\ pairs' = [pairs EXCEPT ![2] = pairs[1]]
     /\ room' = [room EXCEPT ![2] = RoomFor(new)]
     /\ queued' = [queued EXCEPT ![2] = queued[1]]
     /\ twin' = TRUE
     /\ dangling' = {}
     /\ IF 2 \in dangling
        THEN key_blocks' = key_blocks + 2 * new /\ KeyLost(new + old)
        ELSE key_blocks' = key_blocks + 2 * new - old /\ KeyLost(new)
     /\ UNCHANGED freed_twice

\* The copying stops after some pairs for lack of memory, or at a pair that could
\* not be added, whose value the addition has freed and the copying frees again.
DeepCopyFails == /\ 1 \notin dangling
                 /\ \E copied \in 0 .. Len(pairs[1]) - 1 :
                      KeyLost(copied) /\ key_blocks' = key_blocks + copied
                 /\ freed_twice' \in {freed_twice, TRUE}
                 /\ UNCHANGED <<pairs, room, queued, twin, dangling>>

\* Equal in number, and every key of a finds the same value in b.
Equal(a, b) == /\ Len(pairs[a]) = Len(pairs[b])
               /\ \A i \in DOMAIN pairs[a] : ObjectGet(b, pairs[a][i][1]) = {pairs[a][i][2]}
-----------------------------------------------------------------------------
TreeNext == \/ \E o \in Trees, k \in Names, v \in Numbers : ObjectAdd(o, k, v)
            \/ \E o \in Trees : ObjectAddFails(o)
            \/ \E o \in Trees, k \in Names : ObjectRemove(o, k)
            \/ DeepCopy \/ DeepCopyFails

TreeSpec == TreeInit /\ [][TreeNext]_treeVars
-----------------------------------------------------------------------------
OneEach(o) == \A k \in Names : Len(queued[o][k]) <= 1

(***************************************************************************)
(* Whatever was added, removed and copied, a key answers with the oldest   *)
(* value still under it, for both objects apart; a copy is equal to its    *)
(* original; and between objects without repeated keys equality means the  *)
(* same answer to every key (with repeated keys an object need not even    *)
(* equal itself: json.c:1552).  Nothing is said of an object that dangles  *)
(* since one of its two arrays could not grow (json.c:1257), nor of any    *)
(* after a copy that failed has freed a value twice (json.c:1494).  The    *)
(* keys of the objects are allocated, and beyond them exactly the strings  *)
(* that additions (json.c:1235) and copies (json.c:1483) leave behind.     *)
(***************************************************************************)
TreesAgree ==
  freed_twice
  \/ /\ \A o \in Trees \ dangling, k \in Names :
          /\ ObjectGet(o, k) = IF ObjectHas(o, k) THEN {Head(queued[o][k])} ELSE {}
          /\ Cardinality({i \in DOMAIN ObjectKeys(o) : ObjectKeys(o)[i] = k}) = Len(queued[o][k])
     /\ dangling = {} /\ OneEach(1) /\ OneEach(2)
          => /\ Equal(1, 2) <=> queued[1] = queued[2]
             /\ twin => Equal(1, 2) /\ Equal(2, 1)
     /\ key_blocks = Len(pairs[1]) + Len(pairs[2]) + lost
=============================================================================
