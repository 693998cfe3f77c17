-------------------------------- MODULE Pool --------------------------------
(***************************************************************************)
(* The fixed-size block pool of src/src/mm/pool.c.  The free list is kept  *)
(* in the free blocks themselves: the first word of a free block points to *)
(* the next one, and an allocated block is its owner's to write over.  One *)
(* caller at a time; owners return the blocks they have, once each.        *)
(***************************************************************************)
EXTENDS Integers, FiniteSets

CONSTANTS num_blocks,  \* blocks are numbered 1 .. num_blocks, 0 is NULL
          Data         \* what an owner writes into its block

ASSUME NumBlocksAssumption == num_blocks \in Nat \ {0} /\ Data \notin Nat

VARIABLES word,         \* block -> its first word
          bitmap,       \* the first free block (the field keeps its old name)
          free_blocks,  \* how many blocks are free
          owned         \* history: the blocks callers hold

poolVars == <<word, bitmap, free_blocks, owned>>

Blocks == 1 .. num_blocks

PoolInit == /\ word = [b \in Blocks |-> IF b < num_blocks THEN b + 1 ELSE 0]
            /\ bitmap = 1
            /\ free_blocks = num_blocks
            /\ owned = {}

\* Mutant of PoolAlloc: the list is advanced by position, not by the link.
AllocNextDoor == /\ free_blocks # 0
                 /\ bitmap' = IF bitmap < num_blocks THEN bitmap + 1 ELSE 0
                 /\ free_blocks' = free_blocks - 1
                 /\ owned' = owned \cup {bitmap}
                 /\ UNCHANGED word

\* mp_pool_alloc with a block to give; with none it returns NULL.
PoolAlloc == /\ free_blocks # 0
             /\ bitmap' = word[bitmap]
             /\ free_blocks' = free_blocks - 1
             /\ owned' = owned \cup {bitmap}
             /\ UNCHANGED word

PoolFree(b) == /\ b \in owned
               /\ word' = [word EXCEPT ![b] = bitmap]
               /\ bitmap' = b
               /\ free_blocks' = free_blocks + 1
               /\ owned' = owned \ {b}

\* The owner of a block writes over it, its first word included.
PoolUse(b) == /\ b \in owned
              /\ word' = [word EXCEPT ![b] = Data]
              /\ UNCHANGED <<bitmap, free_blocks, owned>>

PoolNext == PoolAlloc \/ \E b \in Blocks : PoolFree(b) \/ PoolUse(b)

PoolSpec == PoolInit /\ [][PoolNext]_poolVars
-----------------------------------------------------------------------------
\* Where the links lead in n steps from the first free block.
Place[n \in 0 .. num_blocks] ==
  IF n = 0 THEN bitmap ELSE IF Place[n - 1] \in Blocks THEN word[Place[n - 1]] ELSE 0

(***************************************************************************)
(* The links run through every block that nobody holds, each once, and     *)
(* end: alloc hands out no block twice and fails only when all are held.   *)
(***************************************************************************)
FreeListExact == /\ {Place[n] : n \in 0 .. num_blocks} \ {0} = Blocks \ owned
                 /\ Place[free_blocks] = 0
                 /\ free_blocks = num_blocks - Cardinality(owned)
=============================================================================
