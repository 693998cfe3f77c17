--------------------------------- MODULE Tlsf ---------------------------------
(***************************************************************************)
(* The first-fit heap of src/src/mm/tlsf.c: a list of blocks in the order  *)
(* of their addresses, from which alloc splits what it hands out.  Nothing *)
(* marks a block as handed out, so that it can be split again; free does   *)
(* nothing but look at the header.                                         *)
(***************************************************************************)
EXTENDS Integers, SequencesExt, FiniteSetsExt

CONSTANTS TlsfSize,      \* the size of the pool
          BlockHeader,   \* sizeof(block_header_t)
          TlsfRequests   \* sizes asked for

\* mp_tlsf_init refuses a pool that does not hold a header.
ASSUME TlsfAssumption == /\ BlockHeader \in Nat \ {0}
                         /\ TlsfSize \in Nat /\ TlsfSize >= BlockHeader
                         /\ TlsfRequests \subseteq Nat

VARIABLES blocks,  \* the list: where a block's header is, and its size behind it
          lent,    \* history: the memory callers hold, as blocks
          asked    \* history: the sizes asked for

tlsfVars == <<blocks, lent, asked>>

TlsfInit == /\ blocks = <<[at |-> 0, size |-> TlsfSize - BlockHeader]>>
            /\ lent = {} /\ asked = {}
-----------------------------------------------------------------------------
Fitting(n) == {i \in DOMAIN blocks : blocks[i].size >= n + BlockHeader}

\* The block cut to n bytes, and the one made of its rest.
Split(b, n) == <<[b EXCEPT !.size = n], [at |-> b.at + BlockHeader + n, size |-> b.size - n - BlockHeader]>>

\* Mutant of TlsfAlloc: the rest is not made smaller by its header.
TlsfAllocLarge(n) ==
  /\ Fitting(n) # {}
  /\ LET i == Min(Fitting(n))
         s == Split(blocks[i], n)
     IN /\ blocks' = ReplaceAt(InsertAt(blocks, i + 1, [s[2] EXCEPT !.size = @ + BlockHeader]), i, s[1])
        /\ lent' = lent \cup {s[1]}
  /\ asked' = asked \cup {n}

TlsfAlloc(n) ==
  /\ Fitting(n) # {}
  /\ LET i == Min(Fitting(n))
         s == Split(blocks[i], n)
     IN /\ blocks' = ReplaceAt(InsertAt(blocks, i + 1, s[2]), i, s[1])
        /\ lent' = lent \cup {s[1]}
  /\ asked' = asked \cup {n}

TlsfRefuse(n) == /\ Fitting(n) = {}
                 /\ asked' = asked \cup {n}
                 /\ UNCHANGED <<blocks, lent>>

TlsfFree(b) == /\ b \in lent
               /\ lent' = lent \ {b}
               /\ UNCHANGED <<blocks, asked>>

TlsfNext == \/ \E n \in TlsfRequests : TlsfAlloc(n) \/ TlsfRefuse(n)
            \/ \E b \in lent : TlsfFree(b)

TlsfSpec == TlsfInit /\ [][TlsfNext]_tlsfVars
-----------------------------------------------------------------------------
Behind(b) == b.at + BlockHeader + b.size

\* The blocks fill the pool without gap or overlap, in the order of the list; and
\* as long as no size asked for is less than another by a header or more, no two
\* callers hold the same memory (the one asked for later else gets memory that is
\* held: tlsf.c:36).
TlsfApart == /\ blocks[1].at = 0 /\ Behind(Last(blocks)) = TlsfSize
             /\ \A i \in 2..Len(blocks) : blocks[i].at = Behind(blocks[i - 1])
             /\ (\A m, n \in asked : m < n + BlockHeader)
                  => \A b, c \in lent : b # c => Behind(b) <= c.at \/ Behind(c) <= b.at
=============================================================================
