----------------------------- MODULE MCLibraries -----------------------------
EXTENDS Libraries

\* Values at the ends of each range.
SampleSet == [bool |-> {0, 1}, uint32 |-> {W32 - 1}, int32 |-> {-(W32 \div 2)},
              sint32 |-> {W32 \div 2 - 1, -(W32 \div 2)}, uint64 |-> {4, W64 - 1}, int64 |-> {-1},
              sint64 |-> {W64 \div 2 - 1, -(W64 \div 2)}, fixed32 |-> {W32 - 1}, sfixed32 |-> {-1},
              fixed64 |-> {W64 - 1}, sfixed64 |-> {-(W64 \div 2)}, bytes |-> {<<>>, <<7, 0, 6>>}]

SchemaSet == {<<"a", 1>>, <<"a", 2>>, <<"b", 1>>}

EntitySet == {[a |-> 0, b |-> 1, name |-> 1], [a |-> 1, b |-> 2, name |-> 1], [a |-> 2, b |-> 2, name |-> 1]}
FilterSet == {<<>>, [property |-> "a", op |-> "ge", value |-> 1, quoted |-> FALSE],
              [property |-> "b", op |-> "ne", value |-> 1, quoted |-> FALSE],
              [property |-> "name", op |-> "eq", value |-> 1, quoted |-> TRUE]}
OrderingSet == {<<>>, <<<<"a", TRUE>>>>, <<<<"b", FALSE>>, <<"a", TRUE>>>>}

\* A heap that was damaged, a value freed twice and a buffer that was overrun are
\* checked but not followed any further.
Explored == ~damaged /\ ~freed_twice /\ ~pspilled /\ ~ew.spilled
=============================================================================
