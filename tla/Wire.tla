-------------------------------- MODULE Wire --------------------------------
(***************************************************************************)
(* How the two binary formats of src/src/serialization put numbers into    *)
(* bytes: varints and fixed widths.  Protobuf and Edf are built of it.     *)
(*                                                                         *)
(* A run scales bytes down: with a group of 4 values a byte has 3 bits in  *)
(* place of 8, and the integers of 4 and 8 bytes have 12 and 24 bits in    *)
(* place of 32 and 64.  A buffer is a sequence; a position is the number   *)
(* of bytes before it, as in the code.                                     *)
(***************************************************************************)
EXTENDS Integers, SequencesExt

CONSTANTS Group,     \* how many values a group of a varint has: 2^7
          Groups32,  \* the groups needed for 32 bits: 5
          Groups64   \* the groups needed for 64 bits: 10

Byte == 2 * Group
W16 == Byte * Byte
W32 == W16 * W16
W64 == W32 * W32

\* What is left of v after each of n shifts.
Shifted(v, n, by) == LET rest[k \in 0..n] == IF k = 0 THEN v ELSE rest[k - 1] \div by
                     IN rest

ASSUME WireAssumption == /\ {Group, Groups32, Groups64} \subseteq Nat \ {0} /\ Group > 1
                         /\ Shifted(W32 - 1, Groups32, Group)[Groups32] = 0
                         /\ Shifted(W64 - 1, Groups64, Group)[Groups64] = 0

\* The varint of v: the least group first, all but the last marked.
Varint(v) == LET rest == Shifted(v, Groups64, Group)
                 n == Min({k \in 1..Groups64 : rest[k] = 0})
             IN [i \in 1..n |-> (rest[i - 1] % Group) + (IF i < n THEN Group ELSE 0)]

\* The number that such pieces make, the least first.
Gathered(bytes, by) == FoldRight(LAMBDA b, v : (b % by) + by * v, bytes, 0)

NotRead(at) == [ok |-> FALSE, pos |-> at, value |-> 0]

\* Reading up to the first unmarked byte, which the end of the data or the limit
\* on the groups may forestall.  What was passed over stays passed over.
ReadVarint(buf, pos, len, limit) ==
  LET marks == {k \in 1..limit : pos + k <= len /\ buf[pos + k] < Group}
      n == Min(marks)
  IN IF marks = {} THEN NotRead(Min({Max({pos, len}), pos + limit}))
     ELSE [ok |-> TRUE, pos |-> pos + n,
           value |-> Gathered(SubSeq(buf, pos + 1, pos + n), Group) % W64]

\* n bytes, the least first.
Fixed(v, n) == [i \in 1..n |-> Shifted(v, n, Byte)[i - 1] % Byte]

Unsigned(bytes) == Gathered(bytes, Byte)

Signed(v, width) == IF v >= width \div 2 THEN v - width ELSE v

ReadFixed(buf, pos, len, n) ==
  IF pos + n > len THEN NotRead(pos)
  ELSE [ok |-> TRUE, pos |-> pos + n, value |-> Unsigned(SubSeq(buf, pos + 1, pos + n))]

\* The capacity a buffer gets that has no room for n bytes more.
Enlarged(cap, pos, n, first) ==
  LET from == IF cap = 0 THEN first ELSE 2 * cap
  IN Min({from * 2^k : k \in {j \in 0..5 : pos + n <= from * 2^j}})
=============================================================================
