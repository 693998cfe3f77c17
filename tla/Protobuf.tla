------------------------------ MODULE Protobuf ------------------------------
(***************************************************************************)
(* The Protocol Buffers writer and reader of                               *)
(* src/src/serialization/protobuf.c.  A writer puts fields, each a header  *)
(* and a value, into a buffer that is given or grows; a reader of some     *)
(* part of the buffer, which may end in the middle of a field, reads or    *)
(* skips them.  What was written is kept in fields, for comparison.        *)
(***************************************************************************)
EXTENDS Wire

CONSTANTS PbCapacities,  \* sizes of a buffer given, or grown from
          PbNumbers,     \* field numbers
          Samples,       \* the values written, by kind
          PbFields       \* fields written (a bound)

VARIABLES pbuf,     \* what was written, pbuf[1] first
          pcap, pgrows,  \* the buffer's capacity, and whether it can be had anew
          fields,   \* the fields written: number, kind, value, start and stop
          ptorn,    \* a field was left after its length, and so is what follows
          pspilled, \* bytes were written behind the buffer
          rlen, rpos,  \* the reader's length, -1 before there is one; its position
          rnext, rgot  \* the field it stands at, and what it got of the one before

pbVars == <<pbuf, pcap, pgrows, fields, ptorn, pspilled, rlen, rpos, rnext, rgot>>

Nothing == [got |-> "nothing"]
Failure == [got |-> "failure"]
NoCopy == [got |-> "no memory"]

PbInit == /\ pbuf = <<>> /\ pcap \in PbCapacities /\ pgrows \in BOOLEAN
          /\ fields = <<>> /\ ptorn = FALSE /\ pspilled = FALSE
          /\ rlen = -1 /\ rpos = 0 /\ rnext = 1 /\ rgot = Nothing

\* The functions by the wire type they write: enum goes as int32, double and
\* float as the fixed integers of their bits, string as bytes.
VARINT == 0
FIXED64 == 1
LENGTH_DELIMITED == 2
FIXED32 == 5

wire_type == [bool |-> VARINT, uint32 |-> VARINT, int32 |-> VARINT, sint32 |-> VARINT,
              uint64 |-> VARINT, int64 |-> VARINT, sint64 |-> VARINT,
              fixed32 |-> FIXED32, sfixed32 |-> FIXED32, fixed64 |-> FIXED64,
              sfixed64 |-> FIXED64, bytes |-> LENGTH_DELIMITED]

Kinds == DOMAIN wire_type

\* What the parameter of a function can hold.
InRange(kind, v) ==
  CASE kind = "bool" -> v \in {0, 1}
    [] kind \in {"uint32", "fixed32"} -> v \in 0..W32 - 1
    [] kind \in {"int32", "sint32", "sfixed32"} -> v \in -(W32 \div 2)..W32 \div 2 - 1
    [] kind \in {"uint64", "fixed64"} -> v \in 0..W64 - 1
    [] kind \in {"int64", "sint64", "sfixed64"} -> v \in -(W64 \div 2)..W64 \div 2 - 1
    [] OTHER -> v \in Seq(0..Byte - 1) /\ Len(v) < W64

ASSUME PbAssumption == /\ PbNumbers \subseteq 0..W32 - 1
                       /\ \A kind \in Kinds : \A v \in Samples[kind] : InRange(kind, v)
-----------------------------------------------------------------------------
zigzag(n) == IF n >= 0 THEN 2 * n ELSE -2 * n - 1
\* Mutant of unzigzag: the sign is not taken off.
UnzigzagHalf(u) == IF u % 2 = 0 THEN u \div 2 ELSE -(u \div 2)

unzigzag(u) == IF u % 2 = 0 THEN u \div 2 ELSE -((u + 1) \div 2)

Raw(kind, v) == CASE kind \in {"int32", "sfixed32"} -> v % W32
                  [] kind \in {"int64", "sfixed64"} -> v % W64
                  [] kind \in {"sint32", "sint64"} -> zigzag(v)
                  [] OTHER -> v

\* A 32-bit value is what is left of the varint when it is cut to 32 bits.
Cooked(kind, u) == CASE kind = "bool" -> (IF u # 0 THEN 1 ELSE 0)
                     [] kind = "uint32" -> u % W32
                     [] kind \in {"int32", "sfixed32"} -> Signed(u % W32, W32)
                     [] kind \in {"int64", "sfixed64"} -> Signed(u, W64)
                     [] kind = "sint32" -> unzigzag(u % W32)
                     [] kind = "sint64" -> unzigzag(u)
                     [] OTHER -> u

\* The field number loses what the shift of the 32-bit integer pushes out.
Tag(number, wire) == ((number * 8) % W32) + wire

Encoded(kind, v) == CASE wire_type[kind] = VARINT -> Varint(Raw(kind, v))
                      [] wire_type[kind] = FIXED32 -> Fixed(Raw(kind, v), 4)
                      [] wire_type[kind] = FIXED64 -> Fixed(Raw(kind, v), 8)
                      [] OTHER -> Varint(Len(v)) \o v

varint_size(v) == Len(Varint(v))
field_header_size(number, wire) == varint_size(Tag(number, wire))
length_delimited_size(number, n) == field_header_size(number, LENGTH_DELIMITED) + varint_size(n) + n

\* What a call asks ensure_capacity for before it writes n bytes.
NeededBy(kind) == CASE wire_type[kind] = FIXED32 -> 4 [] wire_type[kind] = FIXED64 -> 8 [] OTHER -> Groups64

\* After ensure_capacity for n bytes; the memory for a larger buffer may lack.
Grow(cap, pos, n, works) == IF pos + n <= cap \/ ~pgrows \/ ~works THEN cap
                            ELSE Enlarged(cap, pos, n, 8)
-----------------------------------------------------------------------------
\* Header and value of a field.  Nothing but the copying of bytes looks whether
\* there is room; varints and fixed integers go on behind the buffer's end.
WriteField(number, kind, v) ==
  /\ rlen = -1 /\ Len(fields) < PbFields /\ ~ptorn
  /\ \E works \in (IF pgrows THEN BOOLEAN ELSE {TRUE}) :
       LET header == Varint(Tag(number, wire_type[kind]))
           start == Len(pbuf)
           mid == start + Len(header)
           cap1 == Grow(pcap, start, Groups64, works)
           cap2 == Grow(cap1, mid, NeededBy(kind), works)
           size == IF kind = "bytes" THEN Varint(Len(v)) ELSE Encoded(kind, v)
           cap3 == IF kind = "bytes" THEN Grow(cap2, mid + Len(size), Len(v), works) ELSE cap2
           refused == kind = "bytes" /\ mid + Len(size) + Len(v) > cap3
           new == header \o (IF refused THEN size ELSE Encoded(kind, v))
       IN /\ pbuf' = pbuf \o new
          /\ pcap' = cap3
          /\ pspilled' = (pspilled \/ mid > cap1 \/ mid + Len(size) > cap2)
          /\ ptorn' = refused
          /\ fields' = IF refused THEN fields
                       ELSE Append(fields, [number |-> number, kind |-> kind, value |-> v,
                                            start |-> start, stop |-> start + Len(new)])
  /\ UNCHANGED <<pgrows, rlen, rpos, rnext, rgot>>

writer_reset == /\ rlen = -1 /\ pbuf # <<>>
                /\ pbuf' = <<>> /\ fields' = <<>> /\ ptorn' = FALSE
                /\ UNCHANGED <<pcap, pgrows, pspilled, rlen, rpos, rnext, rgot>>

\* A reader gets all of the data or a part.
reader_init == /\ rlen = -1 /\ ~pspilled /\ fields # <<>>
               /\ rlen' \in 0..Len(pbuf)
               /\ rpos' = 0 /\ rnext' = 1 /\ rgot' = Nothing
               /\ UNCHANGED <<pbuf, pcap, pgrows, fields, ptorn, pspilled>>

set_position(i) == /\ rlen >= 0 /\ i \in DOMAIN fields /\ i < rnext
                   /\ fields[i].start <= rlen
                   /\ rpos' = fields[i].start /\ rnext' = i /\ rgot' = Nothing
                   /\ UNCHANGED <<pbuf, pcap, pgrows, fields, ptorn, pspilled, rlen>>
-----------------------------------------------------------------------------
\* Mutant of read_varint: it stops at 32 bits.
ReadVarint32(pos) == ReadVarint(pbuf, pos, rlen, Groups32)

read_varint(pos) == ReadVarint(pbuf, pos, rlen, Groups64)

read_field_header(pos) == LET h == read_varint(pos)
                          IN [ok |-> h.ok, pos |-> h.pos, number |-> (h.value \div 8) % W32, wire |-> h.value % 8]

read_length_delimited(pos) ==
  LET h == read_varint(pos)
  IN IF ~h.ok \/ h.value > rlen - h.pos THEN NotRead(h.pos)
     ELSE [ok |-> TRUE, pos |-> h.pos + h.value, value |-> SubSeq(pbuf, h.pos + 1, h.pos + h.value)]

ReadWire(pos, wire) == CASE wire = VARINT -> read_varint(pos)
                         [] wire = FIXED32 -> ReadFixed(pbuf, pos, rlen, 4)
                         [] wire = FIXED64 -> ReadFixed(pbuf, pos, rlen, 8)
                         [] wire = LENGTH_DELIMITED -> read_length_delimited(pos)
                         [] OTHER -> NotRead(pos)

\* A caller goes on unless a call failed for the data; one that had no memory for
\* its copy has passed over the bytes.
PbReadable == rlen >= 0 /\ rnext \in DOMAIN fields /\ rgot.got # "failure"

\* The header is read, and the value by the function for the kind the caller expects.
ReadField ==
  /\ PbReadable
  /\ LET h == read_field_header(rpos)
         kind == fields[rnext].kind
         r == ReadWire(h.pos, wire_type[kind])
         Cut == rpos' = (IF h.ok THEN r.pos ELSE h.pos) /\ rgot' = Failure
         Whole == \/ rgot' = [got |-> "field", number |-> h.number,
                              value |-> IF kind = "bytes" THEN r.value ELSE Cooked(kind, r.value)]
                  \/ kind = "bytes" /\ rgot' = NoCopy
     IN IF h.ok /\ r.ok THEN rpos' = r.pos /\ Whole ELSE Cut
  /\ rnext' = rnext + 1
  /\ UNCHANGED <<pbuf, pcap, pgrows, fields, ptorn, pspilled, rlen>>

skip_unknown ==
  /\ PbReadable
  /\ LET h == read_field_header(rpos)
         r == IF h.ok THEN ReadWire(h.pos, h.wire) ELSE NotRead(h.pos)
     IN /\ rpos' = r.pos
        /\ rgot' = IF r.ok THEN [got |-> "field", number |-> h.number] ELSE Failure
  /\ rnext' = rnext + 1
  /\ UNCHANGED <<pbuf, pcap, pgrows, fields, ptorn, pspilled, rlen>>
-----------------------------------------------------------------------------
PbNext == \/ \E n \in PbNumbers, kind \in Kinds : \E v \in Samples[kind] : WriteField(n, kind, v)
          \/ writer_reset \/ reader_init \/ (\E i \in 1..PbFields : set_position(i))
          \/ ReadField \/ skip_unknown

PbSpec == PbInit /\ [][PbNext]_pbVars
-----------------------------------------------------------------------------
Expected(f) == IF wire_type[f.kind] = LENGTH_DELIMITED THEN length_delimited_size(f.number, Len(f.value))
               ELSE field_header_size(f.number, wire_type[f.kind]) + Len(Encoded(f.kind, f.value))

\* However fields are read and skipped, a call fails for the data exactly if part of
\* the field is not in them, and the position never passes their end.  Else the
\* reader stands at the next field, which is where the size functions tell, even
\* if the memory for a copy of the bytes lacked; and what is got is what was
\* written, but for what the tag cannot hold of the number.  (A field of a buffer
\* too small spills or is torn instead.)
PbReads == rlen >= 0 =>
  /\ rpos <= rlen
  /\ rgot # Nothing =>
       LET f == fields[rnext - 1]
       IN /\ (rgot.got = "failure") <=> ~(f.stop <= rlen)
          /\ rgot.got # "failure" => rpos = f.stop
          /\ rgot.got = "field" =>
               /\ rgot.number = f.number % (W32 \div 8)
               /\ ("value" \in DOMAIN rgot) => (rgot.value = f.value)
          /\ f.stop - f.start = Expected(f)
=============================================================================
