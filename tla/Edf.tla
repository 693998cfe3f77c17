--------------------------------- MODULE Edf ---------------------------------
(***************************************************************************)
(* The writer, reader and schema registry of src/src/serialization/edf.c.  *)
(* A writer puts fields, each an id, a type and a value, into a buffer     *)
(* that is given or grows; values are scalars, byte strings, arrays and    *)
(* objects, these ended by a marker.  A reader of the data, which may be   *)
(* cut off, reads a field by the functions for its type or skips it.       *)
(***************************************************************************)
EXTENDS Wire, Bitwise

CONSTANTS EdfCapacities,  \* sizes of a buffer given, or grown from
          EdfIds,         \* field ids
          EdfFields,      \* fields written (a bound)
          Schemas, MaxSchemas  \* <<name, number>>; what the registry holds: 64

VARIABLES ew,      \* the writer: bytes, capacity, whether it grows; torn, spilled
          eput,    \* the fields written: id, type, value, start and stop
          elen, epos,  \* the reader's length, -1 before there is one; its position
          enext, egot, \* the field it stands at; what it got of the one before
          estray,      \* it skipped a field in a form skipping does not understand
          schemas      \* registered_schemas

edfVars == <<ew, eput, elen, epos, enext, egot, estray, schemas>>

Outcome(what) == [got |-> what]

EdfInit == /\ \E cap \in EdfCapacities, g \in BOOLEAN :
                ew = [buf |-> <<>>, cap |-> cap, grows |-> g, torn |-> FALSE, spilled |-> FALSE]
           /\ eput = <<>> /\ elen = -1 /\ epos = 0 /\ enext = 1 /\ egot = Outcome("nothing")
           /\ estray = FALSE /\ schemas = <<>>
-----------------------------------------------------------------------------
EndMarker == Byte - 1

\* The type bytes keep their codes.  Float goes as uint32, double as uint64,
\* string as bytes.
TypeCode == [null |-> 0, bool |-> 1, int8 |-> 2, int16 |-> 3, int32 |-> 4, int64 |-> 5,
             uint8 |-> 6, uint16 |-> 7, uint32 |-> 8, uint64 |-> 9, bytes |-> 13,
             array |-> 14, object |-> 15]

TypeAt(code) == {t \in DOMAIN TypeCode : TypeCode[t] = code}

WidthOf == [null |-> 0, bool |-> 1, int8 |-> 1, int16 |-> 2, int32 |-> 4, int64 |-> 8,
          uint8 |-> 1, uint16 |-> 2, uint32 |-> 4, uint64 |-> 8]

SignedTypes == {"int8", "int16", "int32", "int64"}

\* The values fields are made of: the ends of the ranges, and what can be skipped amiss.
EdfSamples ==
  [null |-> <<<<>>>>, bool |-> <<1>>, int8 |-> <<-4>>, uint8 |-> <<7>>, int16 |-> <<-32>>, uint16 |-> <<63>>,
   int32 |-> <<-1>>, uint32 |-> <<W32 - 1>>, int64 |-> <<5, -5, -1>>, uint64 |-> <<W32 - 1, W64 - 2>>,
   bytes |-> <<<<>>, <<7, 1>>>>,
   array |-> <<[of |-> "int16", items |-> <<-1, 31>>], [of |-> "bytes", items |-> <<<<7>>, <<>>>>],
               [of |-> "null", items |-> <<<<>>, <<>>>>]>>,
   object |-> <<[schema |-> 9, fields |-> <<[id |-> 1, type |-> "int8", value |-> -1],
                                            [id |-> 5, type |-> "bytes", value |-> <<7>>]>>],
                [schema |-> 9, fields |-> <<[id |-> 7, type |-> "uint8", value |-> 0]>>]>>]
-----------------------------------------------------------------------------
\* What the write functions put one after the other; only the content of byte
\* strings is put after a look at the room.
Unchecked(b) == <<[bytes |-> b, checked |-> FALSE]>>
Checked(b) == <<[bytes |-> b, checked |-> TRUE]>>

WriteScalar(t, v) == Unchecked(Fixed(v % (Byte^WidthOf[t]), WidthOf[t]))

FieldHeader(id, t) == Unchecked(Varint(id)) \o Unchecked(<<TypeCode[t]>>)

RECURSIVE Chunks(_, _)
Chunks(t, v) ==
  CASE t = "null" -> Unchecked(<<TypeCode["null"]>>)
    [] t = "bytes" -> Unchecked(Varint(Len(v))) \o Checked(v)
    [] t = "array" -> Unchecked(<<TypeCode["array"]>>) \o Unchecked(<<TypeCode[v.of]>>)
                      \o Unchecked(Varint(Len(v.items)))
                      \o FlattenSeq([i \in DOMAIN v.items |-> Chunks(v.of, v.items[i])])
    [] t = "object" -> Unchecked(<<TypeCode["object"]>>) \o Unchecked(Fixed(v.schema, 4))
                       \o FlattenSeq([i \in DOMAIN v.fields |->
                            FieldHeader(v.fields[i].id, v.fields[i].type)
                            \o Chunks(v.fields[i].type, v.fields[i].value)])
                       \o Unchecked(<<EndMarker>>)
    [] OTHER -> WriteScalar(t, v)

\* ensure_capacity, then the bytes; the memory for a larger buffer may lack.
Put(w, chunk, works) ==
  LET pos == Len(w.buf)
      n == Len(chunk.bytes)
      cap == IF pos + n <= w.cap \/ ~w.grows \/ ~works THEN w.cap ELSE Enlarged(w.cap, pos, n, 8)
      x == [w EXCEPT !.cap = cap]
  IN IF w.torn THEN w
     ELSE IF pos + n <= cap THEN [x EXCEPT !.buf = @ \o chunk.bytes]
     ELSE IF chunk.checked THEN [x EXCEPT !.torn = TRUE]
     ELSE [x EXCEPT !.buf = @ \o chunk.bytes, !.spilled = TRUE]

EdfWrite(id, t, v) ==
  /\ elen = -1 /\ Len(eput) < EdfFields /\ ~ew.torn
  /\ \E works \in (IF ew.grows THEN BOOLEAN ELSE {TRUE}) :
       ew' = FoldLeft(LAMBDA w, c : Put(w, c, works), ew, FieldHeader(id, t) \o Chunks(t, v))
  /\ eput' = IF ew'.torn THEN eput
             ELSE Append(eput, [id |-> id, type |-> t, value |-> v,
                                start |-> Len(ew.buf), stop |-> Len(ew'.buf)])
  /\ UNCHANGED <<elen, epos, enext, egot, estray, schemas>>

EdfReset == /\ elen = -1 /\ ew.buf # <<>>
            /\ ew' = [ew EXCEPT !.buf = <<>>, !.torn = FALSE]
            /\ eput' = <<>>
            /\ UNCHANGED <<elen, epos, enext, egot, estray, schemas>>

EdfReader == /\ elen = -1 /\ ~ew.spilled /\ eput # <<>>
             /\ elen' \in 0..Len(ew.buf)
             /\ UNCHANGED <<ew, eput, epos, enext, egot, estray, schemas>>

EdfSetPosition(i) == /\ elen >= 0 /\ i \in DOMAIN eput /\ i < enext
                     /\ eput[i].start <= elen
                     /\ epos' = eput[i].start /\ enext' = i /\ egot' = Outcome("nothing")
                     /\ estray' = FALSE
                     /\ UNCHANGED <<ew, eput, elen, schemas>>
-----------------------------------------------------------------------------
ReadId(pos) == LET r == ReadVarint(ew.buf, pos, elen, Groups32) IN [r EXCEPT !.value = @ % W32]
ReadLength(pos) == ReadVarint(ew.buf, pos, elen, Groups64)
ReadType(pos) == IF pos >= elen THEN NotRead(pos)
                 ELSE [ok |-> TRUE, pos |-> pos + 1, value |-> ew.buf[pos + 1]]

Extended(u) == (Signed(u, W32) + W64) % W64

\* The upper four bytes are shifted out of an int: by the count modulo 32, so that
\* they fall on the lower four, or to nothing.  The sign of the lower four spreads.
Read64(bytes, wraps) ==
  LET low == Unsigned(SubSeq(bytes, 1, 4))
      high == Unsigned(SubSeq(bytes, 5, 8))
  IN Extended(IF wraps THEN low | high ELSE low)

\* Mutant of ReadScalar: a number is taken as unsigned.
ReadScalarUnsigned(pos, t, wraps) ==
  LET r == ReadFixed(ew.buf, pos, elen, WidthOf[t])
  IN IF WidthOf[t] = 8 /\ r.ok THEN [r EXCEPT !.value = Read64(SubSeq(ew.buf, pos + 1, pos + 8), wraps)] ELSE r

ReadScalar(pos, t, wraps) ==
  LET r == ReadFixed(ew.buf, pos, elen, WidthOf[t])
      u == IF WidthOf[t] = 8 /\ r.ok THEN Read64(SubSeq(ew.buf, pos + 1, pos + 8), wraps) ELSE r.value
  IN [r EXCEPT !.value = IF ~r.ok THEN 0
                         ELSE IF t = "bool" THEN (IF u # 0 THEN 1 ELSE 0)
                         ELSE IF t \in SignedTypes THEN Signed(u, Byte^WidthOf[t]) ELSE u]

NotCopied(at) == [ok |-> FALSE, pos |-> at, value |-> 0, lacked |-> TRUE]

\* The bytes are copied, and memory lacks from a position on, at which the reader
\* then stays with the length read.
ReadBytes(pos, lacks) ==
  LET h == ReadLength(pos)
  IN IF ~h.ok \/ h.pos + h.value > elen THEN NotRead(h.pos)
     ELSE IF pos >= lacks THEN NotCopied(h.pos)
     ELSE [ok |-> TRUE, pos |-> h.pos + h.value, value |-> SubSeq(ew.buf, h.pos + 1, h.pos + h.value)]

\* A byte that must be there: a type repeated, the marker of an end.
Expect(pos, code) == LET r == ReadType(pos) IN [r EXCEPT !.ok = r.ok /\ r.value = code]

\* One read after another: r is what the earlier ones got, Op the next from where they ended.
Then(r, Op(_)) == IF ~r.ok THEN r
                  ELSE LET s == Op(r.pos) IN [s EXCEPT !.value = Append(r.value, s.value)]

Start(pos) == [ok |-> TRUE, pos |-> pos, value |-> <<>>]

ReadHeader(pos) == Then(Then(Start(pos), ReadId), ReadType)

\* The calls a reader makes that expects a value of the shape of v.
RECURSIVE ReadValue(_, _, _, _, _)
ReadValue(pos, t, v, wraps, lacks) ==
  CASE t = "null" -> [Expect(pos, TypeCode["null"]) EXCEPT !.value = <<>>]
    [] t = "bytes" -> ReadBytes(pos, lacks)
    [] t = "array" ->
         LET r == Then(Then(Then(Start(pos), LAMBDA p : Expect(p, TypeCode["array"])), ReadType), ReadLength)
             all == FoldLeft(LAMBDA got, item : Then(got, LAMBDA p : ReadValue(p, v.of, item, wraps, lacks)),
                             [r EXCEPT !.value = <<>>], v.items)
         IN IF all.ok THEN [all EXCEPT !.value = [of |-> CHOOSE x \in TypeAt(r.value[2]) : TRUE,
                                                  items |-> all.value]]
            ELSE all
    [] t = "object" ->
         LET r == Then(Then(Start(pos), LAMBDA p : Expect(p, TypeCode["object"])),
                       LAMBDA p : ReadScalar(p, "uint32", wraps))
             all == FoldLeft(LAMBDA got, f :
                               Then(got, LAMBDA p :
                                 LET h == ReadHeader(p)
                                 IN IF ~h.ok THEN h
                                    ELSE LET x == ReadValue(h.pos, f.type, f.value, wraps, lacks)
                                         IN [x EXCEPT !.value = [id |-> h.value[1], type |-> f.type, value |-> x.value]]),
                             [r EXCEPT !.value = <<>>], v.fields)
             end == Then(all, LAMBDA p : Expect(p, EndMarker))
         IN IF end.ok THEN [end EXCEPT !.value = [schema |-> r.value[2], fields |-> all.value]] ELSE end
    [] OTHER -> ReadScalar(pos, t, wraps)

Skipped(at) == [ok |-> TRUE, pos |-> at, value |-> 0]

\* Nothing looks whether the bytes passed over are there.
RECURSIVE SkipValue(_, _), SkipItems(_, _, _), SkipFields(_)
SkipValue(pos, t) ==
  CASE t \in DOMAIN WidthOf -> Skipped(pos + WidthOf[t])
    [] t = "bytes" -> LET h == ReadLength(pos) IN IF h.ok THEN Skipped(h.pos + h.value) ELSE h
    [] t = "array" ->
         LET r == Then(Then(Then(Start(pos), LAMBDA p : Expect(p, TypeCode["array"])), ReadType), ReadLength)
         IN IF r.ok THEN SkipItems(r.pos, TypeAt(r.value[2]), r.value[3]) ELSE r
    [] t = "object" ->
         LET r == Then(Then(Start(pos), LAMBDA p : Expect(p, TypeCode["object"])),
                       LAMBDA p : ReadScalar(p, "uint32", TRUE))
         IN IF r.ok THEN SkipFields(r.pos) ELSE r
    [] OTHER -> NotRead(pos)
SkipItems(pos, of, n) ==
  IF n = 0 THEN Skipped(pos)
  ELSE IF of = {} THEN NotRead(pos)
  ELSE LET r == SkipValue(pos, CHOOSE t \in of : TRUE) IN IF r.ok THEN SkipItems(r.pos, of, n - 1) ELSE r
SkipFields(pos) ==
  IF pos >= elen THEN Skipped(pos)
  ELSE IF ew.buf[pos + 1] = EndMarker THEN Skipped(pos + 1)
  ELSE LET h == ReadHeader(pos)
       IN IF ~h.ok \/ TypeAt(h.value[2]) = {} THEN NotRead(h.pos)
          ELSE LET r == SkipValue(h.pos, CHOOSE t \in TypeAt(h.value[2]) : TRUE)
               IN IF r.ok THEN SkipFields(r.pos) ELSE r

\* A caller goes on as long as the calls succeed.
EdfReadable == /\ elen >= 0 /\ enext \in DOMAIN eput
               /\ egot.got \notin {"failure", "no memory"} /\ ~estray

\* Header and value of the next field.
HeaderAndValue(f, wraps, lacks) ==
  Then(ReadHeader(epos), LAMBDA p : ReadValue(p, f.type, f.value, wraps, lacks))

\* Memory may lack from any place in a field that has bytes in it; how the shifts of
\* Read64 come out matters only if it does not.
Readings(f) ==
  {HeaderAndValue(f, wraps, elen) : wraps \in BOOLEAN}
  \cup {HeaderAndValue(f, TRUE, lacks) :
          lacks \in IF f.type \in {"bytes", "array", "object"} THEN epos..Min({f.stop, elen}) ELSE {}}

EdfRead ==
  /\ EdfReadable
  /\ \E r \in Readings(eput[enext]) :
       /\ epos' = r.pos
       /\ egot' = IF r.ok THEN [got |-> "field", id |-> r.value[1], type |-> TypeAt(r.value[2]), value |-> r.value[3]]
                  ELSE Outcome(IF "lacked" \in DOMAIN r THEN "no memory" ELSE "failure")
  /\ enext' = enext + 1
  /\ UNCHANGED <<ew, eput, elen, estray, schemas>>

\* What skipping does not understand: a null, which write_null puts down as a byte
\* and skipping takes for none, and an id that begins like the marker of an end.
RECURSIVE Plain(_, _)
Plain(t, v) ==
  CASE t = "null" -> FALSE
    [] t = "array" -> \A i \in DOMAIN v.items : Plain(v.of, v.items[i])
    [] t = "object" -> \A i \in DOMAIN v.fields : /\ Varint(v.fields[i].id)[1] # EndMarker
                                                  /\ Plain(v.fields[i].type, v.fields[i].value)
    [] OTHER -> TRUE

EdfSkip ==
  /\ EdfReadable
  /\ LET h == ReadHeader(epos)
         r == IF h.ok THEN SkipValue(h.pos, CHOOSE t \in TypeAt(h.value[2]) : TRUE) ELSE h
     IN epos' = r.pos /\ egot' = Outcome(IF r.ok THEN "skipped" ELSE "failure")
  /\ estray' = ~Plain(eput[enext].type, eput[enext].value)
  /\ enext' = enext + 1
  /\ UNCHANGED <<ew, eput, elen, schemas>>
-----------------------------------------------------------------------------
\* A full registry refuses even what it holds.
RegisterSchema(s) == /\ Len(schemas) < MaxSchemas
                     /\ schemas' = IF Contains(schemas, s) THEN schemas ELSE Append(schemas, s)
                     /\ UNCHANGED <<ew, eput, elen, epos, enext, egot, estray>>

GetSchemaByName(name) == {schemas[i] : i \in {j \in DOMAIN schemas :
                            schemas[j][1] = name /\ \A k \in 1..j - 1 : schemas[k][1] # name}}

\* The registry shares nothing with writer and reader: one or the other is moved.
EdfNext == \/ \E id \in EdfIds, t \in DOMAIN EdfSamples : \E i \in DOMAIN EdfSamples[t] :
                schemas = <<>> /\ EdfWrite(id, t, EdfSamples[t][i])
           \/ EdfReset \/ EdfReader \/ (\E i \in 1..EdfFields : EdfSetPosition(i))
           \/ EdfRead \/ EdfSkip
           \/ \E s \in Schemas : eput = <<>> /\ RegisterSchema(s)

EdfSpec == EdfInit /\ [][EdfNext]_edfVars
-----------------------------------------------------------------------------
\* A 64-bit integer survives if its upper half and the sign of the lower are nought.
Narrow(f) == f.type \in {"int64", "uint64"} => f.value \in 0..W32 \div 2 - 1

\* However fields are read and skipped, a field that is all in the data is read,
\* unless memory lacks for a copy, and is then the one written (64-bit integers of
\* more than 31 bits are not: edf.c:309); one skipped leaves the reader at the next,
\* but for nulls and for ids that look like the end of an object.  A copy that
\* found no memory leaves the reader inside the field.  A name answers with one
\* schema.
EdfReads ==
  /\ egot.got \in {"field", "skipped", "failure", "no memory"} =>
       LET f == eput[enext - 1]
       IN /\ egot.got = "field" => /\ f.stop <= elen /\ epos = f.stop
                                   /\ egot.id = f.id /\ egot.type = {f.type}
                                   /\ Narrow(f) => egot.value = f.value
          /\ egot.got = "skipped" /\ f.stop <= elen /\ ~estray => epos = f.stop
          /\ egot.got = "failure" => f.stop > elen \/ estray
          /\ egot.got = "no memory" => f.start < epos /\ epos <= Min({f.stop, elen})
  /\ \A name \in {s[1] : s \in Schemas} : Cardinality(GetSchemaByName(name)) <= 1
  /\ \A s \in ToSet(schemas) : GetSchemaByName(s[1]) # {}
=============================================================================
