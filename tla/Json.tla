-------------------------------- MODULE Json --------------------------------
(***************************************************************************)
(* The text side of src/src/serialization/json.c: the parser that turns a  *)
(* text into values, and the generator that writes values out.  The text   *)
(* is a sequence of tokens, each chosen as the parser comes to it; white   *)
(* space is left out.  A value is the sequence of the tokens it is written *)
(* with, and jlive counts the blocks allocated and not freed.              *)
(*                                                                         *)
(* The recursion of the C functions is the stack of containers begun.  One *)
(* parse is followed: what it returns is written into a buffer, fixed or   *)
(* growing, and destroyed.  Any allocation may fail.                       *)
(***************************************************************************)
EXTENDS SeqFunctions, SequencesExt

CONSTANTS MaxTokens,   \* tokens of a text (a bound)
          FirstItems,  \* the first capacity of a container: 8
          BufferSizes, \* capacities a generator starts with
          FirstBuffer  \* the capacity a generator grows to from none: 256

ASSUME JsonAssumption == /\ {FirstItems, FirstBuffer} \subseteq Nat \ {0}
                         /\ BufferSizes \subseteq Nat

VARIABLES jflags,  \* what the parse allows: "comments", "singles" (quotes)
          jat,     \* where the parser is, then "ok", "failed", "writing", "written", "gone"
          head,    \* the token at the position, TextEnd past the last one
          left,    \* how many tokens may still follow it
          text,    \* the tokens read so far, but for commas and comments
          stack,   \* the containers begun, the innermost last
          jroot,   \* the value returned
          jerror,  \* parser->error is set
          jlive,   \* blocks live
          jheld,   \* a failure met strings or finished containers
          gen      \* the generator

jsonVars == <<jflags, jat, head, left, text, stack, jroot, jerror, jlive, jheld, gen>>

TextEnd == "end"
\* Signs that not every prover takes in a string go by names.
LeftBrace == "{"
RightBrace == "}"
Comma == ","
Quote == "\""
Blank == " "
Indentation == "  "
Closer == [o \in {LeftBrace, "["} |-> IF o = LeftBrace THEN RightBrace ELSE "]"]
Closers == {RightBrace, "]"}
\* 's' and "s" are strings, 7 is any scalar, // a comment, /* one without an end, and
\* ? anything else.
Tokens == {LeftBrace, RightBrace, "[", "]", Comma, ":", "'s'", "\"s\"", "7", "//", "/*", "?"}
OneCharacter == {LeftBrace, RightBrace, "[", "]", Comma, ":", "7", "?", TextEnd}

Coming(n) == IF n = 0 THEN {TextEnd} ELSE Tokens \cup {TextEnd}

Advance == /\ head' \in Coming(left)
           /\ left' = IF head' = TextEnd THEN 0 ELSE left - 1

NoBuffer == [at |-> 1, pos |-> 0, cap |-> 0, grows |-> FALSE, pretty |-> FALSE,
             out |-> <<>>, dropped |-> FALSE, spilled |-> FALSE, starved |-> FALSE]

JsonInit == /\ jflags \in SUBSET {"comments", "singles"}
            /\ jat = "value" /\ head \in Coming(MaxTokens) /\ left = MaxTokens - 1
            /\ text = <<>> /\ stack = <<>> /\ jroot = <<>>
            /\ jerror = FALSE /\ jlive = 0 /\ jheld = FALSE
            /\ gen = NoBuffer
-----------------------------------------------------------------------------
Arrays(f) == IF f.cap = 0 THEN 0 ELSE IF f.kind = LeftBrace THEN 2 ELSE 1

\* The blocks a container begun gives back when it fails: what hangs on its
\* keys and items is not among them.
Given(f) == 1 + Arrays(f) + (IF f.kind = LeftBrace THEN 2 ELSE 1) * f.count
              + (IF f.key THEN 1 ELSE 0)

\* NULL is returned through the containers of s.  Of h blocks live, theirs go.
Fails(s, h, lost) ==
  /\ jat' = "failed"
  /\ jlive' = h - Total([i \in DOMAIN s |-> Given(s[i])])
  /\ jheld' = (lost \/ \E i \in DOMAIN text : text[i] \in Closers \cup {"'s'"})
  /\ stack' = <<>> /\ jroot' = <<>>

\* Mutant of Grown: the items are not copied.
GrownAnew(f) == IF f.count < f.cap THEN f
                ELSE [f EXCEPT !.cap = IF @ = 0 THEN FirstItems ELSE 2 * @, !.items = <<f.kind>>]

\* A container that is full gets arrays twice as long, to which its items are copied.
Grown(f) == IF f.count < f.cap THEN f ELSE [f EXCEPT !.cap = IF @ = 0 THEN FirstItems ELSE 2 * @]

WithItem(f, v) == [Grown(f) EXCEPT !.items = @ \o v, !.count = @ + 1, !.key = FALSE]

\* A finished value goes to the innermost container of s, as a key, which must
\* be a string, or as an item; with no container left it is the whole value.
\* A value that is refused, or finds no memory, is freed but not what hangs on it.
Deliver(v, s, h) ==
  IF s = <<>>
  THEN jat' = "rest" /\ jroot' = v /\ jlive' = h /\ UNCHANGED <<stack, jheld>>
  ELSE LET f == s[Len(s)]
           KeyDue == f.kind = LeftBrace /\ ~f.key
           Plain == v \in {<<"7">>, <<LeftBrace, RightBrace>>, <<"[", "]">>}
           With(g) == stack' = Append(Front(s), g) /\ UNCHANGED <<jroot, jheld>>
       IN \/ /\ KeyDue /\ v = <<"'s'">>
             /\ With([f EXCEPT !.items = @ \o v, !.key = TRUE])
             /\ jat' = "colon" /\ jlive' = h
          \/ /\ ~KeyDue
             /\ With(WithItem(f, v))
             /\ jat' = "separator" /\ jlive' = h + Arrays(Grown(f)) - Arrays(f)
          \/ /\ IF KeyDue THEN v # <<"'s'">> ELSE f.count = f.cap
             /\ Fails(s, h - 1, ~Plain)

\* After the value: on to the next token, or off with the rest of the text.
Onwards(t) == IF jat' = "failed" THEN head' = TextEnd /\ left' = 0 /\ text' = <<>>
              ELSE Advance /\ text' = Append(text, t)
-----------------------------------------------------------------------------
Skippable == jat \in {"value", "loop", "rest"} /\ "comments" \in jflags

SkipComment == /\ Skippable /\ head = "//"
               /\ Advance
               /\ UNCHANGED <<jflags, jat, text, stack, jroot, jerror, jlive, jheld, gen>>

\* A comment without an end is an error, but the last character is still read.
SkipUnended == /\ Skippable /\ head = "/*"
               /\ jerror' = TRUE
               /\ head' \in (IF left = 0 THEN {TextEnd} ELSE OneCharacter) /\ left' = 0
               /\ UNCHANGED <<jflags, jat, text, stack, jroot, jlive, jheld, gen>>

\* parse_value runs: for the call, after a colon, or for the next key or item.
Asked == /\ \/ jat = "value"
            \/ jat = "loop" /\ head \notin {TextEnd, Closer[stack[Len(stack)].kind]}
         /\ ~(Skippable /\ head \in {"//", "/*"})

BeginContainer == /\ Asked /\ head \in DOMAIN Closer
                  /\ stack' = Append(stack, [kind |-> head, items |-> <<head>>,
                                             count |-> 0, cap |-> 0, key |-> FALSE])
                  /\ jat' = "loop" /\ jlive' = jlive + 1
                  /\ Advance /\ text' = Append(text, head)
                  /\ UNCHANGED <<jflags, jroot, jerror, jheld, gen>>

\* At the end of the text a container is taken as finished, though with an error.
CloseContainer ==
  /\ jat = "loop"
  /\ LET f == stack[Len(stack)]
         Closed == Deliver(Append(f.items, Closer[f.kind]), Front(stack), jlive)
     IN \/ head = Closer[f.kind] /\ Closed /\ Onwards(head)
           /\ jerror' = (jerror \/ jat' = "failed")
        \/ head = TextEnd /\ Closed /\ jerror' = TRUE
           /\ text' = (IF jat' = "failed" THEN <<>> ELSE text) /\ UNCHANGED <<head, left>>
  /\ UNCHANGED <<jflags, gen>>

ParseNumber == /\ Asked /\ head = "7"
               /\ Deliver(<<"7">>, stack, jlive + 1) /\ Onwards("7")
               /\ jerror' = (jerror \/ jat' = "failed")
               /\ UNCHANGED <<jflags, gen>>

\* The test of the quote lets none but allowed single quotes through.
Quoted == IF "singles" \in jflags THEN {"'s'"} ELSE {}

ParseString == /\ Asked /\ head \in Quoted
               /\ Deliver(<<head>>, stack, jlive + 2) /\ Onwards(head)
               /\ jerror' = (jerror \/ jat' = "failed")
               /\ UNCHANGED <<jflags, gen>>

\* No value starts here, or there is no memory for it.
ParseFails == /\ Asked
              /\ Fails(stack, jlive, FALSE) /\ Onwards(head)
              /\ jerror' = TRUE
              /\ UNCHANGED <<jflags, gen>>

ExpectColon ==
  /\ jat = "colon"
  /\ IF head = ":"
     THEN /\ LET f == stack[Len(stack)]
             IN stack' = Append(Front(stack), [f EXCEPT !.items = Append(@, ":")])
          /\ jat' = "value" /\ UNCHANGED <<jroot, jerror, jlive, jheld>>
     ELSE Fails(stack, jlive, FALSE) /\ jerror' = TRUE
  /\ Onwards(":")
  /\ UNCHANGED <<jflags, gen>>

\* A comma is passed over; without one the loop goes on as well.
Separator == /\ jat = "separator"
             /\ jat' = "loop"
             /\ IF head = Comma THEN Advance ELSE UNCHANGED <<head, left>>
             /\ UNCHANGED <<jflags, text, stack, jroot, jerror, jlive, jheld, gen>>

\* The blocks of a value: structs, the buffers of strings, the arrays of containers.
BlocksAt(v, i) == CASE v[i] = "7" -> 1
                    [] v[i] = "'s'" -> 2
                    [] v[i] = LeftBrace -> IF v[i + 1] \in Closers THEN 1 ELSE 3
                    [] v[i] = "[" -> IF v[i + 1] \in Closers THEN 1 ELSE 2
                    [] OTHER -> 0

BlocksOf(v) == Total([i \in DOMAIN v |-> BlocksAt(v, i)])

ParseEnds == /\ jat = "rest" /\ ~(Skippable /\ head \in {"//", "/*"})
             /\ IF head = TextEnd
                THEN jat' = "ok" /\ UNCHANGED <<jroot, jlive, jerror>>
                ELSE /\ jat' = "failed" /\ jroot' = <<>> /\ jerror' = TRUE
                     /\ jlive' = jlive - BlocksOf(jroot)
             /\ UNCHANGED <<jflags, head, left, text, stack, jheld, gen>>
-----------------------------------------------------------------------------
GeneratorInit ==
  /\ jat = "ok" /\ jat' = "writing"
  /\ \E cap \in BufferSizes, g, p \in BOOLEAN :
       gen' = [NoBuffer EXCEPT !.cap = cap, !.grows = g, !.pretty = p]
  /\ UNCHANGED <<jflags, head, left, text, stack, jroot, jerror, jlive, jheld>>

\* Numbers and indents are written as strings, all else character by character.
Strings == {"7", Indentation}
SizeOf(c) == IF c = "7" THEN 3 ELSE IF c = Indentation THEN 2 ELSE 1

Doubled(g, n) == LET first == IF g.cap = 0 THEN FirstBuffer ELSE 2 * g.cap
                 IN Min({m \in {first * k : k \in {1, 2, 4, 8, 16, 32}} : g.pos + n < m})

\* Mutant of ensure_capacity: the terminator is forgotten.
EnsureTight(g, n, works) ==
  IF g.pos + n <= g.cap \/ ~g.grows THEN g
  ELSE IF works THEN [g EXCEPT !.cap = Doubled(g, n)] ELSE [g EXCEPT !.starved = TRUE]

ensure_capacity(g, n, works) ==
  IF g.pos + n < g.cap \/ ~g.grows THEN g
  ELSE IF works THEN [g EXCEPT !.cap = Doubled(g, n)] ELSE [g EXCEPT !.starved = TRUE]

\* A character that takes the last place puts its terminator behind the buffer.
WriteChar(g, c) == IF g.pos < g.cap
                   THEN [g EXCEPT !.out = Append(@, c), !.pos = @ + 1, !.spilled = @ \/ g.pos + 1 = g.cap]
                   ELSE [g EXCEPT !.dropped = TRUE]

WriteString(g, c) == IF g.pos + SizeOf(c) < g.cap
                     THEN [g EXCEPT !.out = Append(@, c), !.pos = @ + SizeOf(c)]
                     ELSE [g EXCEPT !.dropped = TRUE]

Written(g, c, works) == LET h == ensure_capacity(g, SizeOf(c), works)
                        IN IF c \in Strings THEN WriteString(h, c) ELSE WriteChar(h, c)

Level(v, i) == Cardinality({j \in 1..i : v[j] \in DOMAIN Closer}) - Cardinality({j \in 1..i : v[j] \in Closers})

Indent(v, i) == [k \in 1..Level(v, i) |-> Indentation]

\* What is written for the token at i, and before it.
Lead(v, i, fancy) ==
  IF i = 1 \/ v[i] = ":" \/ v[i - 1] = ":" THEN <<>>
  ELSE IF v[i] \in Closers THEN IF fancy THEN <<"\n">> \o Indent(v, i) ELSE <<>>
  ELSE (IF v[i - 1] \in DOMAIN Closer THEN <<>> ELSE IF fancy THEN <<Comma, "\n">> ELSE <<Comma>>)
       \o (IF fancy THEN Indent(v, i - 1) ELSE <<>>)

Body(t, fancy) == IF t = "'s'" THEN <<Quote, "s", Quote>>
                  ELSE IF t = ":" /\ fancy THEN <<":", Blank>>
                  ELSE IF t \in DOMAIN Closer /\ fancy THEN <<t, "\n">> ELSE <<t>>

\* The generator after it has written the pieces one after the other.
AllWritten(g, pieces, works) ==
  LET after[k \in 0..Len(pieces)] == IF k = 0 THEN g ELSE Written(after[k - 1], pieces[k], works)
  IN after[Len(pieces)]

Generate == /\ jat = "writing" /\ gen.at <= Len(jroot)
            /\ \E works \in (IF gen.grows THEN BOOLEAN ELSE {TRUE}) :
                 gen' = [AllWritten(gen, Lead(jroot, gen.at, gen.pretty) \o Body(jroot[gen.at], gen.pretty), works)
                         EXCEPT !.at = @ + 1]
            /\ jat' = IF gen.at = Len(jroot) THEN "written" ELSE jat
            /\ UNCHANGED <<jflags, head, left, text, stack, jroot, jerror, jlive, jheld>>

\* The buffer is used again, from its start, and may be told to write otherwise.
GeneratorReset ==
  /\ jat = "written" /\ jat' = "writing"
  /\ \E p \in BOOLEAN :
       gen' = [gen EXCEPT !.at = 1, !.pos = 0, !.out = <<>>, !.dropped = FALSE, !.pretty = p]
  /\ UNCHANGED <<jflags, head, left, text, stack, jroot, jerror, jlive, jheld>>

ParserDestroy == /\ jat = "written"
                 /\ jat' = "gone" /\ jroot' = <<>> /\ jlive' = jlive - BlocksOf(jroot)
                 /\ gen' = NoBuffer
                 /\ UNCHANGED <<jflags, head, left, text, stack, jerror, jheld>>
-----------------------------------------------------------------------------
JsonNext == \/ SkipComment \/ SkipUnended \/ BeginContainer \/ CloseContainer
            \/ ParseNumber \/ ParseString \/ ParseFails \/ ExpectColon
            \/ Separator \/ ParseEnds
            \/ GeneratorInit \/ Generate \/ GeneratorReset \/ ParserDestroy

JsonSpec == JsonInit /\ [][JsonNext]_jsonVars
-----------------------------------------------------------------------------
Parsed == jat \in {"rest", "ok", "writing", "written"}

\* The value returned holds what was read, each token in its place however the
\* containers grew, with closers added at most where the text ends early; its
\* blocks are the only ones live.  A failed parse leaves none, unless it met
\* strings or finished containers (their contents are lost: json.c:144-149).
JsonParsed == /\ Parsed => /\ IsPrefix(text, jroot)
                           /\ \A i \in Len(text) + 1..Len(jroot) : jroot[i] \in Closers
                           /\ Len(text) < Len(jroot) => jerror
                           /\ jlive = BlocksOf(jroot)
              /\ jat = "failed" /\ ~jheld => jlive = 0
              /\ jat = "gone" => jlive = 0

\* A buffer that may grow and finds the memory holds the whole value in the end:
\* nothing is left out, and no terminator is put behind the buffer.
JsonWritten ==
  /\ gen.grows /\ ~gen.starved => ~gen.dropped /\ ~gen.spilled
  /\ jat = "written" /\ ~gen.dropped
       => Picked(gen.out, {i \in DOMAIN gen.out : gen.out[i] \notin {Comma, "\n", Indentation, Blank, Quote}})
          = [i \in DOMAIN jroot |-> IF jroot[i] = "'s'" THEN "s" ELSE jroot[i]]

\* A value goes through whole: from the text read to the text written.
JsonExact == JsonParsed /\ JsonWritten

\* What tests/test_serialization.c:12 expects of a parse without flags: a string
\* in double quotes is read, given the memory.
DoubleQuotesRead == Asked /\ head = "\"s\"" => ENABLED ParseString
=============================================================================
