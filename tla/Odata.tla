-------------------------------- MODULE Odata --------------------------------
(***************************************************************************)
(* The service of src/src/serialization/odata.c: the properties of an      *)
(* entity type, an entity set with its data, and the response to a         *)
(* request for it, which filters, orders and pages the data in the steps   *)
(* of mp_odata_generate_response.  Allocations of arrays and copies may    *)
(* fail; most failures are passed over.  Memory for names and options, and *)
(* for a type and its properties, is assumed.  An entity is a record of    *)
(* its properties with the number it was added as; 0 stands for a property *)
(* that it has not.                                                        *)
(***************************************************************************)
EXTENDS SeqFunctions, SequencesExt

CONSTANTS Entities,       \* entities to add, without their numbers
          Texts,          \* the properties that are strings, given as numbers too
          Filters,        \* <<>>, or a record: property, op, value, quoted
          Orderings,      \* sequences of <<property, descending>>
          Tops, Skips,    \* numbers asked for
          MaxEntities, MaxProperties  \* bounds

ASSUME ODataAssumption ==
  /\ \A o \in Orderings :
       /\ o \in Seq(STRING \X BOOLEAN)
       /\ \A k \in DOMAIN o, e \in Entities :
            o[k][1] # "id" => o[k][1] \in DOMAIN e /\ e[o[k][1]] \in Int
  /\ Tops \cup Skips \subseteq Nat

VARIABLES props, keys,  \* a type's lists, the last added first; TRUE: a key
          published,    \* the entity set has been added to the service
          data,         \* the entity set's data
          odat,         \* where the call is
          url,          \* what the options come from: "none", "bare" or "valued"
          options,      \* the options of the call
          before,       \* the data as the call began
          work,         \* the array it works on: the caller's, its own or none
          arrays,       \* arrays of its own that are live
          lacked,       \* an allocation failed
          answer        \* the response

callVars == <<url, options, before, work, arrays, lacked, answer>>
odataVars == <<props, keys, published, data, odat, callVars>>

NoArray == [at |-> "none", items |-> <<>>]
NoOptions == [filter |-> {}, orderby |-> <<>>, top |-> {}, skip |-> {}]
NoAnswer == [status |-> 0, count |-> 0, value |-> <<>>]
Error(status) == [NoAnswer EXCEPT !.status = status]

OdataInit == /\ props = <<>> /\ keys = <<>> /\ published = FALSE /\ data = <<>>
             /\ odat = "idle" /\ url = "none" /\ options = NoOptions /\ before = <<>>
             /\ work = NoArray /\ arrays = 0 /\ lacked = FALSE /\ answer = NoAnswer
-----------------------------------------------------------------------------
\* A property is put before the type's list, and a key then before the list of
\* keys, through the same link: what followed it on the first list is cut off.
AddProperty(key) ==
  LET p == [number |-> 1 + Max({0} \cup {x.number : x \in ToSet(props \o keys)}), key |-> key]
  IN /\ p.number <= MaxProperties
     /\ props' = <<p>> \o (IF key THEN keys ELSE props)
     /\ keys' = IF key THEN <<p>> \o keys ELSE keys
     /\ UNCHANGED <<published, data, odat, callVars>>

AddEntitySet == /\ ~published
                /\ published' = TRUE
                /\ UNCHANGED <<props, keys, data, odat, callVars>>

Numbered(e, n) == [p \in DOMAIN e \cup {"id"} |-> IF p = "id" THEN n ELSE e[p]]

AddEntity(e) == /\ Len(data) < MaxEntities
                /\ data' = Append(data, Numbered(e, Len(data) + 1))
                /\ UNCHANGED <<props, keys, published, odat, callVars>>

\* What the documents tell: the keys and properties of the type, the entity sets.
GenerateMetadata == [Key |-> keys, Properties |-> props, EntitySets |-> IF published THEN 1 ELSE 0]

ServiceDestroy == /\ published
                  /\ published' = FALSE /\ data' = <<>> /\ props' = <<>> /\ keys' = <<>>
                  /\ UNCHANGED <<odat, callVars>>
-----------------------------------------------------------------------------
\* The URL of a query gives a set of options by their names, with a value or bare.
Queries == SUBSET [name : {"$filter", "$top", "$skip"}, valued : BOOLEAN]

\* The end of the value is taken for the end of the key, so that an option with a
\* value goes by a key that none is known by.
QueryKeys(query) == {IF o.valued THEN o.name \o "=value" ELSE o.name : o \in query}

\* An option that is known by its key has therefore no value: the filter is empty,
\* and a number is 0.
ParseQueryOptions(query) ==
  LET Known(name) == name \in QueryKeys(query)
  IN [filter |-> IF Known("$filter") THEN {<<>>} ELSE {}, orderby |-> <<>>,
      top |-> IF Known("$top") THEN {0} ELSE {}, skip |-> IF Known("$skip") THEN {0} ELSE {}]

\* The options that a caller fills in by itself.
OptionSets == [filter : {{}} \cup {{f} : f \in Filters}, orderby : Orderings,
               top : {{}} \cup {{n} : n \in Tops}, skip : {{}} \cup {{n} : n \in Skips}]

Kind(query) == IF \E o \in query : o.valued THEN "valued" ELSE "bare"

\* The caller passes the entity set's data, and the set is looked for by name.
GenerateResponse(o, u) ==
  /\ odat = "idle"
  /\ url' = u
  /\ odat' = IF published THEN "filter" ELSE "answered"
  /\ options' = o /\ before' = data /\ work' = [at |-> "caller", items |-> data]
  /\ answer' = IF published THEN NoAnswer ELSE Error(404)
  /\ UNCHANGED <<props, keys, published, data, arrays, lacked>>

\* A string never equals: the length it is compared by counts the quote cut off.
\* An order is between numbers only, and a filter not understood lets all pass.
evaluate_filter(e, f) ==
  \/ f = <<>>
  \/ /\ f # <<>> /\ f.property \in DOMAIN e /\ e[f.property] # 0
     /\ LET x == e[f.property]
            numeric == f.property \notin Texts /\ ~f.quoted
        IN CASE f.op = "eq" -> numeric /\ x = f.value
             [] f.op = "ne" -> ~(numeric /\ x = f.value)
             [] f.op = "gt" -> numeric /\ x > f.value
             [] f.op = "ge" -> numeric /\ x >= f.value
             [] f.op = "lt" -> numeric /\ x < f.value
             [] f.op = "le" -> numeric /\ x <= f.value
             [] OTHER -> FALSE

\* The places of the entities that all filters let pass.
Passing(s, filter) == {i \in DOMAIN s : \A f \in filter : evaluate_filter(s[i], f)}

\* No array is made of no entities, or without memory: all entities then pass.
ApplyFilter ==
  /\ odat = "filter" /\ odat' = "orderby"
  /\ \/ options.filter = {} /\ UNCHANGED <<work, arrays, lacked>>
     \/ /\ options.filter # {} /\ work.items # <<>>
        /\ work' = [at |-> "own", items |-> Picked(work.items, Passing(work.items, options.filter))]
        /\ arrays' = arrays + 1 /\ UNCHANGED lacked
     \/ /\ options.filter # {}
        /\ lacked' = (lacked \/ work.items # <<>>) /\ UNCHANGED <<work, arrays>>
  /\ UNCHANGED <<props, keys, published, data, url, options, before, answer>>

\* Mutant of compare_entities: equal ones are swapped as well.
CompareLoose(a, b, order) ==
  LET x == a[order[1]]
      y == b[order[1]]
  IN IF x = 0 \/ y = 0 THEN 0 ELSE IF (x <= y) = order[2] THEN 1 ELSE -1

\* Less than 0, 0 or more, as a comes before b, along with it or after it; that
\* one of them lacks the property is as good as their being equal.
compare_entities(a, b, order) ==
  LET x == a[order[1]]
      y == b[order[1]]
  IN IF x = 0 \/ y = 0 \/ x = y THEN 0 ELSE IF (x < y) = order[2] THEN 1 ELSE -1

\* The first property that tells two neighbours apart decides.
Swaps(a, b, orderby) ==
  \E k \in DOMAIN orderby : /\ compare_entities(a, b, orderby[k]) > 0
                            /\ \A j \in 1..k - 1 : compare_entities(a, b, orderby[j]) = 0

\* Bubble sort: one comparison, a pass of n of them, and pass after pass, each
\* with one less than the one before it.
Bubbled(s, j, orderby) == IF Swaps(s[j], s[j + 1], orderby)
                          THEN [s EXCEPT ![j] = s[j + 1], ![j + 1] = s[j]] ELSE s

Pass(s, n, orderby) ==
  LET after[j \in 0..n] == IF j = 0 THEN s ELSE Bubbled(after[j - 1], j, orderby)
  IN after[n]

Ordered(s, orderby) ==
  LET after[i \in 0..Len(s)] == IF i = 0 THEN s ELSE Pass(after[i - 1], Len(s) - i, orderby)
  IN after[Len(s)]

\* The array is ordered where it is; without a filter that is the set's own data.
ApplyOrderby ==
  /\ odat = "orderby" /\ odat' = "paging"
  /\ work' = [work EXCEPT !.items = Ordered(@, options.orderby)]
  /\ data' = IF work.at = "caller" THEN work'.items ELSE data
  /\ UNCHANGED <<props, keys, published, url, options, before, arrays, lacked, answer>>

\* The option's number, 0 if it is not set.
NumberOf(option) == Max({0} \cup option)

\* To skip all there is leaves no array; the top 0 are all.
ApplyPaging ==
  LET Unpaged == UNCHANGED <<work, arrays>>
      n == Len(work.items)
      start == NumberOf(options.skip)
      stop == IF NumberOf(options.top) > 0 THEN Min({start + NumberOf(options.top), n}) ELSE n
      Freed == arrays - (IF work.at = "own" THEN 1 ELSE 0)
  IN /\ odat = "paging" /\ odat' = "wrap"
     /\ \/ options.top \cup options.skip = {} /\ Unpaged /\ UNCHANGED lacked
        \/ /\ options.top \cup options.skip # {} /\ n > 0
           /\ IF start >= n THEN work' = NoArray /\ arrays' = Freed
              ELSE /\ work' = [at |-> "own", items |-> SubSeq(work.items, start + 1, stop)]
                   /\ arrays' = Freed + 1
           /\ UNCHANGED lacked
        \/ /\ options.top \cup options.skip # {} /\ (n = 0 \/ start < n)
           /\ lacked' = (lacked \/ n > 0) /\ Unpaged
     /\ UNCHANGED <<props, keys, published, data, url, options, before, answer>>

\* Entities that cannot be copied are left out.  There is no collection without
\* an array, as of data without an entity, nor without memory.
WrapCollection ==
  /\ odat = "wrap" /\ odat' = "answered"
  /\ arrays' = arrays - (IF work.at = "own" THEN 1 ELSE 0) /\ work' = NoArray
  /\ LET None == work.at = "none" \/ (work.at = "caller" /\ data = <<>>)
     IN \/ /\ ~None
           /\ \E out \in SUBSET ToSet(work.items) :
                /\ answer' = [status |-> 200, count |-> Len(before),
                              value |-> Picked(work.items, {i \in DOMAIN work.items : work.items[i] \notin out})]
                /\ lacked' = (lacked \/ out # {})
        \/ /\ answer' = Error(500)
           /\ lacked' = (lacked \/ ~None)
  /\ UNCHANGED <<props, keys, published, data, url, options, before>>

ResponseFree == /\ odat = "answered" /\ odat' = "idle"
                /\ url' = "none" /\ options' = NoOptions /\ before' = <<>>
                /\ answer' = NoAnswer /\ lacked' = FALSE
                /\ UNCHANGED <<props, keys, published, data, work, arrays>>
-----------------------------------------------------------------------------
\* Types share nothing with data: one or the other is filled.
OdataNext == \/ odat = "idle" /\ \/ data = <<>> /\ \E key \in BOOLEAN : AddProperty(key)
                                 \/ props = <<>> /\ \E e \in Entities : AddEntity(e)
                                 \/ AddEntitySet \/ ServiceDestroy
             \/ /\ props = <<>>
                /\ \/ \E o \in OptionSets : GenerateResponse(o, "none")
                   \/ \E q \in Queries : GenerateResponse(ParseQueryOptions(q), Kind(q))
             \/ ApplyFilter \/ ApplyOrderby \/ ApplyPaging \/ WrapCollection \/ ResponseFree

OdataSpec == OdataInit /\ [][OdataNext]_odataVars
-----------------------------------------------------------------------------
\* The first of the properties of an ordering that tells e and g apart, if there is one.
FirstDifference(e, g, orderby) ==
  {k \in DOMAIN orderby : /\ e[orderby[k][1]] # g[orderby[k][1]]
                          /\ \A j \in 1..k - 1 : e[orderby[j][1]] = g[orderby[j][1]]}

\* e comes before g: by that property, else as the data s had them.
Precedes(e, g, orderby, s) ==
  LET first == FirstDifference(e, g, orderby)
  IN IF first = {} THEN \E i, j \in DOMAIN s : i < j /\ s[i] = e /\ s[j] = g
     ELSE \A k \in first : (e[orderby[k][1]] > g[orderby[k][1]]) = orderby[k][2]

\* All entities have what they are ordered by.
Orderable(s, orderby) == \A i \in DOMAIN s, k \in DOMAIN orderby : s[i][orderby[k][1]] # 0

\* The place of an entity among all in this order, from 1.
Rank(e, all, orderby, s) == 1 + Cardinality({g \in ToSet(all) \ {e} : Precedes(g, e, orderby, s)})

\* What is asked for: what the caller filled in, or nothing by a URL whose options
\* have no value.
AskedFor == IF url = "none" THEN options ELSE NoOptions

\* What a filter asks for: a property that is there and equals, does not equal, or
\* is ordered so to, the value; only numbers are ordered.
Matches(e, f) ==
  f = <<>> \/ /\ f.property \in DOMAIN e /\ e[f.property] # 0
              /\ LET x == e[f.property]
                     comparable == f.quoted <=> f.property \in Texts
                 IN \/ f.op = "eq" /\ comparable /\ x = f.value
                    \/ f.op = "ne" /\ ~(comparable /\ x = f.value)
                    \/ f.op = "gt" /\ comparable /\ ~f.quoted /\ x > f.value
                    \/ f.op = "ge" /\ comparable /\ ~f.quoted /\ x >= f.value
                    \/ f.op = "lt" /\ comparable /\ ~f.quoted /\ x < f.value
                    \/ f.op = "le" /\ comparable /\ ~f.quoted /\ x <= f.value

Matching(s, filter) == Picked(s, {i \in DOMAIN s : \A f \in filter : Matches(s[i], f)})

\* A text is compared with a quoted value for equality.
ComparesText(filter) ==
  \E f \in filter \ {<<>>} : f.quoted /\ f.property \in Texts /\ f.op \in {"eq", "ne"}

(***************************************************************************)
(* If no allocation fails, the response is the page asked for of the       *)
(* entities that match, in the order asked for and else as they were, with *)
(* the count of all; a set not published is not found, and an error is the *)
(* answer only to data without entities and to skipping all that match.    *)
(* Two requests are excepted, as the code does not do what its header and  *)
(* comments promise: a URL whose options have values, all of which are     *)
(* ignored (odata.c:405), and a filter that compares a text with a quoted  *)
(* value, which never equals (odata.c:876).  No array is left behind, the  *)
(* data lose no entity to the ordering done in place, and of a type's      *)
(* properties the keys are always on both lists, once (others are cut off: *)
(* odata.c:219).                                                           *)
(***************************************************************************)
ODataAnswers ==
  /\ odat = "answered" =>
       /\ answer.status = 404 <=> ~published
       /\ arrays = 0
       /\ ~lacked /\ published /\ url # "valued" /\ ~ComparesText(AskedFor.filter) =>
            LET all == Matching(before, AskedFor.filter)
                skip == NumberOf(AskedFor.skip)
                last == IF NumberOf(AskedFor.top) > 0 THEN Min({skip + NumberOf(AskedFor.top), Len(all)})
                        ELSE Len(all)
            IN /\ answer.status = 500 <=> before = <<>> \/ (skip >= Len(all) /\ skip > 0 /\ all # <<>>)
               /\ answer.status = 200 =>
                    /\ answer.count = Len(before)
                    /\ Len(answer.value) = (IF all = <<>> THEN 0 ELSE last - skip)
                    /\ ToSet(answer.value) \subseteq ToSet(all) /\ IsInjective(answer.value)
                    /\ Orderable(all, AskedFor.orderby) => \A i \in DOMAIN answer.value :
                         Rank(answer.value[i], all, AskedFor.orderby, before) = skip + i
  /\ {e.id : e \in ToSet(data)} = 1..Len(data)
  /\ IsInjective(GenerateMetadata.Properties)
  /\ ToSet(GenerateMetadata.Key) = {p \in ToSet(GenerateMetadata.Properties) : p.key}
=============================================================================
