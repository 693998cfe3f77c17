------------------------- MODULE SerializationProofs -------------------------
(***************************************************************************)
(* What holds of the JSON text of any length, with any capacities and      *)
(* buffers: a value goes through the parser and the generator whole.  And  *)
(* of an OData service with any entities and options: what it answers is   *)
(* the page that was asked for.                                            *)
(***************************************************************************)
EXTENDS Json, Odata, Chains, FiniteSetTheorems, SequenceTheorems

-----------------------------------------------------------------------------
(***************************************************************************)
(* Recursive functions along a sequence.                                   *)
(***************************************************************************)
\* A step for each place, from what the places before it gave.
RunAlong(f, L, T, start, F) ==
  f \in [0 .. L -> T] /\ f[0] = start /\ \A i \in 1 .. L : f[i] = F[<<i, f[i - 1]>>]

LEMMA RunsAlong ==
  ASSUME NEW L \in Nat, NEW T, NEW start \in T, NEW F \in [(1 .. L) \X T -> T]
  PROVE  \E f : RunAlong(f, L, T, start, F)
<1> DEFINE Good == {n \in 0 .. L : \E f \in [0 .. n -> T] :
                      f[0] = start /\ \A i \in 1 .. n : f[i] = F[<<i, f[i - 1]>>]}
<1>1. 0 \in Good
  <2> DEFINE f == [i \in 0 .. 0 |-> start]
  <2>1. f \in [0 .. 0 -> T] OBVIOUS
  <2>2. f[0] = start OBVIOUS
  <2>3. \A i \in 1 .. 0 : f[i] = F[<<i, f[i - 1]>>] OBVIOUS
  <2> HIDE DEF f
  <2> QED BY <2>1, <2>2, <2>3
<1>2. ASSUME NEW n \in 0 .. L, n > 0, n - 1 \in Good PROVE n \in Good
  <2>1. PICK f \in [0 .. n - 1 -> T] :
          f[0] = start /\ \A i \in 1 .. n - 1 : f[i] = F[<<i, f[i - 1]>>]
    BY <1>2
  <2> DEFINE k == [i \in 0 .. n |-> IF i = n THEN F[<<n, f[n - 1]>>] ELSE f[i]]
  <2>2. n - 1 \in 0 .. n - 1 /\ 0 \in 0 .. n - 1 /\ n # 0 /\ n \in 1 .. L BY <1>2
  <2>3. \A i \in 0 .. n : i # n => i \in 0 .. n - 1 OBVIOUS
  <2>4. F[<<n, f[n - 1]>>] \in T
    <3>1. <<n, f[n - 1]>> \in (1 .. L) \X T BY <2>1, <2>2
    <3> QED BY <3>1
  <2>5. k \in [0 .. n -> T] BY <2>1, <2>3, <2>4
  <2>6. k[0] = start BY <2>1, <2>2
  <2>7. ASSUME NEW i \in 1 .. n PROVE k[i] = F[<<i, k[i - 1]>>]
    <3>1. i - 1 \in 0 .. n - 1 /\ i - 1 # n /\ k[i - 1] = f[i - 1] BY <1>2
    <3>2. CASE i = n
      <4>1. k[n] = F[<<n, f[n - 1]>>] BY <2>2
      <4> HIDE DEF k
      <4> QED BY <3>1, <3>2, <4>1
    <3>3. CASE i # n
      <4>1. i \in 1 .. n - 1 /\ k[i] = f[i] BY <3>3
      <4> QED BY <2>1, <3>1, <4>1
    <3> QED BY <3>2, <3>3
  <2> HIDE DEF k
  <2> QED BY <2>5, <2>6, <2>7
<1> HIDE DEF Good
<1>3. 0 .. L \subseteq Good BY <1>1, <1>2, InductionTo
<1>4. L \in Good BY <1>3
<1> QED BY <1>4 DEF Good, RunAlong

\* Two functions that are the same at first, and stay the same at each step.
InStep(f, g, L) == f[0] = g[0] /\ \A i \in 1 .. L : f[i - 1] = g[i - 1] => f[i] = g[i]

LEMMA SameRun ==
  ASSUME NEW L \in Nat, NEW f, NEW g, InStep(f, g, L)
  PROVE  \A i \in 0 .. L : f[i] = g[i]
<1> DEFINE Good == {n \in 0 .. L : f[n] = g[n]}
<1>1. 0 \in Good BY DEF InStep
<1>2. \A n \in 0 .. L : n > 0 /\ n - 1 \in Good => n \in Good BY DEF InStep
<1> HIDE DEF Good
<1>3. 0 .. L \subseteq Good BY <1>1, <1>2, InductionTo
<1> QED BY <1>3 DEF Good

Running(f, c) == /\ f \in [0 .. Len(c) -> Int] /\ f[0] = 0
                 /\ \A i \in 1 .. Len(c) : f[i] = f[i - 1] + c[i]

LEMMA RunningExists ==
  ASSUME NEW c \in Seq(Int)
  PROVE  \E f : Running(f, c)
<1> DEFINE F == [x \in (1 .. Len(c)) \X Int |-> x[2] + c[x[1]]]
<1>1. PICK f : RunAlong(f, Len(c), Int, 0, F)
  <2>1. F \in [(1 .. Len(c)) \X Int -> Int] OBVIOUS
  <2>2. Len(c) \in Nat /\ 0 \in Int OBVIOUS
  <2> HIDE DEF F
  <2> QED BY <2>1, <2>2, RunsAlong, Zenon
<1>2. f \in [0 .. Len(c) -> Int] /\ f[0] = 0 BY <1>1 DEF RunAlong
<1>3. ASSUME NEW i \in 1 .. Len(c) PROVE f[i] = f[i - 1] + c[i]
  <2>1. f[i] = F[<<i, f[i - 1]>>] BY <1>1 DEF RunAlong
  <2>2. f[i - 1] \in Int BY <1>2
  <2>3. \A y \in Int : F[<<i, y>>] = y + c[i] OBVIOUS
  <2> HIDE DEF F
  <2> QED BY <2>1, <2>2, <2>3
<1> QED BY <1>2, <1>3 DEF Running

LEMMA TotalIs ==
  ASSUME NEW c \in Seq(Int), NEW f, Running(f, c)
  PROVE  Total(c) = f[Len(c)]
<1> DEFINE E(r, i) == IF i = 0 THEN 0 ELSE r[i - 1] + c[i]
           sum == CHOOSE r : r = [i \in 0 .. Len(c) |-> E(r, i)]
<1>1. Len(c) \in Nat OBVIOUS
<1>2. f \in [0 .. Len(c) -> Int] /\ f[0] = 0 /\ \A i \in 1 .. Len(c) : f[i] = f[i - 1] + c[i]
  BY DEF Running
<1>3. ASSUME NEW i \in 0 .. Len(c) PROVE f[i] = E(f, i)
  <2>1. CASE i = 0 BY <1>2, <2>1
  <2>2. CASE i # 0
    <3>1. i \in 1 .. Len(c) BY <2>2
    <3> QED BY <1>2, <2>2, <3>1
  <2> QED BY <2>1, <2>2
<1>4. f = [i \in 0 .. Len(c) |-> E(f, i)] BY <1>2, <1>3
<1>5. sum = [i \in 0 .. Len(c) |-> E(sum, i)] BY <1>4
<1>6. Total(c) = sum[Len(c)] BY DEF Total
<1> HIDE DEF sum
<1>7. sum[0] = 0 BY <1>1, <1>5
<1>8. ASSUME NEW i \in 1 .. Len(c) PROVE sum[i] = sum[i - 1] + c[i]
  <2>1. i \in 0 .. Len(c) /\ i # 0 OBVIOUS
  <2> QED BY <1>5, <2>1
<1>9. \A i \in 0 .. Len(c) : sum[i] = f[i]
  <2>1. InStep(sum, f, Len(c)) BY <1>2, <1>7, <1>8 DEF InStep
  <2> QED BY <1>1, <2>1, SameRun
<1> QED BY <1>1, <1>6, <1>9

\* Sums of a sequence are unique, and those of the concatenation go on from the first.
LEMMA TotalType ==
  ASSUME NEW c \in Seq(Int)
  PROVE  Total(c) \in Int
<1>1. PICK f : Running(f, c) BY RunningExists
<1>2. Total(c) = f[Len(c)] BY <1>1, TotalIs
<1>3. Len(c) \in 0 .. Len(c) OBVIOUS
<1> QED BY <1>1, <1>2, <1>3 DEF Running

LEMMA TotalConcat ==
  ASSUME NEW c \in Seq(Int), NEW d \in Seq(Int)
  PROVE  Total(c \o d) = Total(c) + Total(d)
<1>1. PICK f : Running(f, c) BY RunningExists
<1>2. PICK g : Running(g, d) BY RunningExists
<1> DEFINE m == Len(c)
           n == Len(d)
           e == c \o d
           k == [i \in 0 .. m + n |-> IF i <= m THEN f[i] ELSE f[m] + g[i - m]]
<1>3. m \in Nat /\ n \in Nat /\ Len(e) = m + n /\ e \in Seq(Int) BY ConcatProperties
<1>4. f \in [0 .. m -> Int] /\ f[0] = 0 /\ \A i \in 1 .. m : f[i] = f[i - 1] + c[i]
  BY <1>1 DEF Running
<1>5. g \in [0 .. n -> Int] /\ g[0] = 0 /\ \A i \in 1 .. n : g[i] = g[i - 1] + d[i]
  BY <1>2 DEF Running
<1>6. \A i \in 1 .. m + n : e[i] = IF i <= m THEN c[i] ELSE d[i - m] OBVIOUS
<1>14. \A i \in 1 .. n : d[i] \in Int OBVIOUS
<1> HIDE DEF m, n, e
<1>7. m \in 0 .. m /\ f[m] \in Int BY <1>3, <1>4
<1>8. k \in [0 .. m + n -> Int]
  <2>1. \A i \in 0 .. m + n : ~(i <= m) => i - m \in 0 .. n BY <1>3
  <2>2. \A i \in 0 .. m + n : i <= m => i \in 0 .. m BY <1>3
  <2> QED BY <1>4, <1>5, <1>7, <2>1, <2>2
<1>9. k[0] = 0 BY <1>3, <1>4
<1>10. ASSUME NEW i \in 1 .. m + n PROVE k[i] = k[i - 1] + e[i]
  <2>1. i \in 0 .. m + n /\ i - 1 \in 0 .. m + n BY <1>3
  <2>2. CASE i <= m
    <3>1. i \in 1 .. m /\ i - 1 <= m BY <1>3, <2>2
    <3> QED BY <1>4, <1>6, <2>1, <2>2, <3>1
  <2>3. CASE i = m + 1
    <3>1. i - 1 <= m /\ ~(i <= m) /\ i - m = 1 /\ i - 1 = m /\ 1 \in 1 .. n BY <1>3, <2>3
    <3>2. k[i - 1] = f[m] /\ k[i] = f[m] + g[1] BY <2>1, <3>1
    <3> HIDE DEF k
    <3>3. g[1] = g[0] + d[1]
      <4>1. 1 - 1 = 0 OBVIOUS
      <4> QED BY <1>5, <3>1, <4>1
    <3>4. g[0] = 0 /\ d[1] \in Int BY <1>5, <1>14, <3>1
    <3>5. e[i] = d[1] BY <1>6, <3>1
    <3> QED BY <3>2, <3>3, <3>4, <3>5
  <2>4. CASE i > m + 1
    <3>1. ~(i - 1 <= m) /\ ~(i <= m) /\ i - m \in 1 .. n /\ (i - 1) - m = (i - m) - 1
          /\ (i - m) - 1 \in 0 .. n
      BY <1>3, <2>4
    <3>2. k[i - 1] = f[m] + g[(i - m) - 1] /\ k[i] = f[m] + g[i - m] BY <2>1, <3>1
    <3> HIDE DEF k
    <3>3. g[i - m] = g[(i - m) - 1] + d[i - m] BY <1>5, <3>1
    <3>4. e[i] = d[i - m] BY <1>6, <3>1
    <3>5. g[(i - m) - 1] \in Int /\ d[i - m] \in Int BY <1>5, <1>14, <3>1
    <3>6. f[m] + (g[(i - m) - 1] + d[i - m]) = (f[m] + g[(i - m) - 1]) + d[i - m] BY <1>7, <3>5
    <3> QED BY <3>2, <3>3, <3>4, <3>6
  <2> QED BY <1>3, <2>2, <2>3, <2>4
<1>11. Total(e) = k[m + n]
  <2> HIDE DEF k
  <2>1. Running(k, e) BY <1>3, <1>8, <1>9, <1>10 DEF Running
  <2> QED BY <1>3, <2>1, TotalIs
<1>12. k[m + n] = f[m] + g[n]
  <2>1. m + n \in 0 .. m + n BY <1>3
  <2>2. CASE n = 0 BY <1>3, <1>5, <1>7, <2>1, <2>2
  <2>3. CASE n # 0
    <3>1. ~(m + n <= m) /\ (m + n) - m = n BY <1>3, <2>3
    <3> QED BY <2>1, <3>1
  <2> QED BY <2>2, <2>3
<1>13. Total(c) = f[m] /\ Total(d) = g[n] BY <1>1, <1>2, TotalIs DEF m, n
<1> QED BY <1>11, <1>12, <1>13 DEF e

LEMMA TotalOne ==
  ASSUME NEW x \in Int
  PROVE  Total(<<x>>) = x /\ Total(<< >>) = 0
<1>1. PICK f : Running(f, <<x>>)
  <2>1. <<x>> \in Seq(Int) OBVIOUS
  <2> QED BY <2>1, RunningExists
<1>2. PICK g : Running(g, << >>)
  <2>1. << >> \in Seq(Int) OBVIOUS
  <2> QED BY <2>1, RunningExists
<1>3. Len(<<x>>) = 1 /\ Len(<< >>) = 0 /\ <<x>>[1] = x /\ << >> \in Seq(Int) /\ <<x>> \in Seq(Int)
  OBVIOUS
<1>4. f[0] = 0 /\ f[1] = f[1 - 1] + <<x>>[1] /\ g[0] = 0
  <2>1. 1 \in 1 .. Len(<<x>>) BY <1>3
  <2> QED BY <1>1, <1>2, <2>1 DEF Running
<1>5. f[1] = x BY <1>3, <1>4
<1> QED BY <1>1, <1>2, <1>3, <1>4, <1>5, TotalIs

\* What has been picked after each place.
Picking(f, s, places, S) ==
  /\ f \in [0 .. Len(s) -> Seq(S)] /\ f[0] = << >>
  /\ \A i \in 1 .. Len(s) : f[i] = IF i \in places THEN Append(f[i - 1], s[i]) ELSE f[i - 1]

LEMMA PickingExists ==
  ASSUME NEW S, NEW s \in Seq(S), NEW places
  PROVE  \E f : Picking(f, s, places, S)
<1> DEFINE F == [x \in (1 .. Len(s)) \X Seq(S) |-> IF x[1] \in places THEN Append(x[2], s[x[1]]) ELSE x[2]]
<1>1. PICK f : RunAlong(f, Len(s), Seq(S), << >>, F)
  <2>1. ASSUME NEW x \in (1 .. Len(s)) \X Seq(S)
        PROVE  (IF x[1] \in places THEN Append(x[2], s[x[1]]) ELSE x[2]) \in Seq(S)
    <3>1. x[1] \in 1 .. Len(s) /\ x[2] \in Seq(S) OBVIOUS
    <3>2. s[x[1]] \in S BY <3>1
    <3>3. Append(x[2], s[x[1]]) \in Seq(S) BY <3>1, <3>2
    <3> QED BY <3>1, <3>3
  <2>2. F \in [(1 .. Len(s)) \X Seq(S) -> Seq(S)] BY <2>1
  <2>3. Len(s) \in Nat /\ << >> \in Seq(S) OBVIOUS
  <2> HIDE DEF F
  <2> QED BY <2>2, <2>3, RunsAlong, Zenon
<1>2. f \in [0 .. Len(s) -> Seq(S)] /\ f[0] = << >> BY <1>1 DEF RunAlong
<1>3. ASSUME NEW i \in 1 .. Len(s)
      PROVE  f[i] = IF i \in places THEN Append(f[i - 1], s[i]) ELSE f[i - 1]
  <2>1. f[i] = F[<<i, f[i - 1]>>] BY <1>1 DEF RunAlong
  <2>2. f[i - 1] \in Seq(S) BY <1>2
  <2>3. \A y \in Seq(S) : F[<<i, y>>] = IF i \in places THEN Append(y, s[i]) ELSE y OBVIOUS
  <2> HIDE DEF F
  <2> QED BY <2>1, <2>2, <2>3
<1> QED BY <1>2, <1>3 DEF Picking

LEMMA PickedIs ==
  ASSUME NEW S, NEW s \in Seq(S), NEW places, NEW f, Picking(f, s, places, S)
  PROVE  Picked(s, places) = f[Len(s)]
<1> DEFINE E(r, i) == IF i = 0 THEN << >> ELSE IF i \in places THEN Append(r[i - 1], s[i]) ELSE r[i - 1]
           run == CHOOSE r : r = [i \in 0 .. Len(s) |-> E(r, i)]
<1>1. Len(s) \in Nat OBVIOUS
<1>2. /\ f \in [0 .. Len(s) -> Seq(S)] /\ f[0] = << >>
      /\ \A i \in 1 .. Len(s) : f[i] = IF i \in places THEN Append(f[i - 1], s[i]) ELSE f[i - 1]
  BY DEF Picking
<1>3. ASSUME NEW i \in 0 .. Len(s) PROVE f[i] = E(f, i)
  <2>1. CASE i = 0 BY <1>2, <2>1
  <2>2. CASE i # 0
    <3>1. i \in 1 .. Len(s) BY <2>2
    <3> QED BY <1>2, <2>2, <3>1
  <2> QED BY <2>1, <2>2
<1>4. f = [i \in 0 .. Len(s) |-> E(f, i)] BY <1>2, <1>3
<1>5. run = [i \in 0 .. Len(s) |-> E(run, i)] BY <1>4
<1>6. Picked(s, places) = run[Len(s)] BY DEF Picked
<1> HIDE DEF run
<1>7. run[0] = << >> BY <1>1, <1>5
<1>8. ASSUME NEW i \in 1 .. Len(s)
      PROVE  run[i] = IF i \in places THEN Append(run[i - 1], s[i]) ELSE run[i - 1]
  <2>1. i \in 0 .. Len(s) /\ i # 0 OBVIOUS
  <2> QED BY <1>5, <2>1
<1>9. \A i \in 0 .. Len(s) : run[i] = f[i]
  <2>1. InStep(run, f, Len(s)) BY <1>2, <1>7, <1>8 DEF InStep
  <2> QED BY <1>1, <2>1, SameRun
<1> QED BY <1>1, <1>6, <1>9

LEMMA PickedAppend ==
  ASSUME NEW S, NEW s \in Seq(S), NEW x \in S, NEW places, NEW more,
         \A i \in 1 .. Len(s) : i \in more <=> i \in places
  PROVE  /\ Picked(s, places) \in Seq(S)
         /\ Picked(Append(s, x), more)
              = IF Len(s) + 1 \in more THEN Append(Picked(s, places), x) ELSE Picked(s, places)
<1> DEFINE t == Append(s, x)
           n == Len(s)
<1>1. PICK f : Picking(f, s, places, S) BY PickingExists
<1>2. PICK g : Picking(g, t, more, S)
  <2>1. t \in Seq(S) OBVIOUS
  <2> HIDE DEF t
  <2> QED BY <2>1, PickingExists
<1>3. n \in Nat /\ t \in Seq(S) /\ Len(t) = n + 1 /\ t[n + 1] = x /\ \A i \in 1 .. n : t[i] = s[i]
  OBVIOUS
<1> HIDE DEF t
<1>4. /\ f \in [0 .. n -> Seq(S)] /\ f[0] = << >>
      /\ \A i \in 1 .. n : f[i] = IF i \in places THEN Append(f[i - 1], s[i]) ELSE f[i - 1]
  BY <1>1 DEF Picking
<1>5. /\ g[0] = << >>
      /\ \A i \in 1 .. n + 1 : g[i] = IF i \in more THEN Append(g[i - 1], t[i]) ELSE g[i - 1]
  BY <1>2, <1>3 DEF Picking
<1>6. Picked(s, places) = f[n] /\ Picked(t, more) = g[n + 1]
  BY <1>1, <1>2, <1>3, PickedIs
<1> HIDE DEF n
<1>7. \A i \in 0 .. n : g[i] = f[i]
  <2>1. ASSUME NEW i \in 1 .. n, g[i - 1] = f[i - 1] PROVE g[i] = f[i]
    <3>1. i \in 1 .. n + 1 /\ t[i] = s[i] /\ (i \in more <=> i \in places) BY <1>3 DEF n
    <3> QED BY <1>4, <1>5, <2>1, <3>1
  <2>2. InStep(g, f, n) BY <1>4, <1>5, <2>1 DEF InStep
  <2> QED BY <1>3, <2>2, SameRun
<1>8. n \in 0 .. n /\ n + 1 \in 1 .. n + 1 /\ (n + 1) - 1 = n BY <1>3
<1>9. g[n + 1] = IF n + 1 \in more THEN Append(g[n], x) ELSE g[n] BY <1>3, <1>5, <1>8
<1>10. f[n] \in Seq(S) BY <1>4, <1>8
<1> QED BY <1>6, <1>7, <1>8, <1>9, <1>10 DEF t, n

LEMMA PickedNone == ASSUME NEW places PROVE Picked(<< >>, places) = << >>
<1>1. << >> \in Seq({}) /\ Len(<< >>) = 0 OBVIOUS
<1>2. PICK f : Picking(f, << >>, places, {}) BY <1>1, PickingExists
<1> QED BY <1>1, <1>2, PickedIs DEF Picking

-----------------------------------------------------------------------------
(***************************************************************************)
(* The tokens of a value; the blocks of a sequence of them; the containers *)
(* begun, what they hold and what they give back.                          *)
(***************************************************************************)

ValueTokens == {LeftBrace, RightBrace, "[", "]", ":", "'s'", "7"}
Openers == {LeftBrace, "["}

LEMMA TokensDiffer ==
  /\ LeftBrace \notin {"[", "]", ":", "'s'", "7", RightBrace, Comma, Quote, Blank, Indentation, "\n", "s"}
  /\ RightBrace \notin {"[", "]", ":", "'s'", "7", Comma, Quote, Blank, Indentation, "\n", "s"}
  /\ \A t \in {Comma, Quote, Blank, Indentation} : t \notin {"[", "]", ":", "'s'", "7", "\n", "s"}
  /\ Indentation \notin {Comma, Quote, Blank}
  BY Zenon DEF LeftBrace, RightBrace, Comma, Quote, Blank, Indentation

LEMMA CloserIs ==
  /\ DOMAIN Closer = Openers /\ Closer[LeftBrace] = RightBrace /\ Closer["["] = "]"
  /\ \A o \in Openers : Closer[o] \in Closers
  BY TokensDiffer DEF Closer, Closers, Openers

LEMMA KindsOfTokens ==
  /\ Openers \cup Closers \cup {":", "'s'", "7"} = ValueTokens
  /\ \A o \in Openers : o \notin Closers /\ o \notin {":", "'s'", "7"}
  /\ \A c \in Closers : c \notin Openers /\ c \notin {":", "'s'", "7"}
  BY TokensDiffer DEF Openers, Closers, ValueTokens

Weights(v) == [i \in DOMAIN v |-> BlocksAt(v, i)]

\* The token after the last one counts for nothing.
NoneOpen(v) == v = << >> \/ v[Len(v)] \notin Openers

LEMMA WeightsType ==
  ASSUME NEW v \in Seq(ValueTokens)
  PROVE  /\ Weights(v) \in Seq(Int) /\ Len(Weights(v)) = Len(v)
         /\ BlocksOf(v) = Total(Weights(v)) /\ BlocksOf(v) \in Int
<1>1. \A i \in DOMAIN v : BlocksAt(v, i) \in Int BY DEF BlocksAt
<1>2. Weights(v) \in [1 .. Len(v) -> Int] BY <1>1 DEF Weights
<1>3. Weights(v) \in Seq(Int) /\ Len(Weights(v)) = Len(v) BY <1>2
<1>4. BlocksOf(v) = Total(Weights(v)) BY DEF BlocksOf, Weights
<1> QED BY <1>3, <1>4, TotalType

LEMMA WeightOf ==
  ASSUME NEW v, NEW w, NEW i, NEW j, v[i] = w[j],
         v[i] \in Openers => (v[i + 1] \in Closers <=> w[j + 1] \in Closers)
  PROVE  BlocksAt(v, i) = BlocksAt(w, j)
<1>1. CASE v[i] = LeftBrace BY <1>1 DEF BlocksAt, Openers
<1>2. CASE v[i] = "[" BY <1>2 DEF BlocksAt, Openers
<1>3. CASE v[i] \notin Openers BY <1>3 DEF BlocksAt, Openers
<1> QED BY <1>1, <1>2, <1>3 DEF Openers

LEMMA BlocksConcat ==
  ASSUME NEW a \in Seq(ValueTokens), NEW b \in Seq(ValueTokens), NoneOpen(a), NoneOpen(b)
  PROVE  BlocksOf(a \o b) = BlocksOf(a) + BlocksOf(b)
<1> DEFINE c == a \o b
           m == Len(a)
           n == Len(b)
<1>1. /\ c \in Seq(ValueTokens) /\ Len(c) = m + n /\ m \in Nat /\ n \in Nat
      /\ \A i \in 1 .. m + n : c[i] = IF i <= m THEN a[i] ELSE b[i - m]
  BY ConcatProperties
<1>2. DOMAIN a = 1 .. m /\ DOMAIN b = 1 .. n /\ DOMAIN c = 1 .. m + n BY <1>1
<1>3. (m > 0 => a[m] \notin Openers) /\ (n > 0 => b[n] \notin Openers) BY <1>1 DEF NoneOpen
<1> HIDE DEF c, m, n
<1>4. ASSUME NEW i \in 1 .. m PROVE BlocksAt(c, i) = BlocksAt(a, i)
  <2>1. c[i] = a[i] /\ (i # m => c[i + 1] = a[i + 1]) BY <1>1
  <2>2. a[i] \in Openers => i # m BY <1>3
  <2> QED BY <2>1, <2>2, WeightOf
<1>5. ASSUME NEW i \in 1 .. n PROVE BlocksAt(c, m + i) = BlocksAt(b, i)
  <2>1. /\ m + i \in 1 .. m + n /\ ~(m + i <= m) /\ (m + i) - m = i /\ m + (i + 1) = (m + i) + 1
        /\ i # n => m + i + 1 \in 1 .. m + n /\ ~(m + i + 1 <= m) /\ (m + i + 1) - m = i + 1
    BY <1>1
  <2>2. c[m + i] = b[i] /\ (i # n => c[m + i + 1] = b[i + 1]) BY <1>1, <2>1
  <2>3. b[i] \in Openers => i # n BY <1>1, <1>3
  <2> QED BY <2>2, <2>3, WeightOf
<1>6. /\ Weights(a) \in Seq(Int) /\ Weights(b) \in Seq(Int) /\ Weights(c) \in Seq(Int)
      /\ Len(Weights(a)) = m /\ Len(Weights(b)) = n /\ Len(Weights(c)) = m + n
  BY <1>1, WeightsType DEF m, n
<1>7. Weights(c) = Weights(a) \o Weights(b)
  <2> DEFINE d == Weights(a) \o Weights(b)
  <2>1. /\ d \in Seq(Int) /\ Len(d) = m + n
        /\ \A i \in 1 .. m + n : d[i] = IF i <= m THEN Weights(a)[i] ELSE Weights(b)[i - m]
    BY <1>6, ConcatProperties
  <2> HIDE DEF d
  <2>2. ASSUME NEW i \in 1 .. m + n PROVE Weights(c)[i] = d[i]
    <3>1. CASE i <= m
      <4>1. i \in 1 .. m BY <1>1, <3>1
      <4> QED BY <1>2, <1>4, <2>1, <3>1, <4>1 DEF Weights
    <3>2. CASE ~(i <= m)
      <4>1. i - m \in 1 .. n /\ m + (i - m) = i BY <1>1, <3>2
      <4>2. BlocksAt(c, i) = BlocksAt(b, i - m) BY <1>5, <4>1
      <4> QED BY <1>2, <2>1, <3>2, <4>1, <4>2 DEF Weights
    <3> QED BY <3>1, <3>2
  <2>3. Weights(c) = d BY <1>6, <2>1, <2>2, SeqEqual
  <2> QED BY <2>3 DEF d
<1>8. Total(Weights(c)) = Total(Weights(a)) + Total(Weights(b)) BY <1>6, <1>7, TotalConcat
<1> QED BY <1>1, <1>8, WeightsType DEF c

\* A container that opens adds its struct, and its arrays if anything is in it.
LEMMA BlocksOpened ==
  ASSUME NEW o \in Openers, NEW b \in Seq(ValueTokens), b # << >>, NoneOpen(b)
  PROVE  BlocksOf(<<o>> \o b)
           = (IF b[1] \in Closers THEN 1 ELSE IF o = LeftBrace THEN 3 ELSE 2) + BlocksOf(b)
<1> DEFINE c == <<o>> \o b
           n == Len(b)
           x == IF b[1] \in Closers THEN 1 ELSE IF o = LeftBrace THEN 3 ELSE 2
<1>0. o \in ValueTokens BY DEF Openers, ValueTokens
<1>1. <<o>> \in Seq(ValueTokens) /\ Len(<<o>>) = 1 /\ <<o>>[1] = o BY <1>0
<1>2. /\ c \in Seq(ValueTokens) /\ Len(c) = 1 + n /\ n \in Nat /\ n > 0
      /\ c[1] = o
      /\ \A i \in 1 .. n : c[i + 1] = b[i]
  BY <1>1
<1>3. DOMAIN b = 1 .. n /\ DOMAIN c = 1 .. 1 + n BY <1>2
<1>4. b[n] \notin Openers BY DEF NoneOpen
<1>5. x \in Int OBVIOUS
<1> HIDE DEF c, n
<1>6. BlocksAt(c, 1) = x
  <2>1. c[1 + 1] = b[1] BY <1>2
  <2>2. CASE o = LeftBrace BY <1>2, <2>1, <2>2, TokensDiffer DEF BlocksAt
  <2>3. CASE o = "[" BY <1>2, <2>1, <2>3, TokensDiffer DEF BlocksAt
  <2> QED BY <2>2, <2>3 DEF Openers
<1> HIDE DEF x
<1>7. ASSUME NEW i \in 1 .. n PROVE BlocksAt(c, i + 1) = BlocksAt(b, i)
  <2>1. c[i + 1] = b[i] /\ (i # n => c[i + 1 + 1] = b[i + 1]) BY <1>2
  <2>2. b[i] \in Openers => i # n BY <1>4
  <2> QED BY <2>1, <2>2, WeightOf
<1>8. /\ Weights(b) \in Seq(Int) /\ Weights(c) \in Seq(Int) /\ <<x>> \in Seq(Int)
      /\ Len(Weights(b)) = n /\ Len(Weights(c)) = 1 + n /\ Len(<<x>>) = 1 /\ <<x>>[1] = x
  BY <1>2, <1>5, WeightsType DEF n
<1>9. Weights(c) = <<x>> \o Weights(b)
  <2> DEFINE d == <<x>> \o Weights(b)
  <2>1. /\ d \in Seq(Int) /\ Len(d) = 1 + n
        /\ \A i \in 1 .. 1 + n : d[i] = IF i <= 1 THEN x ELSE Weights(b)[i - 1]
    BY <1>8
  <2> HIDE DEF d
  <2>2. ASSUME NEW i \in 1 .. 1 + n PROVE Weights(c)[i] = d[i]
    <3>1. CASE i = 1
      <4>1. 1 \in 1 .. 1 + n /\ d[1] = x BY <1>2, <2>1
      <4>2. Weights(c)[1] = x BY <1>3, <1>6, <4>1 DEF Weights
      <4> QED BY <3>1, <4>1, <4>2
    <3>2. CASE i # 1
      <4>1. ~(i <= 1) /\ i - 1 \in 1 .. n /\ (i - 1) + 1 = i BY <1>2, <3>2
      <4>2. BlocksAt(c, i) = BlocksAt(b, i - 1) BY <1>7, <4>1
      <4> QED BY <1>3, <2>1, <4>1, <4>2 DEF Weights
    <3> QED BY <3>1, <3>2
  <2>3. Weights(c) = d BY <1>2, <1>8, <2>1, <2>2, SeqEqual
  <2> QED BY <2>3 DEF d
<1>10. Total(Weights(c)) = x + Total(Weights(b)) BY <1>5, <1>8, <1>9, TotalConcat, TotalOne
<1> QED BY <1>2, <1>10, WeightsType DEF c, x

LEMMA BlocksOne ==
  /\ BlocksOf(<< >>) = 0
  /\ BlocksOf(<<"7">>) = 1 /\ BlocksOf(<<"'s'">>) = 2 /\ BlocksOf(<<":">>) = 0
  /\ \A c \in Closers : BlocksOf(<<c>>) = 0
<1>1. \A t \in ValueTokens : Weights(<<t>>) = <<BlocksAt(<<t>>, 1)>>
  <2> TAKE t \in ValueTokens
  <2>1. Weights(<<t>>) \in [1 .. 1 -> {BlocksAt(<<t>>, 1)}] BY DEF Weights
  <2> QED BY <2>1
<1>2. \A t \in ValueTokens : <<t>> \in Seq(ValueTokens) OBVIOUS
<1>3. ASSUME NEW t \in ValueTokens \ Openers
      PROVE  BlocksOf(<<t>>) = IF t = "7" THEN 1 ELSE IF t = "'s'" THEN 2 ELSE 0
  <2>1. BlocksOf(<<t>>) = Total(<<BlocksAt(<<t>>, 1)>>) BY <1>1, <1>2, WeightsType
  <2>2. BlocksAt(<<t>>, 1) = IF t = "7" THEN 1 ELSE IF t = "'s'" THEN 2 ELSE 0
    BY DEF BlocksAt, Openers
  <2> QED BY <2>1, <2>2, TotalOne
<1>4. BlocksOf(<< >>) = 0
  <2>1. << >> \in Seq(ValueTokens) OBVIOUS
  <2>2. Weights(<< >>) = << >> BY <2>1, WeightsType, EmptySeq
  <2> QED BY <2>1, <2>2, WeightsType, TotalOne
<1>5. Closers \cup {"7", "'s'", ":"} \subseteq ValueTokens \ Openers
  BY KindsOfTokens
<1>6. BlocksOf(<<"7">>) = 1 /\ BlocksOf(<<"'s'">>) = 2 /\ BlocksOf(<<":">>) = 0 BY <1>3, <1>5
<1>7. \A c \in Closers : c # "7" /\ c # "'s'" BY KindsOfTokens
<1>8. \A c \in Closers : BlocksOf(<<c>>) = 0 BY <1>3, <1>5, <1>7
<1> QED BY <1>4, <1>6, <1>8

-----------------------------------------------------------------------------
Stained(v) == \E i \in DOMAIN v : v[i] \in Closers \cup {"'s'"}

Inner(f) == [i \in 1 .. Len(f.items) - 1 |-> f.items[i + 1]]

\* What has a first and a last place where those of a container's items are.
Content(b) == b # << >> => b[1] \notin Closers /\ b[Len(b)] \notin Openers

\* The blocks that hang on a container begun, with its own.
Held(f) == 1 + Arrays(f) + BlocksOf(Inner(f))

Frames == [kind : Openers, items : Seq(ValueTokens), count : Nat, cap : Nat, key : BOOLEAN]

\* A key has been read and its item not.
HasKey(f) == f.key

Fits(f) == f.count <= f.cap /\ (f.cap = 0 <=> f.count = 0)

HasItems(f) == f.count > 0

FrameOk(f) == /\ f \in Frames /\ Len(f.items) >= 1 /\ f.items[1] = f.kind
              /\ Content(Inner(f))
              /\ HasKey(f) => f.kind = LeftBrace
              /\ Fits(f)
              /\ (HasKey(f) \/ HasItems(f)) <=> Len(f.items) > 1
              /\ ~Stained(f.items) => Held(f) = Given(f) /\ ~HasKey(f)

Begun == {f \in Frames : FrameOk(f)}

IsValue(v) == /\ v \in Seq(ValueTokens) /\ v # << >>
              /\ v[1] \notin Closers /\ v[Len(v)] \notin Openers
              /\ ~Stained(v) => v = <<"7">>

\* The tokens of the containers of a stack, one after the other.
Joined(s) == LET run[i \in 0 .. Len(s)] == IF i = 0 THEN << >> ELSE run[i - 1] \o s[i].items
             IN run[Len(s)]

Joining(f, s) == /\ f \in [0 .. Len(s) -> Seq(ValueTokens)] /\ f[0] = << >>
                 /\ \A i \in 1 .. Len(s) : f[i] = f[i - 1] \o s[i].items

LEMMA JoiningExists ==
  ASSUME NEW s \in Seq(Begun)
  PROVE  \E f : Joining(f, s)
<1> DEFINE V == Seq(ValueTokens)
           F == [x \in (1 .. Len(s)) \X V |-> x[2] \o s[x[1]].items]
<1>1. PICK f : RunAlong(f, Len(s), V, << >>, F)
  <2>1. ASSUME NEW x \in (1 .. Len(s)) \X V PROVE x[2] \o s[x[1]].items \in V
    <3>1. x[1] \in 1 .. Len(s) /\ x[2] \in V OBVIOUS
    <3>2. s[x[1]] \in Frames BY <3>1 DEF Begun
    <3>3. s[x[1]].items \in Seq(ValueTokens) BY <3>2 DEF Frames
    <3> QED BY <3>1, <3>3, ConcatProperties
  <2>2. F \in [(1 .. Len(s)) \X V -> V] BY <2>1
  <2>3. Len(s) \in Nat /\ << >> \in V OBVIOUS
  <2> HIDE DEF F, V
  <2> QED BY <2>2, <2>3, RunsAlong, Zenon
<1>2. f \in [0 .. Len(s) -> V] /\ f[0] = << >> BY <1>1 DEF RunAlong
<1>3. ASSUME NEW i \in 1 .. Len(s) PROVE f[i] = f[i - 1] \o s[i].items
  <2>1. f[i] = F[<<i, f[i - 1]>>] BY <1>1 DEF RunAlong
  <2>2. f[i - 1] \in V BY <1>2
  <2>3. \A y \in V : F[<<i, y>>] = y \o s[i].items OBVIOUS
  <2> HIDE DEF F
  <2> QED BY <2>1, <2>2, <2>3
<1> QED BY <1>2, <1>3 DEF Joining

LEMMA JoinedIs ==
  ASSUME NEW s \in Seq(Begun), NEW f, Joining(f, s)
  PROVE  Joined(s) = f[Len(s)]
<1> DEFINE E(r, i) == IF i = 0 THEN << >> ELSE r[i - 1] \o s[i].items
           run == CHOOSE r : r = [i \in 0 .. Len(s) |-> E(r, i)]
<1>1. Len(s) \in Nat OBVIOUS
<1>2. /\ f \in [0 .. Len(s) -> Seq(ValueTokens)] /\ f[0] = << >>
      /\ \A i \in 1 .. Len(s) : f[i] = f[i - 1] \o s[i].items
  BY DEF Joining
<1>3. ASSUME NEW i \in 0 .. Len(s) PROVE f[i] = E(f, i)
  <2>1. CASE i = 0 BY <1>2, <2>1
  <2>2. CASE i # 0
    <3>1. i \in 1 .. Len(s) BY <2>2
    <3> QED BY <1>2, <2>2, <3>1
  <2> QED BY <2>1, <2>2
<1>4. f = [i \in 0 .. Len(s) |-> E(f, i)] BY <1>2, <1>3
<1>5. run = [i \in 0 .. Len(s) |-> E(run, i)] BY <1>4
<1>6. Joined(s) = run[Len(s)] BY DEF Joined
<1> HIDE DEF run
<1>7. run[0] = << >> BY <1>1, <1>5
<1>8. ASSUME NEW i \in 1 .. Len(s) PROVE run[i] = run[i - 1] \o s[i].items
  <2>1. i \in 0 .. Len(s) /\ i # 0 OBVIOUS
  <2> QED BY <1>5, <2>1
<1>9. \A i \in 0 .. Len(s) : run[i] = f[i]
  <2>1. InStep(run, f, Len(s)) BY <1>2, <1>7, <1>8 DEF InStep
  <2> QED BY <1>1, <2>1, SameRun
<1> QED BY <1>1, <1>6, <1>9

LEMMA JoinedAppend ==
  ASSUME NEW s \in Seq(Begun), NEW x \in Begun
  PROVE  /\ Joined(s) \in Seq(ValueTokens)
         /\ Joined(Append(s, x)) = Joined(s) \o x.items
<1> DEFINE t == Append(s, x)
           n == Len(s)
<1>1. PICK f : Joining(f, s) BY JoiningExists
<1>2. PICK g : Joining(g, t)
  <2>1. t \in Seq(Begun) OBVIOUS
  <2> HIDE DEF t
  <2> QED BY <2>1, JoiningExists
<1>3. n \in Nat /\ t \in Seq(Begun) /\ Len(t) = n + 1 /\ t[n + 1] = x /\ \A i \in 1 .. n : t[i] = s[i]
  OBVIOUS
<1> HIDE DEF t
<1>4. /\ f \in [0 .. n -> Seq(ValueTokens)] /\ f[0] = << >>
      /\ \A i \in 1 .. n : f[i] = f[i - 1] \o s[i].items
  BY <1>1 DEF Joining
<1>5. g[0] = << >> /\ \A i \in 1 .. n + 1 : g[i] = g[i - 1] \o t[i].items
  BY <1>2, <1>3 DEF Joining
<1>6. Joined(s) = f[n] /\ Joined(t) = g[n + 1] BY <1>1, <1>2, <1>3, JoinedIs
<1> HIDE DEF n
<1>7. \A i \in 0 .. n : g[i] = f[i]
  <2>1. ASSUME NEW i \in 1 .. n, g[i - 1] = f[i - 1] PROVE g[i] = f[i]
    <3>1. i \in 1 .. n + 1 /\ t[i] = s[i] BY <1>3
    <3> QED BY <1>4, <1>5, <2>1, <3>1
  <2>2. InStep(g, f, n) BY <1>4, <1>5, <2>1 DEF InStep
  <2> QED BY <1>3, <2>2, SameRun
<1>8. n \in 0 .. n /\ n + 1 \in 1 .. n + 1 /\ (n + 1) - 1 = n BY <1>3
<1>9. g[n + 1] = g[n] \o t[n + 1].items BY <1>5, <1>8
<1>10. f[n] \in Seq(ValueTokens) BY <1>4, <1>8
<1> QED BY <1>3, <1>6, <1>7, <1>8, <1>9, <1>10 DEF t

LEMMA JoinedNone == Joined(<< >>) = << >>
<1>1. << >> \in Seq(Begun) /\ Len(<< >>) = 0 OBVIOUS
<1>2. PICK f : Joining(f, << >>) BY <1>1, JoiningExists
<1> QED BY <1>1, <1>2, JoinedIs DEF Joining

\* The blocks of a stack, and those it gives back.
HeldBy(s) == Total([i \in DOMAIN s |-> Held(s[i])])
GivenBy(s) == Total([i \in DOMAIN s |-> Given(s[i])])

LEMMA InnerType ==
  ASSUME NEW f \in Frames, Len(f.items) >= 1
  PROVE  /\ Inner(f) \in Seq(ValueTokens) /\ Len(Inner(f)) = Len(f.items) - 1
         /\ \A i \in 1 .. Len(f.items) - 1 : Inner(f)[i] = f.items[i + 1]
<1>1. f.items \in Seq(ValueTokens) BY DEF Frames
<1>2. Inner(f) \in [1 .. Len(f.items) - 1 -> ValueTokens] BY <1>1 DEF Inner
<1>3. Len(f.items) - 1 \in Nat BY <1>1
<1>4. Inner(f) \in Seq(ValueTokens) /\ Len(Inner(f)) = Len(f.items) - 1 BY <1>2, <1>3
<1>5. \A i \in 1 .. Len(f.items) - 1 : Inner(f)[i] = f.items[i + 1] BY DEF Inner
<1> QED BY <1>4, <1>5

LEMMA BlocksType ==
  ASSUME NEW f \in Begun
  PROVE  Held(f) \in Int /\ Given(f) \in Int /\ Arrays(f) \in Int
<1>1. f \in Frames /\ Len(f.items) >= 1 BY DEF Begun, FrameOk
<1>2. Arrays(f) \in Int BY DEF Arrays
<1>3. BlocksOf(Inner(f)) \in Int BY <1>1, InnerType, WeightsType
<1>4. f.count \in Nat BY <1>1 DEF Frames
<1>5. Held(f) \in Int BY <1>2, <1>3 DEF Held
<1>6. Given(f) \in Int
  <2> DEFINE m == IF f.kind = LeftBrace THEN 2 ELSE 1
             k == IF f.key THEN 1 ELSE 0
             n == f.count
             a == Arrays(f)
  <2>1. m \in Int /\ k \in Int /\ n \in Int /\ a \in Int BY <1>2, <1>4
  <2>2. Given(f) = 1 + a + m * n + k BY DEF Given
  <2> HIDE DEF m, k, n, a
  <2>3. m * n \in Int BY <2>1
  <2> QED BY <2>1, <2>2, <2>3
<1> QED BY <1>2, <1>5, <1>6

LEMMA BlocksBy ==
  ASSUME NEW s \in Seq(Begun), NEW x \in Begun
  PROVE  /\ HeldBy(s) \in Int /\ GivenBy(s) \in Int
         /\ HeldBy(Append(s, x)) = HeldBy(s) + Held(x)
         /\ GivenBy(Append(s, x)) = GivenBy(s) + Given(x)
<1> DEFINE t == Append(s, x)
           n == Len(s)
           H(z) == [i \in DOMAIN z |-> Held(z[i])]
           G(z) == [i \in DOMAIN z |-> Given(z[i])]
<1>1. /\ n \in Nat /\ t \in Seq(Begun) /\ Len(t) = n + 1 /\ t[n + 1] = x /\ \A i \in 1 .. n : t[i] = s[i]
      /\ DOMAIN s = 1 .. n /\ DOMAIN t = 1 .. n + 1
  OBVIOUS
<1> HIDE DEF t
<1>2. \A z \in Seq(Begun) : H(z) \in [1 .. Len(z) -> Int] /\ G(z) \in [1 .. Len(z) -> Int]
  <2>1. \A y \in Begun : Held(y) \in Int /\ Given(y) \in Int BY BlocksType
  <2>2. \A z \in Seq(Begun) : DOMAIN z = 1 .. Len(z) /\ \A i \in 1 .. Len(z) : z[i] \in Begun OBVIOUS
  <2> QED BY <2>1, <2>2
<1>3. \A z \in Seq(Begun) : H(z) \in Seq(Int) /\ G(z) \in Seq(Int) /\ Len(H(z)) = Len(z) /\ Len(G(z)) = Len(z)
  <2> TAKE z \in Seq(Begun)
  <2> DEFINE a == H(z)
             b == G(z)
  <2>1. a \in [1 .. Len(z) -> Int] /\ b \in [1 .. Len(z) -> Int] /\ Len(z) \in Nat BY <1>2
  <2> HIDE DEF a, b
  <2>2. a \in Seq(Int) /\ b \in Seq(Int) /\ Len(a) = Len(z) /\ Len(b) = Len(z) BY <2>1, MembersMap
  <2> QED BY <2>2 DEF a, b
<1>4. Held(x) \in Int /\ Given(x) \in Int BY BlocksType
<1>5. H(t) = Append(H(s), Held(x))
  <2> DEFINE a == H(s)
             b == H(t)
  <2>1. a \in Seq(Int) /\ b \in Seq(Int) /\ Len(a) = n /\ Len(b) = n + 1 BY <1>1, <1>3
  <2>2. \A i \in 1 .. n : b[i] = a[i] BY <1>1
  <2>3. b[n + 1] = Held(x) BY <1>1
  <2> HIDE DEF a, b
  <2>4. Append(a, Held(x)) \in Seq(Int) /\ Len(Append(a, Held(x))) = n + 1 BY <1>4, <2>1
  <2>5. \A i \in 1 .. n + 1 : b[i] = Append(a, Held(x))[i] BY <1>1, <1>4, <2>1, <2>2, <2>3
  <2>6. b = Append(a, Held(x)) BY <2>1, <2>4, <2>5, SeqEqual
  <2> QED BY <2>6 DEF a, b
<1>6. G(t) = Append(G(s), Given(x))
  <2> DEFINE a == G(s)
             b == G(t)
  <2>1. a \in Seq(Int) /\ b \in Seq(Int) /\ Len(a) = n /\ Len(b) = n + 1 BY <1>1, <1>3
  <2>2. \A i \in 1 .. n : b[i] = a[i] BY <1>1
  <2>3. b[n + 1] = Given(x) BY <1>1
  <2> HIDE DEF a, b
  <2>4. Append(a, Given(x)) \in Seq(Int) /\ Len(Append(a, Given(x))) = n + 1 BY <1>4, <2>1
  <2>5. \A i \in 1 .. n + 1 : b[i] = Append(a, Given(x))[i] BY <1>1, <1>4, <2>1, <2>2, <2>3
  <2>6. b = Append(a, Given(x)) BY <2>1, <2>4, <2>5, SeqEqual
  <2> QED BY <2>6 DEF a, b
<1> HIDE DEF H, G
<1>7. ASSUME NEW a \in Seq(Int), NEW y \in Int PROVE Total(Append(a, y)) = Total(a) + y
  <2>1. <<y>> \in Seq(Int) /\ Append(a, y) = a \o <<y>> BY AppendIsConcat
  <2> QED BY <2>1, TotalConcat, TotalOne
<1>8. H(s) \in Seq(Int) /\ G(s) \in Seq(Int) BY <1>3
<1>9. HeldBy(s) = Total(H(s)) /\ HeldBy(t) = Total(H(t)) BY DEF HeldBy, H
<1>10. GivenBy(s) = Total(G(s)) /\ GivenBy(t) = Total(G(t)) BY DEF GivenBy, G
<1> QED BY <1>4, <1>5, <1>6, <1>7, <1>8, <1>9, <1>10, TotalType DEF t

LEMMA BlocksByNone == HeldBy(<< >>) = 0 /\ GivenBy(<< >>) = 0
<1>2. [i \in DOMAIN << >> |-> Held(<< >>[i])] = << >> /\ [i \in DOMAIN << >> |-> Given(<< >>[i])] = << >>
  OBVIOUS
<1>3. Total(<< >>) = 0
  <2>1. 0 \in Int OBVIOUS
  <2> QED BY <2>1, TotalOne
<1> QED BY <1>2, <1>3 DEF HeldBy, GivenBy

-----------------------------------------------------------------------------
(***************************************************************************)
(* A container that takes a key, a colon or an item, and one that is       *)
(* closed.                                                                 *)
(***************************************************************************)

LEMMA StainedConcat ==
  ASSUME NEW a \in Seq(ValueTokens), NEW b \in Seq(ValueTokens)
  PROVE  Stained(a \o b) <=> Stained(a) \/ Stained(b)
<1> DEFINE c == a \o b
           m == Len(a)
           n == Len(b)
<1>1. /\ c \in Seq(ValueTokens) /\ Len(c) = m + n /\ m \in Nat /\ n \in Nat
      /\ \A i \in 1 .. m + n : c[i] = IF i <= m THEN a[i] ELSE b[i - m]
  BY ConcatProperties
<1>2. DOMAIN a = 1 .. m /\ DOMAIN b = 1 .. n /\ DOMAIN c = 1 .. m + n BY <1>1
<1> HIDE DEF c, m, n
<1>3. ASSUME Stained(c) PROVE Stained(a) \/ Stained(b)
  <2>1. PICK i \in 1 .. m + n : c[i] \in Closers \cup {"'s'"} BY <1>2, <1>3 DEF Stained
  <2>2. CASE i <= m
    <3>1. i \in 1 .. m /\ c[i] = a[i] BY <1>1, <2>2
    <3> QED BY <1>2, <2>1, <3>1 DEF Stained
  <2>3. CASE ~(i <= m)
    <3>1. i - m \in 1 .. n /\ c[i] = b[i - m] BY <1>1, <2>3
    <3> QED BY <1>2, <2>1, <3>1 DEF Stained
  <2> QED BY <2>2, <2>3
<1>4. ASSUME Stained(a) PROVE Stained(c)
  <2>1. PICK i \in 1 .. m : a[i] \in Closers \cup {"'s'"} BY <1>2, <1>4 DEF Stained
  <2>2. i \in 1 .. m + n /\ c[i] = a[i] BY <1>1
  <2> QED BY <1>2, <2>1, <2>2 DEF Stained
<1>5. ASSUME Stained(b) PROVE Stained(c)
  <2>1. PICK i \in 1 .. n : b[i] \in Closers \cup {"'s'"} BY <1>2, <1>5 DEF Stained
  <2>2. i + m \in 1 .. m + n /\ ~(i + m <= m) /\ (i + m) - m = i BY <1>1
  <2>3. c[i + m] = b[i] BY <1>1, <2>2
  <2> QED BY <1>2, <2>1, <2>2, <2>3 DEF Stained
<1> QED BY <1>3, <1>4, <1>5 DEF c

LEMMA StainedOne ==
  /\ \A c \in Closers \cup {"'s'"} : Stained(<<c>>)
  /\ \A t \in {":", "7"} \cup Openers : ~Stained(<<t>>)
<1>1. \A t : Stained(<<t>>) <=> t \in Closers \cup {"'s'"}
  <2>1. \A t : DOMAIN <<t>> = {1} /\ <<t>>[1] = t OBVIOUS
  <2> QED BY <2>1 DEF Stained
<1>2. \A t \in {":", "7"} \cup Openers : t \notin Closers \cup {"'s'"} BY KindsOfTokens
<1> QED BY <1>1, <1>2

LEMMA OneToken ==
  ASSUME NEW t \in ValueTokens
  PROVE  <<t>> \in Seq(ValueTokens) /\ <<t>> # << >> /\ Len(<<t>>) = 1 /\ <<t>>[1] = t
  OBVIOUS

LEMMA GivenIs ==
  ASSUME NEW f \in Frames
  PROVE  Given(f) = 1 + Arrays(f) + f.count + (IF f.kind = LeftBrace THEN f.count ELSE 0) + (IF HasKey(f) THEN 1 ELSE 0)
<1> DEFINE n == f.count
           a == Arrays(f)
           k == IF HasKey(f) THEN 1 ELSE 0
<1>1. n \in Int /\ a \in Int /\ k \in Int BY DEF Frames, Arrays
<1>2. Given(f) = 1 + a + (IF f.kind = LeftBrace THEN 2 ELSE 1) * n + k BY DEF Given, HasKey
<1> HIDE DEF n, a, k
<1>3. 2 * n = n + n /\ 1 * n = n BY <1>1
<1>4. CASE f.kind = LeftBrace
  <2>1. Given(f) = 1 + a + (n + n) + k BY <1>2, <1>3, <1>4
  <2> QED BY <1>1, <1>4, <2>1 DEF n, a, k
<1>5. CASE f.kind # LeftBrace
  <2>1. Given(f) = 1 + a + n + k BY <1>2, <1>3, <1>5
  <2> QED BY <1>1, <1>5, <2>1 DEF n, a, k
<1> QED BY <1>4, <1>5

\* Whatever is added to a container's items is added to what is in it.
LEMMA InnerGrows ==
  ASSUME NEW f \in Begun, NEW g \in Frames, NEW v \in Seq(ValueTokens),
         v # << >>, v[1] \notin Closers, v[Len(v)] \notin Openers,
         g.items = f.items \o v
  PROVE  /\ Content(Inner(g)) /\ Len(g.items) > 1 /\ g.items[1] = f.items[1]
         /\ BlocksOf(Inner(g)) = BlocksOf(Inner(f)) + BlocksOf(v)
         /\ Stained(g.items) <=> Stained(f.items) \/ Stained(v)
<1> DEFINE a == f.items
           c == a \o v
           m == Len(a)
           n == Len(v)
           x == Inner(f)
           y == Inner(g)
           z == x \o v
<1>0. f \in Frames /\ m >= 1 /\ Content(x) /\ a \in Seq(ValueTokens) BY DEF Begun, FrameOk, Frames
<1>1. /\ c \in Seq(ValueTokens) /\ Len(c) = m + n /\ m \in Nat /\ n \in Nat /\ n > 0
      /\ \A i \in 1 .. m + n : c[i] = IF i <= m THEN a[i] ELSE v[i - m]
  BY <1>0, ConcatProperties
<1>2. /\ x \in Seq(ValueTokens) /\ Len(x) = m - 1 /\ \A i \in 1 .. m - 1 : x[i] = a[i + 1]
  BY <1>0, InnerType
<1>3. g.items = c OBVIOUS
<1>4. Stained(c) <=> Stained(a) \/ Stained(v) BY <1>0, StainedConcat
<1> HIDE DEF c
<1>5. /\ y \in Seq(ValueTokens) /\ Len(y) = m + n - 1 /\ \A i \in 1 .. m + n - 1 : y[i] = c[i + 1]
  <2>1. Len(g.items) >= 1 /\ Len(g.items) - 1 = m + n - 1 BY <1>0, <1>1, <1>3
  <2> HIDE DEF y
  <2>2. y \in Seq(ValueTokens) /\ Len(y) = Len(g.items) - 1
        /\ \A i \in 1 .. Len(g.items) - 1 : y[i] = g.items[i + 1]
    BY <2>1, InnerType DEF y
  <2> QED BY <1>3, <2>1, <2>2
<1> HIDE DEF x, y, a, m, n
<1>6. /\ z \in Seq(ValueTokens) /\ Len(z) = m - 1 + n
      /\ \A i \in 1 .. m - 1 + n : z[i] = IF i <= m - 1 THEN x[i] ELSE v[i - (m - 1)]
  <2>1. /\ z \in Seq(ValueTokens) /\ Len(z) = Len(x) + Len(v)
        /\ \A i \in 1 .. Len(x) + Len(v) : z[i] = IF i <= Len(x) THEN x[i] ELSE v[i - Len(x)]
    BY <1>2, ConcatProperties
  <2> HIDE DEF z
  <2> QED BY <1>2, <2>1 DEF n
<1> HIDE DEF z
<1>7. y = z
  <2>1. ASSUME NEW i \in 1 .. m + n - 1 PROVE y[i] = z[i]
    <3>1. y[i] = c[i + 1] BY <1>5
    <3>2. CASE i <= m - 1
      <4>1. i \in 1 .. m - 1 /\ i + 1 <= m /\ i + 1 \in 1 .. m + n /\ i \in 1 .. m - 1 + n BY <1>1, <3>2
      <4>2. c[i + 1] = a[i + 1] BY <1>1, <4>1
      <4>3. x[i] = a[i + 1] BY <1>2, <4>1
      <4>4. z[i] = x[i] BY <1>6, <3>2, <4>1
      <4> QED BY <3>1, <4>2, <4>3, <4>4
    <3>3. CASE ~(i <= m - 1)
      <4>1. ~(i + 1 <= m) /\ i + 1 \in 1 .. m + n /\ (i + 1) - m = i - (m - 1) BY <1>1, <3>3
      <4> QED BY <1>1, <1>6, <3>1, <3>3, <4>1
    <3> QED BY <3>2, <3>3
  <2>2. Len(y) = Len(z) /\ Len(y) = m + n - 1 BY <1>1, <1>5, <1>6
  <2> QED BY <1>5, <1>6, <2>1, <2>2, SeqEqual
<1>8. NoneOpen(x) /\ NoneOpen(v) BY <1>0 DEF NoneOpen, Content
<1>9. BlocksOf(z) = BlocksOf(x) + BlocksOf(v) BY <1>2, <1>8, BlocksConcat DEF z
<1>10. Content(z)
  <2>1. Len(z) = (m - 1) + n /\ z[Len(z)] = v[n]
    <3>1. (m - 1) + n \in 1 .. m - 1 + n /\ ~((m - 1) + n <= m - 1) /\ ((m - 1) + n) - (m - 1) = n
      BY <1>0, <1>1
    <3> QED BY <1>6, <3>1
  <2>2. z[1] \notin Closers
    <3>0. 1 \in 1 .. m - 1 + n BY <1>0, <1>1
    <3>1. CASE m = 1
      <4>1. ~(1 <= m - 1) /\ 1 - (m - 1) = 1 BY <3>1
      <4> QED BY <1>6, <3>0, <4>1
    <3>2. CASE m # 1
      <4>1. 1 <= m - 1 /\ x # << >> BY <1>0, <1>1, <1>2, <3>2
      <4> QED BY <1>0, <1>6, <3>0, <4>1 DEF Content
    <3> QED BY <3>1, <3>2
  <2> QED BY <2>1, <2>2 DEF Content, n
<1>11. Len(c) > 1 /\ c[1] = a[1]
  <2>1. 1 \in 1 .. m + n /\ 1 <= m BY <1>0, <1>1
  <2> QED BY <1>0, <1>1, <2>1
<1> QED BY <1>3, <1>4, <1>7, <1>9, <1>10, <1>11 DEF x, y, a

LEMMA FrameBegins ==
  ASSUME NEW o \in Openers
  PROVE  LET f == [kind |-> o, items |-> <<o>>, count |-> 0, cap |-> 0, key |-> FALSE]
         IN f \in Begun /\ Held(f) = 1 /\ ~Stained(f.items) /\ f.items = <<o>> /\ ~HasKey(f)
<1> DEFINE f == [kind |-> o, items |-> <<o>>, count |-> 0, cap |-> 0, key |-> FALSE]
<1>1. o \in ValueTokens BY DEF Openers, ValueTokens
<1>2. f \in Frames /\ f.items = <<o>> /\ f.kind = o /\ f.count = 0 /\ f.cap = 0 /\ ~HasKey(f) BY <1>1 DEF Frames, HasKey
<1>3. Len(f.items) = 1 /\ f.items[1] = o BY <1>2
<1> HIDE DEF f
<1>a. Len(f.items) >= 1 /\ Len(f.items) - 1 = 0 BY <1>3
<1>4. Inner(f) \in Seq(ValueTokens) /\ Len(Inner(f)) = 0 BY <1>2, <1>a, InnerType
<1>5. Inner(f) = << >> BY <1>4, EmptySeq
<1>6. Arrays(f) = 0 BY <1>2 DEF Arrays
<1>7. Held(f) = 1 BY <1>5, <1>6, BlocksOne DEF Held
<1>8. Given(f) = 1 BY <1>2, <1>6, GivenIs
<1>9. ~Stained(f.items) BY <1>2, StainedOne
<1>b. Content(Inner(f)) BY <1>5 DEF Content
<1>c. Fits(f) /\ ~HasItems(f) BY <1>2 DEF Fits, HasItems
<1>10. FrameOk(f) BY <1>2, <1>3, <1>7, <1>8, <1>b, <1>c DEF FrameOk
<1> QED BY <1>2, <1>7, <1>9, <1>10 DEF Begun, f

LEMMA KeyTaken ==
  ASSUME NEW f \in Begun, f.kind = LeftBrace
  PROVE  LET g == [f EXCEPT !.items = @ \o <<"'s'">>, !.key = TRUE]
         IN /\ g \in Begun /\ Held(g) = Held(f) + 2
            /\ Stained(g.items) /\ g.items = f.items \o <<"'s'">> /\ HasKey(g)
<1> DEFINE g == [f EXCEPT !.items = @ \o <<"'s'">>, !.key = TRUE]
           v == <<"'s'">>
<1>0. "'s'" \in ValueTokens /\ "'s'" \notin Closers /\ "'s'" \notin Openers
  BY KindsOfTokens
<1>1. v \in Seq(ValueTokens) /\ v # << >> /\ v[1] \notin Closers /\ v[Len(v)] \notin Openers
  BY <1>0, OneToken
<1>2. f \in Frames /\ FrameOk(f) BY DEF Begun
<1>3. f.items \o v \in Seq(ValueTokens) BY <1>1, <1>2, ConcatProperties DEF Frames
<1>4. g \in Frames /\ g.items = f.items \o v /\ HasKey(g) /\ g.kind = f.kind /\ g.count = f.count /\ g.cap = f.cap
  BY <1>2, <1>3 DEF Frames, HasKey
<1>5. Stained(v) BY StainedOne
<1>6. BlocksOf(v) = 2 BY BlocksOne
<1> HIDE DEF g, v
<1>7. /\ Content(Inner(g)) /\ Len(g.items) > 1 /\ g.items[1] = f.items[1]
      /\ BlocksOf(Inner(g)) = BlocksOf(Inner(f)) + BlocksOf(v)
      /\ Stained(g.items)
  BY <1>1, <1>4, <1>5, InnerGrows
<1>8. Arrays(g) = Arrays(f) BY <1>4 DEF Arrays
<1>9. BlocksOf(Inner(f)) \in Int /\ Arrays(f) \in Int
  BY <1>2, InnerType, WeightsType, BlocksType DEF FrameOk
<1>10. Held(g) = Held(f) + 2
  <2>1. BlocksOf(Inner(g)) = BlocksOf(Inner(f)) + 2 BY <1>6, <1>7
  <2> QED BY <1>8, <1>9, <2>1 DEF Held
<1>11. Len(g.items) >= 1 /\ g.items[1] = g.kind
  <2>1. f.items[1] = f.kind BY <1>2 DEF FrameOk
  <2>2. Len(g.items) \in Nat BY <1>4 DEF Frames
  <2> QED BY <1>4, <1>7, <2>1, <2>2
<1>a. Fits(g) BY <1>2, <1>4 DEF FrameOk, Fits
<1>12. FrameOk(g) BY <1>4, <1>7, <1>11, <1>a DEF FrameOk
<1> QED BY <1>4, <1>7, <1>10, <1>12 DEF Begun, g, v

LEMMA ColonTaken ==
  ASSUME NEW f \in Begun, HasKey(f)
  PROVE  LET g == [f EXCEPT !.items = Append(@, ":")]
         IN /\ g \in Begun /\ Held(g) = Held(f)
            /\ (Stained(g.items) => Stained(f.items)) /\ g.items = f.items \o <<":">> /\ HasKey(g)
<1> DEFINE g == [f EXCEPT !.items = Append(@, ":")]
           v == <<":">>
<1>1. v \in Seq(ValueTokens) /\ v # << >> /\ v[1] \notin Closers /\ v[Len(v)] \notin Openers
  BY KindsOfTokens, OneToken
<1>2. f \in Frames /\ FrameOk(f) /\ f.items \in Seq(ValueTokens) BY DEF Begun, Frames
<1>3. f.items \o v \in Seq(ValueTokens) BY <1>1, <1>2, ConcatProperties
<1>a. Append(f.items, ":") = f.items \o v
  <2>1. ":" \in ValueTokens BY DEF ValueTokens
  <2> QED BY <1>2, <2>1, AppendIsConcat
<1>4. g \in Frames /\ g.items = f.items \o v /\ HasKey(g) /\ g.kind = f.kind /\ g.count = f.count /\ g.cap = f.cap
  BY <1>2, <1>3, <1>a DEF Frames, HasKey
<1>5. ~Stained(v) BY StainedOne
<1>6. BlocksOf(v) = 0 BY BlocksOne
<1> HIDE DEF g, v
<1>7. /\ Content(Inner(g)) /\ Len(g.items) > 1 /\ g.items[1] = f.items[1]
      /\ BlocksOf(Inner(g)) = BlocksOf(Inner(f)) + BlocksOf(v)
      /\ Stained(g.items) <=> Stained(f.items)
  BY <1>1, <1>4, <1>5, InnerGrows
<1>8. Arrays(g) = Arrays(f) BY <1>4 DEF Arrays
<1>9. BlocksOf(Inner(f)) \in Int /\ Arrays(f) \in Int
  BY <1>2, InnerType, WeightsType, BlocksType DEF FrameOk
<1>10. Held(g) = Held(f) BY <1>6, <1>7, <1>8, <1>9 DEF Held
<1>11. Len(g.items) >= 1 /\ g.items[1] = g.kind
  <2>1. f.items[1] = f.kind BY <1>2 DEF FrameOk
  <2>2. Len(g.items) \in Nat BY <1>4 DEF Frames
  <2> QED BY <1>4, <1>7, <2>1, <2>2
<1>12. FrameOk(g)
  <2>1. Stained(f.items) /\ f.kind = LeftBrace BY <1>2 DEF FrameOk
  <2>2. Fits(g) BY <1>2, <1>4 DEF FrameOk, Fits
  <2> QED BY <1>4, <1>7, <1>11, <2>1, <2>2 DEF FrameOk
<1> QED BY <1>4, <1>7, <1>10, <1>12 DEF Begun, g, v

LEMMA ItemTaken ==
  ASSUME NEW f \in Begun, f.kind = LeftBrace => HasKey(f), NEW v, IsValue(v)
  PROVE  LET g == WithItem(f, v)
         IN /\ g \in Begun /\ Held(g) = Held(f) + Arrays(Grown(f)) - Arrays(f) + BlocksOf(v)
            /\ Stained(g.items) <=> Stained(f.items) \/ Stained(v)
            /\ g.items = f.items \o v /\ ~HasKey(g)
<1> DEFINE g == WithItem(f, v)
           cap == IF f.count < f.cap THEN f.cap ELSE IF f.cap = 0 THEN FirstItems ELSE 2 * f.cap
<1>1. v \in Seq(ValueTokens) /\ v # << >> /\ v[1] \notin Closers /\ v[Len(v)] \notin Openers
  BY DEF IsValue
<1>2. f \in Frames /\ FrameOk(f) /\ f.count \in Nat /\ f.cap \in Nat BY DEF Begun, Frames
<1>3. f.items \o v \in Seq(ValueTokens) BY <1>1, <1>2, ConcatProperties DEF Frames
<1>a. FirstItems \in Nat /\ FirstItems > 0 BY JsonAssumption DEF JsonAssumption
<1>b. cap \in Nat /\ f.count + 1 <= cap
  <2>1. f.count <= f.cap /\ (f.cap = 0 <=> f.count = 0) BY <1>2 DEF FrameOk, Fits
  <2>2. CASE f.count < f.cap BY <1>2, <2>2
  <2>3. CASE ~(f.count < f.cap) /\ f.cap = 0 BY <1>2, <1>a, <2>1, <2>3
  <2>4. CASE ~(f.count < f.cap) /\ f.cap # 0
    <3>1. cap = 2 * f.cap /\ f.count = f.cap BY <1>2, <2>1, <2>4
    <3> HIDE DEF cap
    <3> QED BY <1>2, <2>4, <3>1
  <2> QED BY <2>2, <2>3, <2>4
<1>c. Grown(f) = [f EXCEPT !.cap = cap] BY <1>2 DEF Grown, Frames
<1>d. g = [f EXCEPT !.items = @ \o v, !.count = @ + 1, !.cap = cap, !.key = FALSE]
  BY <1>2, <1>c DEF WithItem, Frames
<1>e. Grown(f).cap = cap /\ Grown(f).kind = f.kind BY <1>2, <1>c DEF Frames
<1> HIDE DEF g, cap
<1>4. /\ g \in Frames /\ g.items = f.items \o v /\ ~HasKey(g) /\ g.kind = f.kind
      /\ g.count = f.count + 1 /\ g.cap = cap
  <2>1. f.count + 1 \in Nat BY <1>2
  <2> QED BY <1>2, <1>3, <1>b, <1>d, <2>1 DEF Frames, HasKey
<1>7. /\ Content(Inner(g)) /\ Len(g.items) > 1 /\ g.items[1] = f.items[1]
      /\ BlocksOf(Inner(g)) = BlocksOf(Inner(f)) + BlocksOf(v)
      /\ Stained(g.items) <=> Stained(f.items) \/ Stained(v)
  BY <1>1, <1>4, InnerGrows
<1>8. Arrays(g) = Arrays(Grown(f)) BY <1>4, <1>e DEF Arrays
<1>9. BlocksOf(Inner(f)) \in Int /\ Arrays(f) \in Int /\ Arrays(g) \in Int /\ BlocksOf(v) \in Int
  <2>1. Arrays(g) \in Int
    <3>1. \A h : Arrays(h) \in Int BY DEF Arrays
    <3> QED BY <3>1
  <2> QED BY <1>1, <1>2, <2>1, InnerType, WeightsType, BlocksType DEF FrameOk
<1>10. Held(g) = Held(f) + Arrays(g) - Arrays(f) + BlocksOf(v) BY <1>7, <1>9 DEF Held
<1>11. Len(g.items) >= 1 /\ g.items[1] = g.kind
  <2>1. f.items[1] = f.kind BY <1>2 DEF FrameOk
  <2>2. Len(g.items) \in Nat BY <1>4 DEF Frames
  <2> QED BY <1>4, <1>7, <2>1, <2>2
<1>12. ASSUME ~Stained(g.items) PROVE Held(g) = Given(g)
  <2>1. ~Stained(f.items) /\ ~Stained(v) BY <1>7, <1>12
  <2>2. ~HasKey(f) /\ Held(f) = Given(f) /\ f.kind # LeftBrace BY <1>2, <2>1 DEF FrameOk
  <2>3. v = <<"7">> BY <2>1 DEF IsValue
  <2>4. BlocksOf(v) = 1 BY <2>3, BlocksOne
  <2>5. Given(f) = 1 + Arrays(f) + f.count BY <1>2, <1>9, <2>2, GivenIs
  <2>6. Given(g) = 1 + Arrays(g) + (f.count + 1) BY <1>2, <1>4, <1>9, <2>2, GivenIs
  <2> QED BY <1>2, <1>9, <1>10, <2>2, <2>4, <2>5, <2>6
<1>f. Fits(g) /\ HasItems(g)
  <2>1. g.count \in Nat /\ g.cap \in Nat /\ g.count > 0 /\ g.count <= g.cap BY <1>2, <1>4, <1>b
  <2> QED BY <2>1 DEF Fits, HasItems
<1>13. FrameOk(g) BY <1>4, <1>7, <1>11, <1>12, <1>f DEF FrameOk
<1> QED BY <1>4, <1>7, <1>8, <1>10, <1>13 DEF Begun, g

LEMMA ContainerCloses ==
  ASSUME NEW f \in Begun, ~HasKey(f)
  PROVE  LET v == Append(f.items, Closer[f.kind])
         IN /\ IsValue(v) /\ BlocksOf(v) = Held(f) /\ Stained(v)
            /\ v = f.items \o <<Closer[f.kind]>> /\ v # <<"'s'">>
            /\ v \in {<<"7">>, <<LeftBrace, RightBrace>>, <<"[", "]">>} => ~Stained(f.items)
<1> DEFINE a == f.items
           m == Len(a)
           o == f.kind
           c == Closer[o]
           v == Append(a, c)
           x == Inner(f)
           b == x \o <<c>>
<1>1. f \in Frames /\ m >= 1 /\ Content(x) /\ a \in Seq(ValueTokens) /\ o \in Openers /\ a[1] = o
  BY DEF Begun, FrameOk, Frames
<1>a. (f.cap = 0) <=> ~(m > 1)
  <2>1. f.count \in Nat /\ (HasItems(f) <=> m > 1) /\ Fits(f) BY DEF Begun, FrameOk, Frames
  <2> HIDE DEF m
  <2> QED BY <2>1 DEF HasItems, Fits
<1>2. c \in Closers /\ c \in ValueTokens /\ c \notin Openers
  BY <1>1, CloserIs, KindsOfTokens
<1>3. x \in Seq(ValueTokens) /\ Len(x) = m - 1 /\ \A i \in 1 .. m - 1 : x[i] = a[i + 1]
  BY <1>1, InnerType
<1>4. <<c>> \in Seq(ValueTokens) /\ Len(<<c>>) = 1 /\ <<c>>[1] = c BY <1>2
<1>5. v = a \o <<c>> BY <1>1, <1>2, AppendIsConcat
<1>6. Stained(<<c>>) BY <1>2, StainedOne
<1>7. m \in Nat BY <1>1
<1> HIDE DEF x, c
<1>8. /\ b \in Seq(ValueTokens) /\ Len(b) = m
      /\ \A i \in 1 .. m : b[i] = IF i <= m - 1 THEN x[i] ELSE c
  BY <1>1, <1>2, <1>3, <1>4
<1>9. /\ v \in Seq(ValueTokens) /\ Len(v) = m + 1 /\ v[m + 1] = c
      /\ \A i \in 1 .. m : v[i] = a[i]
  BY <1>1, <1>2, AppendProperties
<1>10. v = <<o>> \o b
  <2> DEFINE w == <<o>> \o b
  <2>a. o \in ValueTokens BY <1>1 DEF Openers, ValueTokens
  <2>0. <<o>> \in Seq(ValueTokens) BY <2>a, OneToken
  <2> HIDE DEF b
  <2>1. /\ w \in Seq(ValueTokens) /\ Len(w) = 1 + m
        /\ \A i \in 1 .. 1 + m : w[i] = IF i <= 1 THEN o ELSE b[i - 1]
    BY <1>8, <2>0
  <2> HIDE DEF v, w, m, a, o
  <2>2. ASSUME NEW i \in 1 .. m + 1 PROVE v[i] = w[i]
    <3>1. CASE i = 1
      <4>1. 1 \in 1 .. m /\ 1 \in 1 .. 1 + m /\ 1 <= 1 BY <1>1, <1>7
      <4> QED BY <1>1, <1>9, <2>1, <3>1, <4>1
    <3>2. CASE i # 1 /\ i # m + 1
      <4>1. /\ i \in 1 .. m /\ i \in 1 .. 1 + m /\ ~(i <= 1) /\ i - 1 \in 1 .. m /\ i - 1 \in 1 .. m - 1
            /\ i - 1 <= m - 1 /\ (i - 1) + 1 = i
        BY <1>1, <1>7, <3>2
      <4>2. v[i] = a[i] /\ w[i] = b[i - 1] BY <1>9, <2>1, <4>1
      <4>3. b[i - 1] = x[i - 1] BY <1>8, <4>1
      <4>4. x[i - 1] = a[i] BY <1>3, <4>1
      <4> QED BY <4>2, <4>3, <4>4
    <3>3. CASE i = m + 1
      <4>1. ~(i <= 1) /\ i \in 1 .. 1 + m /\ i - 1 = m /\ m \in 1 .. m /\ ~(m <= m - 1) BY <1>1, <1>7, <3>3
      <4>2. v[i] = c /\ w[i] = b[m] BY <1>9, <2>1, <3>3, <4>1
      <4>3. b[m] = c BY <1>8, <4>1
      <4> QED BY <4>2, <4>3
    <3> QED BY <3>1, <3>2, <3>3
  <2>3. Len(v) = m + 1 /\ Len(w) = m + 1 BY <1>7, <1>9, <2>1
  <2>4. v = w BY <1>9, <2>1, <2>2, <2>3, SeqEqual
  <2> QED BY <2>4 DEF w
<1>11. NoneOpen(x) /\ NoneOpen(<<c>>) BY <1>1, <1>2, <1>4 DEF NoneOpen, Content
<1>12. BlocksOf(b) = BlocksOf(x) /\ BlocksOf(x) \in Int
  <2>1. BlocksOf(b) = BlocksOf(x) + BlocksOf(<<c>>) BY <1>3, <1>4, <1>11, BlocksConcat
  <2>2. BlocksOf(<<c>>) = 0 BY <1>2, BlocksOne
  <2> QED BY <1>3, <2>1, <2>2, WeightsType
<1>13. b # << >> /\ b[1] = (IF m = 1 THEN c ELSE x[1]) /\ b[Len(b)] = c
  <2> HIDE DEF b, m
  <2>1. 1 \in 1 .. m /\ m \in 1 .. m /\ ~(m <= m - 1) /\ (1 <= m - 1 <=> m # 1) BY <1>1, <1>7
  <2> QED BY <1>1, <1>8, <2>1
<1>14. b[1] \in Closers <=> m = 1
  <2>1. CASE m = 1 BY <1>2, <1>13, <2>1
  <2>2. CASE m # 1
    <3>1. x # << >>
      <4> HIDE DEF m
      <4>1. Len(x) > 0 BY <1>1, <1>3, <1>7, <2>2
      <4> QED BY <4>1
    <3> QED BY <1>1, <1>13, <2>2, <3>1 DEF Content
  <2> QED BY <2>1, <2>2
<1>15. BlocksOf(v) = Held(f)
  <2> DEFINE N == IF b[1] \in Closers THEN 1 ELSE IF o = LeftBrace THEN 3 ELSE 2
  <2>1. NoneOpen(b) BY <1>2, <1>13 DEF NoneOpen
  <2>2. BlocksOf(v) = N + BlocksOf(b)
    <3> HIDE DEF b, v
    <3> QED BY <1>1, <1>8, <1>10, <1>13, <2>1, BlocksOpened
  <2>3. N = 1 + Arrays(f)
    <3>2. o = LeftBrace \/ o = "[" BY <1>1 DEF Openers
    <3> HIDE DEF b, m
    <3>1. m = 1 <=> f.cap = 0 BY <1>1, <1>7, <1>a
    <3> QED BY <1>14, <3>1, <3>2 DEF Arrays
  <2> HIDE DEF b, N
  <2> QED BY <1>12, <2>2, <2>3 DEF Held, x
<1>16. Stained(v)
  <2>1. Stained(a \o <<c>>) BY <1>1, <1>4, <1>6, StainedConcat
  <2> QED BY <1>5, <2>1
<1>17. v # << >> /\ v[1] = o /\ v[Len(v)] = c /\ v # <<"'s'">>
  <2>1. 1 \in 1 .. m BY <1>1, <1>7
  <2>2. v[1] = o /\ Len(v) = m + 1 /\ v[m + 1] = c BY <1>1, <1>9, <2>1
  <2> HIDE DEF v
  <2>3. Len(v) > 1 BY <1>1, <1>7, <2>2
  <2> QED BY <2>2, <2>3
<1>18. o \notin Closers BY <1>1, KindsOfTokens
<1>19. IsValue(v) BY <1>2, <1>9, <1>16, <1>17, <1>18 DEF IsValue
<1>20. ASSUME v \in {<<"7">>, <<LeftBrace, RightBrace>>, <<"[", "]">>} PROVE ~Stained(a)
  <2>1. Len(v) <= 2
    <3> HIDE DEF v
    <3>1. Len(<<"7">>) <= 2 /\ Len(<<LeftBrace, RightBrace>>) <= 2 /\ Len(<<"[", "]">>) <= 2 OBVIOUS
    <3> QED BY <1>20, <3>1
  <2>2. m = 1
    <3> HIDE DEF m, v
    <3> QED BY <1>1, <1>7, <1>9, <2>1
  <2>3. DOMAIN a = {1} BY <1>1, <2>2
  <2> QED BY <1>1, <1>18, <2>3, KindsOfTokens DEF Stained
<1> QED BY <1>5, <1>15, <1>16, <1>17, <1>19, <1>20 DEF c

-----------------------------------------------------------------------------
(***************************************************************************)
(* The stack of containers, and a value delivered to it.                   *)
(***************************************************************************)

AnyStained(s) == \E i \in DOMAIN s : Stained(s[i].items)

LEMMA StackTypes ==
  ASSUME NEW s \in Seq(Begun)
  PROVE  Joined(s) \in Seq(ValueTokens) /\ HeldBy(s) \in Int /\ GivenBy(s) \in Int
<1>1. "[" \in Openers BY DEF Openers
<1>2. PICK x : x \in Begun BY <1>1, FrameBegins
<1> QED BY <1>2, JoinedAppend, BlocksBy

LEMMA StackGrows ==
  ASSUME NEW s \in Seq(Begun), NEW x \in Begun, NEW t, t = Append(s, x)
  PROVE  /\ t \in Seq(Begun) /\ t # << >> /\ t[Len(t)] = x
         /\ Joined(t) = Joined(s) \o x.items
         /\ HeldBy(t) = HeldBy(s) + Held(x) /\ GivenBy(t) = GivenBy(s) + Given(x)
         /\ AnyStained(t) <=> AnyStained(s) \/ Stained(x.items)
<1> DEFINE n == Len(s)
<1>1. /\ n \in Nat /\ t \in Seq(Begun) /\ Len(t) = n + 1 /\ t[n + 1] = x /\ \A i \in 1 .. n : t[i] = s[i]
      /\ DOMAIN s = 1 .. n /\ DOMAIN t = 1 .. n + 1 /\ t # << >>
  OBVIOUS
<1> HIDE DEF n
<1>2. Joined(t) = Joined(s) \o x.items BY JoinedAppend
<1>3. HeldBy(t) = HeldBy(s) + Held(x) /\ GivenBy(t) = GivenBy(s) + Given(x) BY BlocksBy
<1>4. ASSUME AnyStained(t) PROVE AnyStained(s) \/ Stained(x.items)
  <2>1. PICK i \in 1 .. n + 1 : Stained(t[i].items) BY <1>1, <1>4 DEF AnyStained
  <2>2. i \in 1 .. n \/ i = n + 1 BY <1>1
  <2> QED BY <1>1, <2>1, <2>2 DEF AnyStained
<1>5. ASSUME AnyStained(s) PROVE AnyStained(t)
  <2>1. PICK i \in 1 .. n : Stained(s[i].items) BY <1>1, <1>5 DEF AnyStained
  <2>2. i \in 1 .. n + 1 BY <1>1
  <2> QED BY <1>1, <2>1, <2>2 DEF AnyStained
<1>6. ASSUME Stained(x.items) PROVE AnyStained(t)
  <2>1. n + 1 \in 1 .. n + 1 BY <1>1
  <2> QED BY <1>1, <1>6, <2>1 DEF AnyStained
<1> QED BY <1>1, <1>2, <1>3, <1>4, <1>5, <1>6

LEMMA StackSplits ==
  ASSUME NEW s \in Seq(Begun), s # << >>
  PROVE  /\ Front(s) \in Seq(Begun) /\ s[Len(s)] \in Begun
         /\ s = Append(Front(s), s[Len(s)])
<1> DEFINE n == Len(s)
           t == Front(s)
<1>1. n \in Nat /\ n > 0 /\ \A i \in 1 .. n : s[i] \in Begun OBVIOUS
<1> HIDE DEF n
<1>2. /\ t \in Seq(Begun) /\ Len(t) = n - 1 /\ \A i \in 1 .. n - 1 : t[i] = s[i]
  <2>1. t = SubSeq(s, 1, n - 1) BY DEF Front, n
  <2>2. \A i \in 1 .. n - 1 : s[i] \in Begun BY <1>1
  <2> HIDE DEF t
  <2>3. n - 1 \in Int /\ (n - 1) - 1 + 1 = n - 1 BY <1>1
  <2>4. /\ t \in Seq(Begun) /\ Len(t) = (IF 1 <= n - 1 THEN n - 1 - 1 + 1 ELSE 0)
        /\ \A i \in 1 .. n - 1 - 1 + 1 : t[i] = s[1 + i - 1]
    BY <2>1, <2>2, <2>3, SubSeqProperties
  <2>5. \A i \in 1 .. n - 1 : 1 + i - 1 = i BY <1>1
  <2> QED BY <1>1, <2>3, <2>4, <2>5
<1>3. s[n] \in Begun BY <1>1
<1> HIDE DEF t
<1>4. s = Append(t, s[n])
  <2> DEFINE x == s[n]
             u == Append(t, x)
  <2> HIDE DEF x
  <2>1. u \in Seq(Begun) /\ Len(u) = n /\ u[n] = x /\ \A i \in 1 .. n - 1 : u[i] = t[i]
    BY <1>1, <1>2, <1>3 DEF x
  <2> HIDE DEF u
  <2>2. \A i \in 1 .. n : i = n \/ i \in 1 .. n - 1 BY <1>1
  <2>3. \A i \in 1 .. n : s[i] = u[i] BY <1>2, <2>1, <2>2 DEF x
  <2>4. s = u BY <2>1, <2>3, SeqEqual DEF n
  <2> QED BY <2>4 DEF u, x
<1> QED BY <1>2, <1>3, <1>4 DEF n, t

LEMMA UnstainedGiven ==
  ASSUME NEW s \in Seq(Begun), ~AnyStained(s)
  PROVE  HeldBy(s) = GivenBy(s)
<1>1. ASSUME NEW i \in DOMAIN s PROVE Held(s[i]) = Given(s[i])
  <2>1. s[i] \in Begun /\ ~Stained(s[i].items) BY DEF AnyStained
  <2> QED BY <2>1 DEF Begun, FrameOk
<1>2. [i \in DOMAIN s |-> Held(s[i])] = [i \in DOMAIN s |-> Given(s[i])] BY <1>1
<1> QED BY <1>2 DEF HeldBy, GivenBy

PlainValues == {<<"7">>, <<LeftBrace, RightBrace>>, <<"[", "]">>}

LEMMA PlainBlocks ==
  ASSUME NEW v \in PlainValues
  PROVE  BlocksOf(v) = 1
<1>1. ASSUME NEW o \in Openers, NEW c \in Closers, v = <<o, c>> PROVE BlocksOf(v) = 1
  <2>1. c \in ValueTokens /\ c \notin Openers BY KindsOfTokens
  <2>2. <<c>> \in Seq(ValueTokens) /\ <<c>> # << >> /\ Len(<<c>>) = 1 /\ <<c>>[1] = c BY <2>1, OneToken
  <2>3. NoneOpen(<<c>>) BY <2>1, <2>2 DEF NoneOpen
  <2>4. v = <<o>> \o <<c>>
    <3> DEFINE w == <<o>> \o <<c>>
    <3>0. o \in ValueTokens BY KindsOfTokens
    <3>1. w \in Seq(ValueTokens) /\ Len(w) = 2 /\ w[1] = o /\ w[2] = c BY <2>2, <3>0
    <3>2. v \in Seq(ValueTokens) /\ Len(v) = 2 /\ v[1] = o /\ v[2] = c BY <1>1, <2>1, <3>0
    <3> HIDE DEF w
    <3>3. \A i \in 1 .. 2 : v[i] = w[i] BY <3>1, <3>2
    <3>4. v = w BY <3>1, <3>2, <3>3, SeqEqual
    <3> QED BY <3>4 DEF w
  <2>5. BlocksOf(<<c>>) = 0 BY BlocksOne
  <2>6. BlocksOf(<<o>> \o <<c>>) = 1 + BlocksOf(<<c>>) BY <2>2, <2>3, BlocksOpened
  <2> DEFINE w == <<o>> \o <<c>>
             b == BlocksOf(<<c>>)
  <2>7. v = w /\ b = 0 /\ BlocksOf(w) = 1 + b BY <2>4, <2>5, <2>6
  <2> HIDE DEF w, b
  <2> QED BY <2>7
<1>2. LeftBrace \in Openers /\ "[" \in Openers /\ RightBrace \in Closers /\ "]" \in Closers
  BY DEF Openers, Closers
<1>3. v = <<"7">> \/ v = <<LeftBrace, RightBrace>> \/ v = <<"[", "]">> BY DEF PlainValues
<1> QED BY <1>1, <1>2, <1>3, BlocksOne

-----------------------------------------------------------------------------
(***************************************************************************)
(* What comes of a finished value.                                         *)
(***************************************************************************)
Returned(v, s) == jat' = "rest" /\ s = << >> /\ jroot' = v /\ jlive' = BlocksOf(v)

Taken(v, s) ==
  /\ jat' \in {"colon", "separator"} /\ s # << >>
  /\ stack' \in Seq(Begun) /\ stack' # << >>
  /\ HasKey(stack'[Len(stack')]) <=> jat' = "colon"
  /\ jat' = "colon" => v = <<"'s'">>
  /\ Joined(stack') = Joined(s) \o v
  /\ jlive' = HeldBy(stack')
  /\ AnyStained(stack') <=> AnyStained(s) \/ Stained(v)
  /\ Stained(v) => Stained(stack'[Len(stack')].items)

Refused(v, s) ==
  /\ jat' = "failed"
  /\ ~jheld' => /\ ~Stained(text) /\ v \in PlainValues
                /\ ~AnyStained(s) => jlive' = 0

LEMMA Delivered ==
  ASSUME NEW s \in Seq(Begun), NEW v, IsValue(v), Deliver(v, s, HeldBy(s) + BlocksOf(v))
  PROVE  Returned(v, s) \/ Taken(v, s) \/ Refused(v, s)
<1> DEFINE h == HeldBy(s) + BlocksOf(v)
<1>0. HeldBy(s) \in Int /\ GivenBy(s) \in Int /\ Joined(s) \in Seq(ValueTokens) BY StackTypes
<1>1. v \in Seq(ValueTokens) /\ BlocksOf(v) \in Int BY WeightsType DEF IsValue
<1>2. CASE s = << >>
  <2>1. HeldBy(s) = 0 BY <1>2, BlocksByNone
  <2>2. jat' = "rest" /\ jroot' = v /\ jlive' = h BY <1>2 DEF Deliver
  <2> QED BY <1>1, <1>2, <2>1, <2>2 DEF Returned
<1>3. CASE s # << >>
  <2> DEFINE t == Front(s)
             f == s[Len(s)]
             KeyDue == f.kind = LeftBrace /\ ~f.key
             g1 == [f EXCEPT !.items = @ \o v, !.key = TRUE]
             g2 == WithItem(f, v)
  <2>1. t \in Seq(Begun) /\ f \in Begun /\ s = Append(t, f) BY <1>3, StackSplits
  <2>2. /\ Joined(s) = Joined(t) \o f.items /\ HeldBy(s) = HeldBy(t) + Held(f)
        /\ AnyStained(s) <=> AnyStained(t) \/ Stained(f.items)
    <3> HIDE DEF t, f
    <3> QED BY <2>1, StackGrows
  <2>3. \/ /\ KeyDue /\ v = <<"'s'">> /\ stack' = Append(t, g1) /\ jat' = "colon" /\ jlive' = h
        \/ /\ ~KeyDue /\ stack' = Append(t, g2) /\ jat' = "separator"
           /\ jlive' = h + Arrays(Grown(f)) - Arrays(f)
        \/ Fails(s, h - 1, v \notin PlainValues)
    BY <1>3 DEF Deliver, PlainValues
  <2>4. /\ Joined(t) \in Seq(ValueTokens) /\ HeldBy(t) \in Int /\ Held(f) \in Int /\ Arrays(f) \in Int
        /\ f.items \in Seq(ValueTokens)
    BY <2>1, StackTypes, BlocksType DEF Begun, Frames
  <2>5. Joined(s) \o v = Joined(t) \o (f.items \o v)
    <3> DEFINE a == Joined(t)
               b == f.items
    <3>1. a \in Seq(ValueTokens) /\ b \in Seq(ValueTokens) /\ Joined(s) = a \o b BY <2>2, <2>4
    <3> HIDE DEF a, b
    <3>2. (a \o b) \o v = a \o (b \o v) BY <1>1, <3>1, ConcatAssociative
    <3>3. Joined(s) \o v = a \o (b \o v) BY <3>1, <3>2
    <3> QED BY <3>3 DEF a, b
  <2>6. CASE KeyDue /\ v = <<"'s'">> /\ stack' = Append(t, g1) /\ jat' = "colon" /\ jlive' = h
    <3>1. f.kind = LeftBrace /\ v = <<"'s'">> BY <2>6
    <3>2. /\ g1 \in Begun /\ Held(g1) = Held(f) + 2 /\ Stained(g1.items)
          /\ g1.items = f.items \o v /\ HasKey(g1)
      <4> HIDE DEF f
      <4> QED BY <2>1, <3>1, KeyTaken
    <3>3. BlocksOf(v) = 2 /\ Stained(v) BY <3>1, BlocksOne, StainedOne
    <3>0. stack' = Append(t, g1) /\ jat' = "colon" /\ jlive' = h BY <2>6
    <3> HIDE DEF g1, t, f, KeyDue
    <3>4. /\ stack' \in Seq(Begun) /\ stack' # << >> /\ stack'[Len(stack')] = g1
          /\ Joined(stack') = Joined(t) \o g1.items
          /\ HeldBy(stack') = HeldBy(t) + Held(g1)
          /\ AnyStained(stack') <=> AnyStained(t) \/ Stained(g1.items)
      <4>1. t \in Seq(Begun) /\ g1 \in Begun /\ stack' = Append(t, g1) BY <2>1, <3>0, <3>2
      <4> QED BY <4>1, StackGrows
    <3>5. jlive' = HeldBy(stack') BY <2>2, <2>4, <3>0, <3>2, <3>3, <3>4
    <3>6. Joined(stack') = Joined(s) \o v BY <2>5, <3>2, <3>4
    <3>7. HasKey(stack'[Len(stack')]) /\ Stained(stack'[Len(stack')].items) /\ AnyStained(stack')
      BY <3>2, <3>4
    <3>8. Taken(v, s) BY <1>3, <3>0, <3>1, <3>3, <3>4, <3>5, <3>6, <3>7 DEF Taken
    <3> QED BY <3>8
  <2>7. CASE /\ ~KeyDue /\ stack' = Append(t, g2) /\ jat' = "separator"
             /\ jlive' = h + Arrays(Grown(f)) - Arrays(f)
    <3>1. f.kind = LeftBrace => HasKey(f) BY <2>7 DEF HasKey
    <3>2. /\ g2 \in Begun /\ Held(g2) = Held(f) + Arrays(Grown(f)) - Arrays(f) + BlocksOf(v)
          /\ Stained(g2.items) <=> Stained(f.items) \/ Stained(v)
          /\ g2.items = f.items \o v /\ ~HasKey(g2)
      <4> HIDE DEF f
      <4> QED BY <2>1, <3>1, ItemTaken
    <3>3. Arrays(Grown(f)) \in Int
      <4>1. \A x : Arrays(x) \in Int BY DEF Arrays
      <4> QED BY <4>1
    <3> HIDE DEF g2, t, f
    <3>4. /\ stack' \in Seq(Begun) /\ stack' # << >> /\ stack'[Len(stack')] = g2
          /\ Joined(stack') = Joined(t) \o g2.items
          /\ HeldBy(stack') = HeldBy(t) + Held(g2)
          /\ AnyStained(stack') <=> AnyStained(t) \/ Stained(g2.items)
      <4>1. t \in Seq(Begun) /\ g2 \in Begun /\ stack' = Append(t, g2) BY <2>1, <2>7, <3>2
      <4> QED BY <4>1, StackGrows
    <3>5. jlive' = HeldBy(stack')
      <4>1. h = HeldBy(t) + Held(f) + BlocksOf(v) BY <2>2
      <4>2. HeldBy(stack') = HeldBy(t) + (Held(f) + Arrays(Grown(f)) - Arrays(f) + BlocksOf(v)) BY <3>2, <3>4
      <4>3. jlive' = h + Arrays(Grown(f)) - Arrays(f) BY <2>7
      <4> QED BY <1>1, <2>4, <3>3, <4>1, <4>2, <4>3
    <3>6. Joined(stack') = Joined(s) \o v BY <2>5, <3>2, <3>4
    <3> QED BY <1>3, <2>2, <2>7, <3>2, <3>4, <3>5, <3>6 DEF Taken
  <2>8. CASE Fails(s, h - 1, v \notin PlainValues)
    <3>1. /\ jat' = "failed" /\ jlive' = h - 1 - GivenBy(s)
          /\ jheld' = (v \notin PlainValues \/ Stained(text))
      BY <2>8 DEF Fails, GivenBy, Stained
    <3>2. ASSUME ~jheld', ~AnyStained(s) PROVE jlive' = 0
      <4>1. HeldBy(s) = GivenBy(s) BY <3>2, UnstainedGiven
      <4>2. BlocksOf(v) = 1 BY <3>1, <3>2, PlainBlocks
      <4> QED BY <1>0, <3>1, <4>1, <4>2
    <3> QED BY <3>1, <3>2 DEF Refused
  <2> QED BY <2>3, <2>6, <2>7, <2>8
<1> QED BY <1>2, <1>3

-----------------------------------------------------------------------------
(***************************************************************************)
(* The invariant of the parser: what the containers hold is the text, and  *)
(* closers that were not read; the blocks live are those of what they      *)
(* hold; and what they give back is all of it, unless a string or a        *)
(* finished container hangs on one of them.                                *)
(***************************************************************************)

Reading == jat \in {"value", "loop", "separator", "colon"}

\* Past the end of the text only containers are closed.
AtEnd == head = TextEnd /\ jat \in {"loop", "separator"}

\* What the containers hold is the text, and then closers that were not read.
TextRead(w) == \E u \in Seq(Closers) : w = text \o u /\ (u # << >> => jerror /\ AtEnd)

ReadingOk == Reading =>
  /\ stack \in Seq(Begun) /\ jlive = HeldBy(stack)
  /\ text \in Seq(ValueTokens) /\ TextRead(Joined(stack))
  /\ jat # "value" => stack # << >>
  /\ stack # << >> => (HasKey(stack[Len(stack)]) <=> jat \in {"value", "colon"})
  /\ AnyStained(stack) => Stained(text) \/ (AtEnd /\ Stained(stack[Len(stack)].items))

ParsedOk == Parsed =>
  /\ IsValue(jroot) /\ text \in Seq(ValueTokens) /\ jlive = BlocksOf(jroot)
  /\ \E u \in Seq(Closers) : jroot = text \o u /\ (u # << >> => jerror)

EndedOk == /\ jat = "failed" /\ ~jheld => jlive = 0
           /\ jat = "gone" => jlive = 0

ParserOk == ReadingOk /\ ParsedOk /\ EndedOk

\* What the delivery of a value leaves of the text.
Accounted(v, s) ==
  /\ text' \in Seq(ValueTokens)
  /\ \E u \in Seq(Closers) : /\ Joined(s) \o v = text' \o u
                             /\ u # << >> => jerror' /\ head' = TextEnd /\ v # <<"'s'">>
  /\ AnyStained(s) \/ Stained(v) => Stained(text') \/ (head' = TextEnd /\ Stained(v) /\ v # <<"'s'">>)

LEMMA ValueArrives ==
  ASSUME NEW s \in Seq(Begun), NEW v, IsValue(v), Deliver(v, s, HeldBy(s) + BlocksOf(v)),
         jat' # "failed" => Accounted(v, s),
         v \in PlainValues /\ ~Stained(text) => ~AnyStained(s)
  PROVE  ParserOk'
<1>1. Returned(v, s) \/ Taken(v, s) \/ Refused(v, s) BY Delivered
<1>2. CASE Refused(v, s)
  <2>1. jat' = "failed" /\ (~jheld' => jlive' = 0) BY <1>2 DEF Refused
  <2> QED BY <2>1 DEF ParserOk, ReadingOk, ParsedOk, EndedOk, Reading, Parsed
<1>3. CASE Returned(v, s)
  <2>1. jat' = "rest" /\ s = << >> /\ jroot' = v /\ jlive' = BlocksOf(v) BY <1>3 DEF Returned
  <2>2. Accounted(v, s) BY <2>1
  <2>3. PICK u \in Seq(Closers) : Joined(s) \o v = text' \o u /\ (u # << >> => jerror')
    BY <2>2 DEF Accounted
  <2>4. Joined(s) \o v = v
    <3>1. Joined(s) = << >> /\ v \in Seq(ValueTokens) BY <2>1, JoinedNone DEF IsValue
    <3> QED BY <3>1, ConcatEmptySeq
  <2>5. ParsedOk' BY <2>1, <2>2, <2>3, <2>4 DEF ParsedOk, Accounted
  <2> QED BY <2>1, <2>5 DEF ParserOk, ReadingOk, EndedOk, Reading
<1>4. CASE Taken(v, s)
  <2>1. /\ jat' \in {"colon", "separator"}
        /\ stack' \in Seq(Begun) /\ stack' # << >>
        /\ HasKey(stack'[Len(stack')]) <=> jat' = "colon"
        /\ jat' = "colon" => v = <<"'s'">>
        /\ Joined(stack') = Joined(s) \o v
        /\ jlive' = HeldBy(stack')
        /\ AnyStained(stack') <=> AnyStained(s) \/ Stained(v)
        /\ Stained(v) => Stained(stack'[Len(stack')].items)
    BY <1>4 DEF Taken
  <2>2. Accounted(v, s) BY <2>1
  <2>3. PICK u \in Seq(Closers) :
          /\ Joined(s) \o v = text' \o u
          /\ u # << >> => jerror' /\ head' = TextEnd /\ v # <<"'s'">>
    BY <2>2 DEF Accounted
  <2>4. TextRead(Joined(stack))'
    <3>1. u # << >> => jerror' /\ AtEnd' BY <2>1, <2>3 DEF AtEnd
    <3> QED BY <2>1, <2>3, <3>1 DEF TextRead
  <2>5. AnyStained(stack') => Stained(text') \/ (AtEnd' /\ Stained(stack'[Len(stack')].items))
    BY <2>1, <2>2 DEF Accounted, AtEnd
  <2>6. ReadingOk' BY <2>1, <2>2, <2>4, <2>5 DEF ReadingOk, Accounted
  <2> QED BY <2>1, <2>6 DEF ParserOk, ParsedOk, EndedOk, Parsed
<1> QED BY <1>1, <1>2, <1>3, <1>4

\* A token that is read goes to the end of the text.
LEMMA TextGrows ==
  ASSUME NEW t \in ValueTokens, text \in Seq(ValueTokens)
  PROVE  /\ Append(text, t) \in Seq(ValueTokens) /\ Append(text, t) = text \o <<t>>
         /\ Stained(text) \/ Stained(<<t>>) <=> Stained(Append(text, t))
<1>1. <<t>> \in Seq(ValueTokens) BY OneToken
<1>2. Append(text, t) = text \o <<t>> BY AppendIsConcat
<1>3. Append(text, t) \in Seq(ValueTokens) BY AppendProperties
<1>4. Stained(text \o <<t>>) <=> Stained(text) \/ Stained(<<t>>) BY <1>1, StainedConcat
<1> QED BY <1>2, <1>3, <1>4

\* Before its end nothing is held that was not read.
LEMMA AllRead ==
  ASSUME ReadingOk, Reading, head # TextEnd
  PROVE  /\ stack \in Seq(Begun) /\ jlive = HeldBy(stack) /\ text \in Seq(ValueTokens)
         /\ Joined(stack) = text /\ (AnyStained(stack) => Stained(text))
         /\ stack # << >> => (HasKey(stack[Len(stack)]) <=> jat \in {"value", "colon"})
<1>1. /\ stack \in Seq(Begun) /\ jlive = HeldBy(stack) /\ text \in Seq(ValueTokens)
      /\ TextRead(Joined(stack))
      /\ stack # << >> => (HasKey(stack[Len(stack)]) <=> jat \in {"value", "colon"})
      /\ AnyStained(stack) => Stained(text)
  BY DEF ReadingOk, AtEnd
<1>2. Joined(stack) = text
  <2>1. PICK u \in Seq(Closers) : Joined(stack) = text \o u /\ u = << >> BY <1>1 DEF TextRead, AtEnd
  <2> QED BY <1>1, <2>1, ConcatEmptySeq
<1> QED BY <1>1, <1>2

\* A value of one token.
LEMMA TokenArrives ==
  ASSUME ReadingOk, Reading, head # TextEnd, NEW t \in {"7", "'s'"},
         Deliver(<<t>>, stack, jlive + BlocksOf(<<t>>)), Onwards(t)
  PROVE  ParserOk'
<1> DEFINE v == <<t>>
<1>1. /\ stack \in Seq(Begun) /\ jlive = HeldBy(stack) /\ text \in Seq(ValueTokens)
      /\ Joined(stack) = text /\ (AnyStained(stack) => Stained(text))
  BY AllRead
<1>2. t \in ValueTokens /\ t \notin Closers /\ t \notin Openers BY KindsOfTokens
<1>3. IsValue(v)
  <2>1. v \in Seq(ValueTokens) /\ v # << >> /\ Len(v) = 1 /\ v[1] = t BY <1>2, OneToken
  <2>2. ~Stained(v) => t = "7" BY StainedOne
  <2> QED BY <1>2, <2>1, <2>2 DEF IsValue
<1>4. ASSUME jat' # "failed" PROVE Accounted(v, stack)
  <2>1. text' = Append(text, t) BY <1>4 DEF Onwards
  <2>2. << >> \in Seq(Closers) /\ text' \in Seq(ValueTokens) /\ text' = text \o v
        /\ (Stained(text) \/ Stained(v) <=> Stained(text'))
    BY <1>1, <1>2, <2>1, TextGrows
  <2>3. Joined(stack) \o v = text' \o << >> BY <1>1, <2>2, ConcatEmptySeq
  <2> HIDE DEF v
  <2> QED BY <1>1, <2>2, <2>3 DEF Accounted
<1>5. Deliver(v, stack, HeldBy(stack) + BlocksOf(v)) BY <1>1
<1> HIDE DEF v
<1> QED BY <1>1, <1>3, <1>4, <1>5, ValueArrives

LEMMA NumberStep == ASSUME ParserOk, ParseNumber PROVE ParserOk'
<1>1. Reading /\ head = "7" /\ Deliver(<<"7">>, stack, jlive + 1) /\ Onwards("7")
  BY DEF ParseNumber, Asked, Reading
<1>2. head # TextEnd /\ ReadingOk BY <1>1 DEF TextEnd, ParserOk
<1>3. BlocksOf(<<"7">>) = 1 BY BlocksOne
<1> QED BY <1>1, <1>2, <1>3, TokenArrives

LEMMA StringStep == ASSUME ParserOk, ParseString PROVE ParserOk'
<1>1. Reading /\ head = "'s'" /\ Deliver(<<"'s'">>, stack, jlive + 2) /\ Onwards("'s'")
  BY DEF ParseString, Quoted, Asked, Reading
<1>2. head # TextEnd /\ ReadingOk BY <1>1 DEF TextEnd, ParserOk
<1>3. BlocksOf(<<"'s'">>) = 2 BY BlocksOne
<1> QED BY <1>1, <1>2, <1>3, TokenArrives

LEMMA CloseStep == ASSUME ParserOk, CloseContainer PROVE ParserOk'
<1> DEFINE f == stack[Len(stack)]
           s == Front(stack)
           c == Closer[f.kind]
           v == Append(f.items, c)
<1>1. /\ jat = "loop" /\ Deliver(v, s, jlive)
      /\ \/ head = c /\ Onwards(head)
         \/ /\ head = TextEnd /\ jerror' /\ head' = head
            /\ text' = (IF jat' = "failed" THEN << >> ELSE text)
  BY DEF CloseContainer
<1>2. /\ stack \in Seq(Begun) /\ jlive = HeldBy(stack) /\ text \in Seq(ValueTokens)
      /\ TextRead(Joined(stack)) /\ stack # << >> /\ ~HasKey(f)
      /\ AnyStained(stack) => Stained(text) \/ (head = TextEnd /\ Stained(f.items))
  BY <1>1 DEF ParserOk, ReadingOk, Reading, AtEnd
<1>3. s \in Seq(Begun) /\ f \in Begun /\ stack = Append(s, f) BY <1>2, StackSplits
<1>4. /\ IsValue(v) /\ BlocksOf(v) = Held(f) /\ Stained(v)
      /\ v = f.items \o <<c>> /\ v # <<"'s'">>
      /\ v \in PlainValues => ~Stained(f.items)
  <2> HIDE DEF f
  <2> QED BY <1>2, <1>3, ContainerCloses DEF PlainValues
<1>5. f.kind \in Openers /\ f.items \in Seq(ValueTokens) BY <1>3 DEF Begun, Frames
<1>6. c \in Closers /\ c \in ValueTokens /\ c # TextEnd
  <2>1. c \in Closers BY <1>5, CloserIs
  <2>2. RightBrace # "end" BY Zenon DEF RightBrace
  <2> QED BY <2>1, <2>2, KindsOfTokens DEF Closers, TextEnd
<1> HIDE DEF f, s, c, v
<1>7. /\ Joined(stack) = Joined(s) \o f.items /\ HeldBy(stack) = HeldBy(s) + Held(f)
      /\ AnyStained(stack) <=> AnyStained(s) \/ Stained(f.items)
  BY <1>3, StackGrows
<1>8. Joined(s) \o v = Joined(stack) \o <<c>>
  <2> DEFINE a == Joined(s)
             b == f.items
  <2>1. a \in Seq(ValueTokens) /\ b \in Seq(ValueTokens) /\ <<c>> \in Seq(ValueTokens)
    BY <1>3, <1>5, <1>6, StackTypes, OneToken
  <2>2. Joined(stack) = a \o b /\ v = b \o <<c>> BY <1>4, <1>7
  <2> HIDE DEF a, b
  <2>3. (a \o b) \o <<c>> = a \o (b \o <<c>>) BY <2>1, ConcatAssociative
  <2>4. a \o v = Joined(stack) \o <<c>> BY <2>2, <2>3
  <2> QED BY <2>4 DEF a
<1>9. Deliver(v, s, HeldBy(s) + BlocksOf(v)) BY <1>1, <1>2, <1>4, <1>7
<1>10. ASSUME jat' # "failed" PROVE Accounted(v, s)
  <2>1. CASE head = c /\ Onwards(head)
    <3>1. text' = Append(text, c) BY <1>10, <2>1 DEF Onwards
    <3>2. Joined(stack) = text
      <4>1. PICK u \in Seq(Closers) : Joined(stack) = text \o u /\ u = << >>
        BY <1>2, <1>6, <2>1 DEF TextRead, AtEnd
      <4> QED BY <1>2, <4>1, ConcatEmptySeq
    <3>3. /\ << >> \in Seq(Closers) /\ text' \in Seq(ValueTokens) /\ text' = text \o <<c>>
          /\ Stained(text')
      <4>1. Stained(<<c>>) BY <1>6, StainedOne
      <4> QED BY <1>2, <1>6, <3>1, <4>1, TextGrows
    <3>4. Joined(s) \o v = text' \o << >>
      <4>1. Joined(s) \o v = text' BY <1>8, <3>2, <3>3
      <4> QED BY <3>3, <4>1, ConcatEmptySeq
    <3> QED BY <3>3, <3>4 DEF Accounted
  <2>2. CASE head = TextEnd /\ jerror' /\ head' = head /\ text' = text
    <3>1. PICK u \in Seq(Closers) : Joined(stack) = text \o u BY <1>2 DEF TextRead
    <3> DEFINE w == u \o <<c>>
    <3>2. <<c>> \in Seq(Closers) /\ Closers \subseteq ValueTokens BY <1>6, KindsOfTokens
    <3>3. w \in Seq(Closers) BY <3>2, ConcatProperties
    <3>4. u \in Seq(ValueTokens) /\ <<c>> \in Seq(ValueTokens) BY <3>2, SeqMonotonic
    <3>5. (text \o u) \o <<c>> = text \o w BY <1>2, <3>4, ConcatAssociative
    <3> HIDE DEF w
    <3>6. Joined(s) \o v = text' \o w BY <1>8, <2>2, <3>1, <3>5
    <3>7. head' = TextEnd /\ jerror' /\ text' \in Seq(ValueTokens) BY <1>2, <2>2
    <3> QED BY <1>4, <3>3, <3>6, <3>7 DEF Accounted
  <2> QED BY <1>1, <1>10, <2>1, <2>2
<1>11. v \in PlainValues /\ ~Stained(text) => ~AnyStained(s)
  BY <1>2, <1>4, <1>7
<1> QED BY <1>3, <1>4, <1>9, <1>10, <1>11, ValueArrives

LEMMA ParserBegins == ASSUME JsonInit PROVE ParserOk
<1>1. jat = "value" /\ text = << >> /\ stack = << >> /\ jlive = 0 BY DEF JsonInit
<1>2. text \in Seq(ValueTokens) /\ stack \in Seq(Begun) /\ << >> \in Seq(Closers) BY <1>1
<1>3. jlive = HeldBy(stack) /\ Joined(stack) = << >> BY <1>1, BlocksByNone, JoinedNone
<1>4. Joined(stack) = text \o << >> BY <1>1, <1>2, <1>3, ConcatEmptySeq
<1>5. TextRead(Joined(stack)) BY <1>2, <1>4 DEF TextRead
<1>6. ~AnyStained(stack) BY <1>1 DEF AnyStained
<1>7. ReadingOk BY <1>1, <1>2, <1>3, <1>5, <1>6 DEF ReadingOk
<1> QED BY <1>1, <1>7 DEF ParserOk, ParsedOk, EndedOk, Parsed

\* Everything is handed back that hung on nothing but the containers begun.
LEMMA FailedStep ==
  ASSUME ParserOk, Reading, Fails(stack, jlive, FALSE),
         AnyStained(stack) => Stained(text)
  PROVE  ParserOk'
<1>1. /\ jat' = "failed" /\ jlive' = jlive - GivenBy(stack)
      /\ jheld' = Stained(text)
  BY DEF Fails, GivenBy, Stained
<1>2. stack \in Seq(Begun) /\ jlive = HeldBy(stack) BY DEF ParserOk, ReadingOk
<1>3. ASSUME ~jheld' PROVE jlive' = 0
  <2>1. HeldBy(stack) = GivenBy(stack) BY <1>1, <1>2, <1>3, UnstainedGiven
  <2>2. GivenBy(stack) \in Int BY <1>2, StackTypes
  <2> QED BY <1>1, <1>2, <2>1, <2>2
<1> QED BY <1>1, <1>3 DEF ParserOk, ReadingOk, ParsedOk, EndedOk, Reading, Parsed

LEMMA BeginStep == ASSUME ParserOk, BeginContainer PROVE ParserOk'
<1> DEFINE f == [kind |-> head, items |-> <<head>>, count |-> 0, cap |-> 0, key |-> FALSE]
<1>1. /\ Reading /\ head \in Openers
      /\ stack' = Append(stack, f) /\ jat' = "loop" /\ jlive' = jlive + 1
      /\ text' = Append(text, head)
  BY CloserIs DEF BeginContainer, Asked, Reading
<1>2. head \in ValueTokens /\ head # TextEnd
  <2>1. LeftBrace # "end" BY Zenon DEF LeftBrace
  <2> QED BY <1>1, <2>1, KindsOfTokens DEF Openers, TextEnd
<1>3. /\ stack \in Seq(Begun) /\ jlive = HeldBy(stack) /\ text \in Seq(ValueTokens)
      /\ Joined(stack) = text /\ (AnyStained(stack) => Stained(text))
  BY <1>1, <1>2, AllRead DEF ParserOk
<1>4. f \in Begun /\ Held(f) = 1 /\ ~Stained(f.items) /\ f.items = <<head>> /\ ~HasKey(f)
  BY <1>1, FrameBegins
<1> HIDE DEF f
<1>5. /\ stack' \in Seq(Begun) /\ stack' # << >> /\ stack'[Len(stack')] = f
      /\ Joined(stack') = Joined(stack) \o f.items
      /\ HeldBy(stack') = HeldBy(stack) + Held(f)
      /\ AnyStained(stack') <=> AnyStained(stack) \/ Stained(f.items)
  BY <1>1, <1>3, <1>4, StackGrows
<1>6. /\ text' \in Seq(ValueTokens) /\ text' = text \o <<head>> /\ (Stained(text) => Stained(text'))
  BY <1>1, <1>2, <1>3, TextGrows
<1>7. TextRead(Joined(stack))'
  <2>1. << >> \in Seq(Closers) OBVIOUS
  <2>2. Joined(stack') = text' BY <1>3, <1>4, <1>5, <1>6
  <2>3. Joined(stack') = text' \o << >> BY <1>6, <2>2, ConcatEmptySeq
  <2> QED BY <2>1, <2>3 DEF TextRead
<1>8. ReadingOk' BY <1>1, <1>3, <1>4, <1>5, <1>6, <1>7 DEF ReadingOk
<1> QED BY <1>1, <1>8 DEF ParserOk, ParsedOk, EndedOk, Parsed

LEMMA ColonStep == ASSUME ParserOk, ExpectColon PROVE ParserOk'
<1> DEFINE f == stack[Len(stack)]
           s == Front(stack)
           g == [f EXCEPT !.items = Append(@, ":")]
<1>1. /\ jat = "colon" /\ Onwards(":")
      /\ \/ stack' = Append(s, g) /\ jat' = "value" /\ UNCHANGED <<jroot, jerror, jlive, jheld>>
         \/ Fails(stack, jlive, FALSE)
  BY DEF ExpectColon
<1>2. /\ stack \in Seq(Begun) /\ jlive = HeldBy(stack) /\ text \in Seq(ValueTokens)
      /\ TextRead(Joined(stack)) /\ stack # << >> /\ HasKey(f)
      /\ AnyStained(stack) => Stained(text)
  BY <1>1 DEF ParserOk, ReadingOk, Reading, AtEnd
<1>3. CASE Fails(stack, jlive, FALSE) BY <1>1, <1>2, <1>3, FailedStep DEF Reading
<1>4. CASE stack' = Append(s, g) /\ jat' = "value" /\ UNCHANGED <<jroot, jerror, jlive, jheld>>
  <2>1. s \in Seq(Begun) /\ f \in Begun /\ stack = Append(s, f) BY <1>2, StackSplits
  <2>2. /\ g \in Begun /\ Held(g) = Held(f)
        /\ (Stained(g.items) => Stained(f.items)) /\ g.items = f.items \o <<":">> /\ HasKey(g)
    <3> HIDE DEF f
    <3> QED BY <1>2, <2>1, ColonTaken
  <2>3. f.items \in Seq(ValueTokens) BY <2>1 DEF Begun, Frames
  <2>4. stack' = Append(s, g) BY <1>4
  <2> HIDE DEF f, s, g
  <2>5. /\ Joined(stack) = Joined(s) \o f.items /\ HeldBy(stack) = HeldBy(s) + Held(f)
        /\ AnyStained(stack) <=> AnyStained(s) \/ Stained(f.items)
    BY <2>1, StackGrows
  <2>6. /\ stack' \in Seq(Begun) /\ stack' # << >> /\ stack'[Len(stack')] = g
        /\ Joined(stack') = Joined(s) \o g.items
        /\ HeldBy(stack') = HeldBy(s) + Held(g)
        /\ AnyStained(stack') <=> AnyStained(s) \/ Stained(g.items)
    BY <2>1, <2>2, <2>4, StackGrows
  <2>7. ":" \in ValueTokens BY KindsOfTokens
  <2>8. text' = Append(text, ":") BY <1>1, <1>4 DEF Onwards
  <2>9. text' \in Seq(ValueTokens) /\ text' = text \o <<":">> /\ (Stained(text) => Stained(text'))
    BY <1>2, <2>7, <2>8, TextGrows
  <2>10. Joined(stack') = text'
    <3>1. Joined(stack) = text
      <4>1. PICK u \in Seq(Closers) : Joined(stack) = text \o u /\ u = << >>
        BY <1>1, <1>2 DEF TextRead, AtEnd
      <4> QED BY <1>2, <4>1, ConcatEmptySeq
    <3> DEFINE a == Joined(s)
               b == f.items
               d == <<":">>
    <3>2. a \in Seq(ValueTokens) /\ b \in Seq(ValueTokens) /\ d \in Seq(ValueTokens)
      BY <2>1, <2>3, <2>7, StackTypes, OneToken
    <3>3. text = a \o b /\ Joined(stack') = a \o (b \o d) /\ text' = text \o d
      BY <2>2, <2>5, <2>6, <2>9, <3>1
    <3> HIDE DEF a, b, d
    <3>4. (a \o b) \o d = a \o (b \o d) BY <3>2, ConcatAssociative
    <3> QED BY <3>3, <3>4
  <2>11. TextRead(Joined(stack))'
    <3>1. << >> \in Seq(Closers) OBVIOUS
    <3>2. Joined(stack') = text' \o << >> BY <2>9, <2>10, ConcatEmptySeq
    <3> QED BY <3>1, <3>2 DEF TextRead
  <2>12. jlive' = HeldBy(stack') BY <1>2, <1>4, <2>2, <2>5, <2>6
  <2>13. ReadingOk' BY <1>2, <1>4, <2>2, <2>5, <2>6, <2>9, <2>11, <2>12 DEF ReadingOk
  <2> QED BY <1>4, <2>13 DEF ParserOk, ParsedOk, EndedOk, Parsed
<1> QED BY <1>1, <1>3, <1>4

LEMMA FailStep == ASSUME ParserOk, ParseFails PROVE ParserOk'
<1>1. /\ jat = "value" \/ (jat = "loop" /\ head # TextEnd)
      /\ Fails(stack, jlive, FALSE)
  BY DEF ParseFails, Asked
<1>2. AnyStained(stack) => Stained(text) BY <1>1 DEF ParserOk, ReadingOk, Reading, AtEnd
<1> QED BY <1>1, <1>2, FailedStep DEF Reading

LEMMA SkipStep == ASSUME ParserOk, SkipComment \/ SkipUnended PROVE ParserOk'
<1>1. /\ head \in {"//", "/*"} /\ UNCHANGED <<jat, text, stack, jroot, jlive, jheld>>
      /\ jerror => jerror'
  BY DEF SkipComment, SkipUnended
<1>2. head # TextEnd BY <1>1 DEF TextEnd
<1>3. ASSUME Reading PROVE ReadingOk'
  <2>1. /\ stack \in Seq(Begun) /\ jlive = HeldBy(stack) /\ text \in Seq(ValueTokens)
        /\ Joined(stack) = text /\ (AnyStained(stack) => Stained(text))
        /\ stack # << >> => (HasKey(stack[Len(stack)]) <=> jat \in {"value", "colon"})
    BY <1>2, <1>3, AllRead DEF ParserOk
  <2>2. jat # "value" => stack # << >> BY <1>3 DEF ParserOk, ReadingOk
  <2>3. TextRead(Joined(stack))'
    <3>1. << >> \in Seq(Closers) OBVIOUS
    <3>2. Joined(stack') = text' \o << >> BY <1>1, <2>1, ConcatEmptySeq
    <3> QED BY <3>1, <3>2 DEF TextRead
  <2> QED BY <1>1, <2>1, <2>2, <2>3 DEF ReadingOk
<1>4. ASSUME ~Reading PROVE ReadingOk' BY <1>1, <1>4 DEF ReadingOk, Reading
<1>5. ParsedOk' BY <1>1 DEF ParserOk, ParsedOk, Parsed
<1>6. EndedOk' BY <1>1 DEF ParserOk, EndedOk
<1> QED BY <1>3, <1>4, <1>5, <1>6 DEF ParserOk

LEMMA SeparatorStep == ASSUME ParserOk, Separator PROVE ParserOk'
<1>1. /\ jat = "separator" /\ jat' = "loop"
      /\ UNCHANGED <<text, stack, jroot, jerror, jlive, jheld>>
      /\ head = TextEnd => head' = TextEnd
  <2>1. Comma # "end" BY Zenon DEF Comma
  <2> QED BY <2>1 DEF Separator, TextEnd
<1>2. AtEnd => AtEnd' BY <1>1 DEF AtEnd
<1>3. /\ stack \in Seq(Begun) /\ jlive = HeldBy(stack)
      /\ text \in Seq(ValueTokens) /\ TextRead(Joined(stack))
      /\ stack # << >>
      /\ ~HasKey(stack[Len(stack)])
      /\ AnyStained(stack) => Stained(text) \/ (AtEnd /\ Stained(stack[Len(stack)].items))
  BY <1>1 DEF ParserOk, ReadingOk, Reading
<1>4. TextRead(Joined(stack))' BY <1>1, <1>2, <1>3 DEF TextRead
<1>5. ReadingOk' BY <1>1, <1>2, <1>3, <1>4 DEF ReadingOk
<1> QED BY <1>1, <1>5 DEF ParserOk, ParsedOk, EndedOk, Parsed

LEMMA EndStep == ASSUME ParserOk, ParseEnds PROVE ParserOk'
<1>1. jat = "rest" /\ UNCHANGED <<text, stack, jheld>> BY DEF ParseEnds
<1>2. /\ IsValue(jroot) /\ text \in Seq(ValueTokens) /\ jlive = BlocksOf(jroot)
      /\ \E u \in Seq(Closers) : jroot = text \o u /\ (u # << >> => jerror)
  BY <1>1 DEF ParserOk, ParsedOk, Parsed
<1>3. CASE jat' = "ok" /\ UNCHANGED <<jroot, jlive, jerror>>
  <2>1. ParsedOk' BY <1>1, <1>2, <1>3 DEF ParsedOk
  <2> QED BY <1>3, <2>1 DEF ParserOk, ReadingOk, EndedOk, Reading
<1>4. CASE jat' = "failed" /\ jlive' = jlive - BlocksOf(jroot)
  <2>1. BlocksOf(jroot) \in Int BY <1>2, WeightsType DEF IsValue
  <2>2. jlive' = 0 BY <1>2, <1>4, <2>1
  <2> QED BY <1>4, <2>2 DEF ParserOk, ReadingOk, ParsedOk, EndedOk, Reading, Parsed
<1> QED BY <1>3, <1>4 DEF ParseEnds

\* The generator leaves the value alone, until it is destroyed.
LEMMA WriteStep ==
  ASSUME ParserOk, GeneratorInit \/ Generate \/ GeneratorReset
  PROVE  ParserOk'
<1>1. /\ jat \in {"ok", "writing", "written"} /\ jat' \in {"writing", "written"}
      /\ UNCHANGED <<text, jroot, jerror, jlive>>
  BY DEF GeneratorInit, Generate, GeneratorReset
<1>2. ParsedOk' BY <1>1 DEF ParserOk, ParsedOk, Parsed
<1> QED BY <1>1, <1>2 DEF ParserOk, ReadingOk, EndedOk, Reading

LEMMA DestroyStep == ASSUME ParserOk, ParserDestroy PROVE ParserOk'
<1>1. jat = "written" /\ jat' = "gone" /\ jlive' = jlive - BlocksOf(jroot) BY DEF ParserDestroy
<1>2. IsValue(jroot) /\ jlive = BlocksOf(jroot) BY <1>1 DEF ParserOk, ParsedOk, Parsed
<1>3. BlocksOf(jroot) \in Int BY <1>2, WeightsType DEF IsValue
<1>4. jlive' = 0 BY <1>1, <1>2, <1>3
<1> QED BY <1>1, <1>4 DEF ParserOk, ReadingOk, ParsedOk, EndedOk, Reading, Parsed

LEMMA ParserStep == ASSUME ParserOk, [JsonNext]_jsonVars PROVE ParserOk'
<1>1. CASE UNCHANGED jsonVars
  <2>1. UNCHANGED <<jat, head, text, stack, jroot, jerror, jlive, jheld>> BY <1>1 DEF jsonVars
  <2>2. ReadingOk' BY <2>1 DEF ParserOk, ReadingOk, Reading, AtEnd, TextRead
  <2>3. ParsedOk' /\ EndedOk' BY <2>1 DEF ParserOk, ParsedOk, EndedOk, Parsed
  <2> QED BY <2>2, <2>3 DEF ParserOk
<1>2. CASE JsonNext
  <2>1. CASE SkipComment \/ SkipUnended BY <2>1, SkipStep
  <2>2. CASE BeginContainer BY <2>2, BeginStep
  <2>3. CASE CloseContainer BY <2>3, CloseStep
  <2>4. CASE ParseNumber BY <2>4, NumberStep
  <2>5. CASE ParseString BY <2>5, StringStep
  <2>6. CASE ParseFails BY <2>6, FailStep
  <2>7. CASE ExpectColon BY <2>7, ColonStep
  <2>8. CASE Separator BY <2>8, SeparatorStep
  <2>9. CASE ParseEnds BY <2>9, EndStep
  <2>10. CASE GeneratorInit \/ Generate \/ GeneratorReset BY <2>10, WriteStep
  <2>11. CASE ParserDestroy BY <2>11, DestroyStep
  <2> QED BY <1>2, <2>1, <2>2, <2>3, <2>4, <2>5, <2>6, <2>7, <2>8, <2>9, <2>10, <2>11 DEF JsonNext
<1> QED BY <1>1, <1>2

LEMMA ParserParsed == ASSUME ParserOk PROVE JsonParsed
<1>1. ASSUME Parsed
      PROVE  /\ IsPrefix(text, jroot)
             /\ \A i \in Len(text) + 1 .. Len(jroot) : jroot[i] \in Closers
             /\ Len(text) < Len(jroot) => jerror
             /\ jlive = BlocksOf(jroot)
  <2>1. text \in Seq(ValueTokens) /\ jlive = BlocksOf(jroot) BY <1>1 DEF ParserOk, ParsedOk
  <2>2. PICK u \in Seq(Closers) : jroot = text \o u /\ (u # << >> => jerror)
    BY <1>1 DEF ParserOk, ParsedOk
  <2> DEFINE m == Len(text)
             n == Len(u)
  <2>3. u \in Seq(ValueTokens)
    <3>1. Closers \subseteq ValueTokens BY KindsOfTokens
    <3> QED BY <3>1, SeqMonotonic
  <2>4. /\ m \in Nat /\ n \in Nat /\ Len(jroot) = m + n
        /\ \A i \in 1 .. m + n : jroot[i] = IF i <= m THEN text[i] ELSE u[i - m]
    BY <2>1, <2>2, <2>3, ConcatProperties
  <2>5. \A i \in 1 .. n : u[i] \in Closers BY <2>2
  <2>6. \A i \in 1 .. m : text[i] \in ValueTokens BY <2>1
  <2> HIDE DEF m, n
  <2>7. IsPrefix(text, jroot)
    <3> DEFINE a == SubSeq(text, 1, m)
               b == SubSeq(jroot, 1, m)
    <3>1. 1 \in Int /\ m \in Int /\ m - 1 + 1 = m BY <2>4
    <3>2. \A i \in 1 .. m : i \in 1 .. m + n /\ jroot[i] = text[i] BY <2>4
    <3>3. /\ a \in Seq(ValueTokens) /\ Len(a) = (IF 1 <= m THEN m ELSE 0)
          /\ \A i \in 1 .. m : a[i] = text[1 + i - 1]
      BY <2>6, <3>1, SubSeqProperties
    <3>4. \A i \in 1 .. m : jroot[i] \in ValueTokens BY <2>6, <3>2
    <3>5. /\ b \in Seq(ValueTokens) /\ Len(b) = (IF 1 <= m THEN m ELSE 0)
          /\ \A i \in 1 .. m : b[i] = jroot[1 + i - 1]
      BY <3>1, <3>4, SubSeqProperties
    <3>6. \A i \in 1 .. m : 1 + i - 1 = i BY <2>4
    <3> HIDE DEF a, b
    <3>7. Len(a) = m /\ Len(b) = m BY <2>4, <3>3, <3>5
    <3>8. \A i \in 1 .. m : a[i] = b[i] BY <3>2, <3>3, <3>5, <3>6
    <3>9. a = b BY <3>3, <3>5, <3>7, <3>8, SeqEqual
    <3> QED BY <2>4, <3>9 DEF IsPrefix, a, b, m
  <2>8. ASSUME NEW i \in m + 1 .. m + n PROVE jroot[i] \in Closers
    <3>1. i \in 1 .. m + n /\ ~(i <= m) /\ i - m \in 1 .. n BY <2>4
    <3> QED BY <2>4, <2>5, <3>1
  <2>9. m < m + n => jerror
    <3>1. m < m + n => u # << >> BY <2>4 DEF n
    <3> QED BY <2>2, <3>1
  <2> QED BY <2>1, <2>4, <2>7, <2>8, <2>9 DEF m
<1> QED BY <1>1 DEF ParserOk, EndedOk, JsonParsed

-----------------------------------------------------------------------------
(***************************************************************************)
(* The generator, one piece at a time.                                     *)
(***************************************************************************)

Layout == {Comma, "\n", Indentation, Blank, Quote}
Pieces == ValueTokens \cup Layout \cup {"s"}

GenRecords ==
  [at : Nat \ {0}, pos : Nat, cap : Nat, grows : BOOLEAN, pretty : BOOLEAN,
   out : Seq(Pieces), dropped : BOOLEAN, spilled : BOOLEAN, starved : BOOLEAN]

\* A generator that may grow, and found the memory.
Ample(g) == g.grows /\ ~g.starved

Neat(g) == ~g.dropped /\ ~g.spilled

\* None holds more than fits, and an ample one leaves nothing out nor puts its
\* terminator behind the buffer.
Generators == {g \in GenRecords : g.pos <= g.cap /\ (Ample(g) => Neat(g))}

\* There is a doubling that is long enough.
LEMMA DoubledIs ==
  ASSUME NEW g \in Generators, NEW n \in 1 .. 3
  PROVE  Doubled(g, n) \in Nat /\ g.pos + n < Doubled(g, n)
<1> DEFINE p == g.pos
           c == g.cap
           first == IF c = 0 THEN FirstBuffer ELSE 2 * c
           Ks == {1, 2, 4, 8, 16, 32}
           Ms == {m \in {first * k : k \in Ks} : p + n < m}
<1>1. p \in Nat /\ c \in Nat /\ p <= c BY DEF Generators, GenRecords
<1>2. FirstBuffer \in Nat /\ FirstBuffer > 0 BY JsonAssumption DEF JsonAssumption
<1>3. Doubled(g, n) = Min(Ms) BY DEF Doubled
<1> HIDE DEF p, c
<1>4. first \in Nat /\ first > 0 /\ p <= first BY <1>1, <1>2
<1>5. p + n < first * 32
  <2>1. CASE c = 0 BY <1>1, <1>4, <2>1
  <2>2. CASE c # 0
    <3>1. first = 2 * c BY <2>2
    <3> HIDE DEF first
    <3> QED BY <1>1, <2>2, <3>1
  <2> QED BY <2>1, <2>2
<1> HIDE DEF first
<1>6. \A k \in Ks : first * k \in Nat BY <1>4
<1>7. first * 32 \in Ms BY <1>5
<1>8. Ms \in SUBSET Nat BY <1>6
<1> HIDE DEF Ms
<1>9. PICK least \in Ms : \A m \in Ms : least <= m
  <2>1. Ms # {} BY <1>7
  <2> QED BY <1>8, <2>1, LeastNatural
<1>10. Min(Ms) \in Ms BY <1>9 DEF Min
<1> QED BY <1>3, <1>8, <1>10 DEF Ms, p

\* How a generator may change while a value is written.
Carries(g, h) == h.at = g.at /\ h.grows = g.grows /\ h.pretty = g.pretty /\ (g.dropped => h.dropped)

Ensured(g, h, n) == /\ h \in Generators /\ Carries(g, h)
                    /\ h.out = g.out /\ h.pos = g.pos /\ h.dropped = g.dropped
                    /\ Ample(h) => h.pos + n < h.cap

LEMMA EnsuredIs ==
  ASSUME NEW g \in Generators, NEW n \in 1 .. 3, NEW works \in BOOLEAN
  PROVE  Ensured(g, ensure_capacity(g, n, works), n)
<1> DEFINE h == ensure_capacity(g, n, works)
           d == Doubled(g, n)
<1>1. g \in GenRecords /\ g.pos <= g.cap /\ (Ample(g) => Neat(g)) BY DEF Generators
<1>2. CASE g.pos + n < g.cap \/ ~g.grows
  <2>1. h = g BY <1>2 DEF ensure_capacity
  <2>2. Ample(g) => g.pos + n < g.cap BY <1>2 DEF Ample
  <2> HIDE DEF h
  <2>3. Ensured(g, h, n) BY <2>1, <2>2 DEF Ensured, Carries
  <2> QED BY <2>3 DEF h
<1>3. CASE ~(g.pos + n < g.cap \/ ~g.grows) /\ works
  <2>1. h = [g EXCEPT !.cap = d] BY <1>3 DEF ensure_capacity
  <2>2. d \in Nat /\ g.pos + n < d BY DoubledIs
  <2>3. g.pos \in Nat BY <1>1 DEF GenRecords
  <2> HIDE DEF d
  <2>4. g.pos <= d BY <2>2, <2>3
  <2>5. /\ h \in GenRecords /\ h.pos = g.pos /\ h.cap = d /\ Carries(g, h) /\ h.out = g.out
        /\ h.dropped = g.dropped /\ (Ample(h) <=> Ample(g)) /\ (Neat(h) <=> Neat(g))
    BY <1>1, <2>1, <2>2 DEF GenRecords, Carries, Ample, Neat
  <2> HIDE DEF h
  <2>6. h \in Generators BY <1>1, <2>4, <2>5 DEF Generators
  <2>7. Ample(h) => h.pos + n < h.cap BY <2>2, <2>5
  <2>8. Ensured(g, h, n) BY <2>5, <2>6, <2>7 DEF Ensured
  <2> QED BY <2>8 DEF h
<1>4. CASE ~(g.pos + n < g.cap \/ ~g.grows) /\ ~works
  <2>1. h = [g EXCEPT !.starved = TRUE] BY <1>4 DEF ensure_capacity
  <2>2. /\ h \in GenRecords /\ h.pos = g.pos /\ h.cap = g.cap /\ Carries(g, h) /\ h.out = g.out
        /\ h.dropped = g.dropped /\ ~Ample(h)
    BY <1>1, <2>1 DEF GenRecords, Carries, Ample
  <2> HIDE DEF h
  <2>3. h \in Generators BY <1>1, <2>2 DEF Generators
  <2>4. Ensured(g, h, n) BY <2>2, <2>3 DEF Ensured
  <2> QED BY <2>4 DEF h
<1> QED BY <1>2, <1>3, <1>4

\* A piece is written whole or dropped.
LEMMA WrittenIs ==
  ASSUME NEW g \in Generators, NEW c \in Pieces, NEW works \in BOOLEAN
  PROVE  LET w == Written(g, c, works)
         IN /\ w \in Generators /\ Carries(g, w)
            /\ ~w.dropped => w.out = Append(g.out, c)
<1> DEFINE n == SizeOf(c)
           h == ensure_capacity(g, n, works)
           w == Written(g, c, works)
<1>1. n \in 1 .. 3 /\ (c \notin Strings => n = 1) BY DEF SizeOf, Strings
<1> HIDE DEF n
<1>2. /\ h \in Generators /\ Carries(g, h)
      /\ h.out = g.out /\ h.pos = g.pos /\ h.dropped = g.dropped
      /\ Ample(h) => h.pos + n < h.cap
  BY <1>1, EnsuredIs DEF Ensured
<1>3. w = IF c \in Strings THEN WriteString(h, c) ELSE WriteChar(h, c) BY DEF Written, n
<1> HIDE DEF h, w
<1>4. h \in GenRecords /\ h.pos <= h.cap /\ (Ample(h) => Neat(h)) /\ h.pos \in Nat /\ h.cap \in Nat
  BY <1>2 DEF Generators, GenRecords
<1>5. Append(h.out, c) \in Seq(Pieces) BY <1>4 DEF GenRecords
<1>6. ASSUME w = [h EXCEPT !.dropped = TRUE], ~Ample(h)
      PROVE  w \in Generators /\ Carries(g, w) /\ w.dropped
  <2>1. /\ w \in GenRecords /\ w.pos = h.pos /\ w.cap = h.cap /\ ~Ample(w) /\ w.dropped /\ Carries(h, w)
    BY <1>4, <1>6 DEF GenRecords, Ample, Carries
  <2> QED BY <1>2, <1>4, <2>1 DEF Generators, Carries
<1>7. CASE c \in Strings
  <2>1. CASE h.pos + n < h.cap
    <3> DEFINE q == h.pos + n
    <3>1. w = [h EXCEPT !.out = Append(@, c), !.pos = q]
      <4>1. w = [h EXCEPT !.out = Append(@, c), !.pos = @ + SizeOf(c)] BY <1>3, <1>7, <2>1 DEF WriteString, n
      <4> QED BY <1>4, <4>1 DEF n, GenRecords
    <3>2. q \in Nat /\ q <= h.cap BY <1>1, <1>4, <2>1
    <3> HIDE DEF q
    <3>3. /\ w \in GenRecords /\ w.pos = q /\ w.cap = h.cap /\ w.out = Append(h.out, c) /\ Carries(h, w)
          /\ (Ample(w) <=> Ample(h)) /\ (Neat(w) <=> Neat(h))
      BY <1>4, <1>5, <3>1, <3>2 DEF GenRecords, Ample, Carries, Neat
    <3>4. w \in Generators BY <1>4, <3>2, <3>3 DEF Generators
    <3> QED BY <1>2, <3>3, <3>4 DEF Carries, w
  <2>2. CASE ~(h.pos + n < h.cap)
    <3>1. w = [h EXCEPT !.dropped = TRUE] BY <1>3, <1>7, <2>2 DEF WriteString, n
    <3>2. ~Ample(h) BY <1>2, <2>2
    <3> QED BY <1>6, <3>1, <3>2 DEF w
  <2> QED BY <2>1, <2>2
<1>8. CASE c \notin Strings
  <2>1. CASE h.pos < h.cap
    <3> DEFINE q == h.pos + 1
               sp == h.spilled \/ q = h.cap
    <3>1. w = [h EXCEPT !.out = Append(@, c), !.pos = q, !.spilled = sp]
      <4>1. w = [h EXCEPT !.out = Append(@, c), !.pos = @ + 1, !.spilled = @ \/ h.pos + 1 = h.cap]
        BY <1>3, <1>8, <2>1 DEF WriteChar
      <4> QED BY <1>4, <4>1 DEF GenRecords
    <3>2. q \in Nat /\ q <= h.cap BY <1>4, <2>1
    <3>3. Ample(h) => sp = h.spilled
      <4>1. Ample(h) => q # h.cap BY <1>1, <1>2, <1>4, <1>8
      <4>2. h.spilled \in BOOLEAN BY <1>4 DEF GenRecords
      <4> QED BY <4>1, <4>2
    <3>4. sp \in BOOLEAN OBVIOUS
    <3> HIDE DEF q, sp
    <3>5. /\ w \in GenRecords /\ w.pos = q /\ w.cap = h.cap /\ w.out = Append(h.out, c) /\ Carries(h, w)
          /\ (Ample(w) <=> Ample(h)) /\ w.dropped = h.dropped /\ w.spilled = sp
      BY <1>4, <1>5, <3>1, <3>2, <3>4 DEF GenRecords, Ample, Carries
    <3>6. w \in Generators BY <1>4, <3>2, <3>3, <3>5 DEF Generators, Neat
    <3> QED BY <1>2, <3>5, <3>6 DEF Carries, w
  <2>2. CASE ~(h.pos < h.cap)
    <3>1. w = [h EXCEPT !.dropped = TRUE] BY <1>3, <1>8, <2>2 DEF WriteChar
    <3>2. ~Ample(h) BY <1>1, <1>2, <1>4, <2>2
    <3> QED BY <1>6, <3>1, <3>2 DEF w
  <2> QED BY <2>1, <2>2
<1> QED BY <1>7, <1>8

-----------------------------------------------------------------------------
(***************************************************************************)
(* The pieces of a token, one after the other: apart from the layout they  *)
(* are the token.                                                          *)
(***************************************************************************)

\* The generator after each of the pieces.
WritingOut(f, g, pieces, works) ==
  /\ f \in [0 .. Len(pieces) -> Generators] /\ f[0] = g
  /\ \A i \in 1 .. Len(pieces) : f[i] = Written(f[i - 1], pieces[i], works)

LEMMA WritingOutExists ==
  ASSUME NEW g \in Generators, NEW pieces \in Seq(Pieces), NEW works \in BOOLEAN
  PROVE  \E f : WritingOut(f, g, pieces, works)
<1> DEFINE F == [x \in (1 .. Len(pieces)) \X Generators |-> Written(x[2], pieces[x[1]], works)]
<1>1. PICK f : RunAlong(f, Len(pieces), Generators, g, F)
  <2>1. ASSUME NEW x \in (1 .. Len(pieces)) \X Generators
        PROVE  Written(x[2], pieces[x[1]], works) \in Generators
    <3>1. x[1] \in 1 .. Len(pieces) /\ x[2] \in Generators OBVIOUS
    <3>2. pieces[x[1]] \in Pieces BY <3>1
    <3> QED BY <3>1, <3>2, WrittenIs
  <2>2. F \in [(1 .. Len(pieces)) \X Generators -> Generators] BY <2>1
  <2>3. Len(pieces) \in Nat OBVIOUS
  <2> HIDE DEF F
  <2> QED BY <2>2, <2>3, RunsAlong, Zenon
<1>2. f \in [0 .. Len(pieces) -> Generators] /\ f[0] = g BY <1>1 DEF RunAlong
<1>3. ASSUME NEW i \in 1 .. Len(pieces) PROVE f[i] = Written(f[i - 1], pieces[i], works)
  <2>1. f[i] = F[<<i, f[i - 1]>>] BY <1>1 DEF RunAlong
  <2>2. f[i - 1] \in Generators BY <1>2
  <2>3. \A y \in Generators : F[<<i, y>>] = Written(y, pieces[i], works) OBVIOUS
  <2> HIDE DEF F
  <2> QED BY <2>1, <2>2, <2>3
<1> QED BY <1>2, <1>3 DEF WritingOut

LEMMA AllWrittenIs ==
  ASSUME NEW g, NEW pieces \in Seq(Pieces), NEW works, NEW f, WritingOut(f, g, pieces, works)
  PROVE  AllWritten(g, pieces, works) = f[Len(pieces)]
<1> DEFINE E(r, i) == IF i = 0 THEN g ELSE Written(r[i - 1], pieces[i], works)
           run == CHOOSE r : r = [i \in 0 .. Len(pieces) |-> E(r, i)]
<1>1. Len(pieces) \in Nat OBVIOUS
<1>2. /\ f \in [0 .. Len(pieces) -> Generators] /\ f[0] = g
      /\ \A i \in 1 .. Len(pieces) : f[i] = Written(f[i - 1], pieces[i], works)
  BY DEF WritingOut
<1>3. ASSUME NEW i \in 0 .. Len(pieces) PROVE f[i] = E(f, i)
  <2>1. CASE i = 0 BY <1>2, <2>1
  <2>2. CASE i # 0
    <3>1. i \in 1 .. Len(pieces) BY <2>2
    <3> QED BY <1>2, <2>2, <3>1
  <2> QED BY <2>1, <2>2
<1>4. f = [i \in 0 .. Len(pieces) |-> E(f, i)] BY <1>2, <1>3
<1>5. run = [i \in 0 .. Len(pieces) |-> E(run, i)] BY <1>4
<1>6. AllWritten(g, pieces, works) = run[Len(pieces)] BY DEF AllWritten
<1> HIDE DEF run
<1>7. run[0] = g BY <1>1, <1>5
<1>8. ASSUME NEW i \in 1 .. Len(pieces) PROVE run[i] = Written(run[i - 1], pieces[i], works)
  <2>1. i \in 0 .. Len(pieces) /\ i # 0 OBVIOUS
  <2> QED BY <1>5, <2>1
<1>9. \A i \in 0 .. Len(pieces) : run[i] = f[i]
  <2>1. InStep(run, f, Len(pieces)) BY <1>2, <1>7, <1>8 DEF InStep
  <2> QED BY <1>1, <2>1, SameRun
<1> QED BY <1>1, <1>6, <1>9

\* What was written, without its layout.
Spoken(o) == Picked(o, {i \in DOMAIN o : o[i] \notin Layout})

LEMMA SpokenAppend ==
  ASSUME NEW o \in Seq(Pieces), NEW c \in Pieces
  PROVE  /\ Spoken(o) \in Seq(Pieces)
         /\ Spoken(Append(o, c)) = IF c \in Layout THEN Spoken(o) ELSE Append(Spoken(o), c)
<1> DEFINE t == Append(o, c)
           A == {i \in DOMAIN o : o[i] \notin Layout}
           B == {i \in DOMAIN t : t[i] \notin Layout}
           n == Len(o)
<1>1. /\ n \in Nat /\ DOMAIN o = 1 .. n /\ DOMAIN t = 1 .. n + 1 /\ t[n + 1] = c
      /\ \A i \in 1 .. n : t[i] = o[i]
  OBVIOUS
<1>2. (n + 1 \in B <=> c \notin Layout) /\ \A i \in 1 .. n : i \in B <=> i \in A
  <2> HIDE DEF t, n
  <2> QED BY <1>1
<1> HIDE DEF A, B
<1>3. /\ Picked(o, A) \in Seq(Pieces)
      /\ Picked(Append(o, c), B) = IF n + 1 \in B THEN Append(Picked(o, A), c) ELSE Picked(o, A)
  BY <1>2, PickedAppend
<1> QED BY <1>2, <1>3 DEF Spoken, A, B

\* Of some pieces one is more than layout, the one at d.
OneSpoken(pieces, d, x) ==
  /\ pieces \in Seq(Pieces) /\ d \in 1 .. Len(pieces) /\ pieces[d] = x /\ x \notin Layout
  /\ \A k \in 1 .. Len(pieces) : k # d => pieces[k] \in Layout

LEMMA AllWrittenSpoken ==
  ASSUME NEW g \in Generators, NEW works \in BOOLEAN, NEW pieces, NEW d, NEW x, OneSpoken(pieces, d, x)
  PROVE  LET w == AllWritten(g, pieces, works)
         IN /\ w \in Generators /\ Carries(g, w)
            /\ ~w.dropped => Spoken(w.out) = Append(Spoken(g.out), x)
<1> DEFINE L == Len(pieces)
           Said(k) == IF k < d THEN Spoken(g.out) ELSE Append(Spoken(g.out), x)
<1>1. /\ pieces \in Seq(Pieces) /\ L \in Nat /\ d \in 1 .. L /\ pieces[d] = x /\ x \notin Layout
      /\ \A k \in 1 .. L : pieces[k] \in Pieces /\ (k # d => pieces[k] \in Layout)
  BY DEF OneSpoken
<1>2. PICK f : WritingOut(f, g, pieces, works) BY <1>1, WritingOutExists
<1>3. /\ f \in [0 .. L -> Generators] /\ f[0] = g
      /\ \A i \in 1 .. L : f[i] = Written(f[i - 1], pieces[i], works)
  BY <1>2 DEF WritingOut
<1>4. AllWritten(g, pieces, works) = f[L] BY <1>1, <1>2, AllWrittenIs
<1> HIDE DEF L
<1> DEFINE Good == {k \in 0 .. L : Carries(g, f[k]) /\ (~f[k].dropped => Spoken(f[k].out) = Said(k))}
<1>5. 0 \in Good BY <1>1, <1>3 DEF Carries
<1>6. ASSUME NEW k \in 0 .. L, k > 0, k - 1 \in Good PROVE k \in Good
  <2> DEFINE h == f[k - 1]
             w == f[k]
             c == pieces[k]
  <2>1. k \in 1 .. L /\ k - 1 \in 0 .. L BY <1>1, <1>6
  <2>2. h \in Generators /\ c \in Pieces /\ w = Written(h, c, works) BY <1>1, <1>3, <2>1
  <2>3. Carries(g, h) /\ (~h.dropped => Spoken(h.out) = Said(k - 1)) BY <1>6
  <2> HIDE DEF h, w, c
  <2>4. Carries(h, w) /\ (~w.dropped => w.out = Append(h.out, c)) BY <2>2, WrittenIs
  <2>5. Carries(g, w) BY <2>3, <2>4 DEF Carries
  <2>6. h.out \in Seq(Pieces) /\ (h.dropped => w.dropped) BY <2>2, <2>4 DEF Generators, GenRecords, Carries
  <2>7. ASSUME ~w.dropped PROVE Spoken(w.out) = Said(k)
    <3>1. Spoken(h.out) = Said(k - 1) /\ w.out = Append(h.out, c) BY <2>3, <2>4, <2>6, <2>7
    <3>2. Spoken(w.out) = IF c \in Layout THEN Said(k - 1) ELSE Append(Said(k - 1), c)
      BY <2>2, <2>6, <3>1, SpokenAppend
    <3>3. CASE k < d
      <4>1. c \in Layout /\ k - 1 < d BY <1>1, <2>1, <3>3 DEF c
      <4> QED BY <3>2, <3>3, <4>1
    <3>4. CASE k = d
      <4>1. c = x /\ c \notin Layout /\ k - 1 < d /\ ~(k < d) BY <1>1, <2>1, <3>4 DEF c
      <4> QED BY <3>2, <4>1
    <3>5. CASE k > d
      <4>1. c \in Layout /\ ~(k - 1 < d) /\ ~(k < d) BY <1>1, <2>1, <3>5 DEF c
      <4> QED BY <3>2, <4>1
    <3> QED BY <1>1, <2>1, <3>3, <3>4, <3>5
  <2> QED BY <2>5, <2>7 DEF w
<1> HIDE DEF Good
<1>7. 0 .. L \subseteq Good BY <1>1, <1>5, <1>6, InductionTo
<1>8. L \in Good /\ L \in 0 .. L BY <1>1, <1>7
<1>9. ~(L < d) BY <1>1
<1>10. f[L] \in Generators /\ Carries(g, f[L]) /\ (~f[L].dropped => Spoken(f[L].out) = Append(Spoken(g.out), x))
  BY <1>3, <1>8, <1>9 DEF Good
<1> QED BY <1>4, <1>10

Say(t) == IF t = "'s'" THEN "s" ELSE t

LEMMA LayoutIs ==
  /\ \A t \in ValueTokens \cup {"s"} : t \notin Layout
  /\ {Comma, "\n", Indentation, Blank, Quote} = Layout
  BY TokensDiffer DEF ValueTokens, Layout

\* A token is written between pieces that are nothing but layout.
LEMMA IndentIs ==
  ASSUME NEW v, NEW i \in Int
  PROVE  Indent(v, i) \in Seq(Layout)
<1> DEFINE up == {j \in 1 .. i : v[j] \in DOMAIN Closer}
           down == {j \in 1 .. i : v[j] \in Closers}
           n == Cardinality(up) - Cardinality(down)
<1>1. IsFiniteSet(1 .. i) BY FS_Interval
<1>2. IsFiniteSet(up) /\ IsFiniteSet(down)
  <2>1. up \in SUBSET (1 .. i) /\ down \in SUBSET (1 .. i) OBVIOUS
  <2> HIDE DEF up, down
  <2> QED BY <1>1, <2>1, FS_Subset
<1>3. n \in Int
  <2>1. Cardinality(up) \in Nat /\ Cardinality(down) \in Nat BY <1>2, FS_CardinalityType
  <2> HIDE DEF up, down
  <2> QED BY <2>1
<1>4. Indent(v, i) = [k \in 1 .. n |-> Indentation] BY DEF Indent, Level
<1> HIDE DEF n
<1>5. Indentation \in Layout BY DEF Layout
<1>6. [k \in 1 .. n |-> Indentation] \in Seq(Layout)
  <2> DEFINE f == [k \in 1 .. n |-> Indentation]
  <2>1. f \in [1 .. n -> Layout] BY <1>5
  <2>2. CASE n \in Nat
    <3> HIDE DEF f
    <3>1. f \in Seq(Layout) BY <2>1, <2>2, MembersMap
    <3> QED BY <3>1 DEF f
  <2>3. CASE n \notin Nat
    <3>1. 1 .. n = 1 .. 0 BY <1>3, <2>3
    <3> HIDE DEF f
    <3>2. f \in [1 .. 0 -> Layout] /\ 0 \in Nat BY <2>1, <3>1
    <3>3. f \in Seq(Layout) BY <3>2, MembersMap
    <3> QED BY <3>3 DEF f
  <2> QED BY <2>2, <2>3
<1> QED BY <1>4, <1>6

LEMMA LeadIs ==
  ASSUME NEW v, NEW i \in Int, NEW fancy \in BOOLEAN
  PROVE  Lead(v, i, fancy) \in Seq(Layout)
<1> DEFINE a == Indent(v, i)
           b == Indent(v, i - 1)
           x == IF fancy THEN <<Comma, "\n">> ELSE <<Comma>>
           y == IF v[i - 1] \in DOMAIN Closer THEN << >> ELSE x
           z == IF fancy THEN b ELSE << >>
           nl == <<"\n">>
<1>1. a \in Seq(Layout) /\ b \in Seq(Layout) BY IndentIs
<1>2. Comma \in Layout /\ "\n" \in Layout BY DEF Layout
<1>3. << >> \in Seq(Layout) /\ nl \in Seq(Layout) /\ <<Comma>> \in Seq(Layout) /\ <<Comma, "\n">> \in Seq(Layout)
  BY <1>2
<1>4. y \in Seq(Layout) /\ z \in Seq(Layout) BY <1>1, <1>3
<1>5. \/ Lead(v, i, fancy) = << >>
      \/ Lead(v, i, fancy) = nl \o a
      \/ Lead(v, i, fancy) = y \o z
  BY DEF Lead
<1> HIDE DEF a, b, x, y, z, nl
<1>6. nl \o a \in Seq(Layout) /\ y \o z \in Seq(Layout) BY <1>1, <1>3, <1>4, ConcatProperties
<1> QED BY <1>3, <1>5, <1>6

LEMMA BodyIs ==
  ASSUME NEW t \in ValueTokens, NEW fancy \in BOOLEAN
  PROVE  \E d : OneSpoken(Body(t, fancy), d, Say(t))
<1>1. t \in Pieces /\ "s" \in Pieces /\ Layout \subseteq Pieces BY DEF Pieces
<1>2. t \notin Layout /\ "s" \notin Layout BY LayoutIs
<1>3. "\n" \in Layout /\ Blank \in Layout /\ Quote \in Layout BY DEF Layout
<1>4. CASE t = "'s'"
  <2> DEFINE p == <<Quote, "s", Quote>>
  <2>1. p \in Seq(Pieces) /\ Len(p) = 3 /\ p[1] = Quote /\ p[2] = "s" /\ p[3] = Quote BY <1>1, <1>3
  <2>2. Body(t, fancy) = p /\ Say(t) = "s" BY <1>4 DEF Body, Say
  <2> HIDE DEF p
  <2>3. OneSpoken(p, 2, "s") BY <1>2, <1>3, <2>1 DEF OneSpoken
  <2> QED BY <2>2, <2>3
<1>5. CASE t # "'s'" /\ Body(t, fancy) = <<t>>
  <2> DEFINE p == <<t>>
  <2>1. p \in Seq(Pieces) /\ Len(p) = 1 /\ p[1] = t BY <1>1
  <2>2. Body(t, fancy) = p /\ Say(t) = t BY <1>5 DEF Say
  <2> HIDE DEF p
  <2>3. OneSpoken(p, 1, t) BY <1>2, <2>1 DEF OneSpoken
  <2> QED BY <2>2, <2>3
<1>6. ASSUME NEW l \in Layout, t # "'s'", Body(t, fancy) = <<t, l>>
      PROVE  \E d : OneSpoken(Body(t, fancy), d, Say(t))
  <2> DEFINE p == <<t, l>>
  <2>1. p \in Seq(Pieces) /\ Len(p) = 2 /\ p[1] = t /\ p[2] = l BY <1>1
  <2>2. Body(t, fancy) = p /\ Say(t) = t BY <1>6 DEF Say
  <2> HIDE DEF p
  <2>3. OneSpoken(p, 1, t) BY <1>2, <2>1 DEF OneSpoken
  <2> QED BY <2>2, <2>3
<1>7. t # "'s'" => Body(t, fancy) = <<t>> \/ Body(t, fancy) = <<t, "\n">> \/ Body(t, fancy) = <<t, Blank>>
  BY DEF Body
<1> QED BY <1>3, <1>4, <1>5, <1>6, <1>7

LEMMA TokenSpoken ==
  ASSUME NEW v \in Seq(ValueTokens), NEW i \in 1 .. Len(v), NEW fancy \in BOOLEAN
  PROVE  \E d : OneSpoken(Lead(v, i, fancy) \o Body(v[i], fancy), d, Say(v[i]))
<1> DEFINE a == Lead(v, i, fancy)
           b == Body(v[i], fancy)
           x == Say(v[i])
           m == Len(a)
           n == Len(b)
           c == a \o b
<1>1. v[i] \in ValueTokens /\ i \in Int OBVIOUS
<1>2. a \in Seq(Layout) BY <1>1, LeadIs
<1>3. PICK d : OneSpoken(b, d, x) BY <1>1, BodyIs
<1>4. a \in Seq(Pieces)
  <2>1. Layout \subseteq Pieces BY DEF Pieces
  <2> HIDE DEF a
  <2> QED BY <1>2, <2>1, SeqMonotonic
<1> HIDE DEF a, b, x
<1>5. /\ b \in Seq(Pieces) /\ d \in 1 .. n /\ b[d] = x /\ x \notin Layout
      /\ \A k \in 1 .. n : k # d => b[k] \in Layout
  BY <1>3 DEF OneSpoken
<1>6. /\ c \in Seq(Pieces) /\ Len(c) = m + n /\ m \in Nat /\ n \in Nat
      /\ \A k \in 1 .. m + n : c[k] = IF k <= m THEN a[k] ELSE b[k - m]
  BY <1>4, <1>5, ConcatProperties
<1>7. \A k \in 1 .. m : a[k] \in Layout BY <1>2
<1> HIDE DEF c, m, n
<1>8. /\ m + d \in 1 .. m + n /\ ~(m + d <= m) /\ (m + d) - m = d BY <1>5, <1>6
<1>9. c[m + d] = x BY <1>5, <1>6, <1>8
<1>10. ASSUME NEW k \in 1 .. m + n, k # m + d PROVE c[k] \in Layout
  <2>1. CASE k <= m
    <3>1. k \in 1 .. m BY <2>1, <1>6
    <3> QED BY <1>6, <1>7, <2>1, <3>1
  <2>2. CASE ~(k <= m)
    <3>1. k - m \in 1 .. n /\ k - m # d BY <1>5, <1>6, <1>10, <2>2
    <3> QED BY <1>5, <1>6, <2>2, <3>1
  <2> QED BY <2>1, <2>2
<1>11. OneSpoken(c, m + d, x) BY <1>5, <1>6, <1>8, <1>9, <1>10 DEF OneSpoken
<1> QED BY <1>11 DEF c, a, b, x

-----------------------------------------------------------------------------
(***************************************************************************)
(* The generator, one token at a time: what is in the buffer, apart from   *)
(* the layout, is what is to be said of the value up to its place.         *)
(***************************************************************************)

\* What is to be written of a value before a place.
Sayings(v, n) == [i \in 1 .. n - 1 |-> Say(v[i])]

WriterOk ==
  /\ gen \in Generators
  /\ jat \in {"writing", "written"} =>
       /\ gen.at <= Len(jroot) + 1 /\ (jat = "written" => gen.at = Len(jroot) + 1)
       /\ ~gen.dropped => Spoken(gen.out) = Sayings(jroot, gen.at)

LEMMA NothingSpoken == ASSUME NEW v PROVE Spoken(<< >>) = Sayings(v, 1)
<1>1. Spoken(<< >>) = << >> BY PickedNone DEF Spoken
<1>2. Sayings(v, 1) = << >> BY DEF Sayings
<1> QED BY <1>1, <1>2

LEMMA SayingsGrow ==
  ASSUME NEW v \in Seq(ValueTokens), NEW n \in 1 .. Len(v)
  PROVE  Append(Sayings(v, n), Say(v[n])) = Sayings(v, n + 1)
<1> DEFINE a == Sayings(v, n)
           b == Sayings(v, n + 1)
           x == Say(v[n])
           T == {Say(t) : t \in ValueTokens}
<1>1. \A i \in 1 .. Len(v) : Say(v[i]) \in T OBVIOUS
<1>2. n \in Nat /\ n - 1 \in Nat /\ n >= 1 /\ (n + 1) - 1 = n /\ Len(v) \in Nat OBVIOUS
<1>3. a \in [1 .. n - 1 -> T] /\ \A i \in 1 .. n - 1 : a[i] = Say(v[i])
  <2>1. \A i \in 1 .. n - 1 : i \in 1 .. Len(v) OBVIOUS
  <2> HIDE DEF T
  <2> QED BY <1>1, <2>1 DEF Sayings
<1>4. b \in [1 .. n -> T] /\ \A i \in 1 .. n : b[i] = Say(v[i])
  <2>1. \A i \in 1 .. n : i \in 1 .. Len(v) OBVIOUS
  <2> HIDE DEF T
  <2>2. b = [i \in 1 .. n |-> Say(v[i])] BY <1>2 DEF Sayings
  <2> QED BY <1>1, <2>1, <2>2
<1>5. x \in T BY <1>1
<1> HIDE DEF a, b, T, x
<1>6. a \in Seq(T) /\ Len(a) = n - 1 BY <1>2, <1>3, MembersMap
<1>7. b \in Seq(T) /\ Len(b) = n BY <1>2, <1>4, MembersMap
<1>8. /\ Append(a, x) \in Seq(T) /\ Len(Append(a, x)) = n - 1 + 1
      /\ \A i \in 1 .. n - 1 : Append(a, x)[i] = a[i]
      /\ Append(a, x)[n - 1 + 1] = x
  BY <1>5, <1>6, AppendProperties
<1>9. ASSUME NEW i \in 1 .. n PROVE Append(a, x)[i] = b[i]
  <2>1. CASE i = n
    <3>1. n - 1 + 1 = n BY <1>2
    <3> QED BY <1>4, <1>8, <2>1, <3>1 DEF x
  <2>2. CASE i # n
    <3>1. i \in 1 .. n - 1 BY <1>2, <2>2
    <3> QED BY <1>3, <1>4, <1>8, <3>1
  <2> QED BY <2>1, <2>2
<1>10. Append(a, x) = b
  <2>1. Len(Append(a, x)) = n BY <1>2, <1>8
  <2> QED BY <1>7, <1>8, <1>9, <2>1, SeqEqual
<1> QED BY <1>10 DEF a, b, x

LEMMA NoBufferIs ==
  ASSUME NEW cap \in Nat, NEW g \in BOOLEAN, NEW p \in BOOLEAN
  PROVE  /\ NoBuffer \in Generators
         /\ LET h == [NoBuffer EXCEPT !.cap = cap, !.grows = g, !.pretty = p]
            IN h \in Generators /\ h.at = 1 /\ h.out = << >>
<1> DEFINE b == NoBuffer
           h == [b EXCEPT !.cap = cap, !.grows = g, !.pretty = p]
<1>1. /\ b \in GenRecords /\ b.at = 1 /\ b.pos = 0 /\ b.cap = 0 /\ b.out = << >>
      /\ Neat(b)
  BY DEF NoBuffer, GenRecords, Neat
<1> HIDE DEF b
<1>2. /\ h \in GenRecords /\ h.at = b.at /\ h.pos = b.pos /\ h.cap = cap /\ h.out = b.out
      /\ h.dropped = b.dropped /\ h.spilled = b.spilled
  BY <1>1 DEF GenRecords
<1> HIDE DEF h
<1>3. b \in Generators BY <1>1 DEF Generators
<1>4. Neat(h) BY <1>1, <1>2 DEF Neat
<1>5. h \in Generators BY <1>1, <1>2, <1>4 DEF Generators
<1> QED BY <1>1, <1>2, <1>3, <1>5 DEF h, b

LEMMA WriterBegins == ASSUME JsonInit PROVE WriterOk
<1>1. gen = NoBuffer /\ jat = "value" BY DEF JsonInit
<1>2. 0 \in Nat /\ TRUE \in BOOLEAN OBVIOUS
<1>3. NoBuffer \in Generators BY <1>2, NoBufferIs
<1> QED BY <1>1, <1>3 DEF WriterOk

LEMMA InitStep == ASSUME ParserOk, WriterOk, GeneratorInit PROVE WriterOk'
<1>1. PICK cap \in BufferSizes, g \in BOOLEAN, p \in BOOLEAN :
        gen' = [NoBuffer EXCEPT !.cap = cap, !.grows = g, !.pretty = p]
  BY DEF GeneratorInit
<1>2. cap \in Nat BY JsonAssumption DEF JsonAssumption
<1>3. gen' \in Generators /\ gen'.at = 1 /\ gen'.out = << >> BY <1>1, <1>2, NoBufferIs
<1>4. jat' = "writing" BY DEF GeneratorInit
<1>5. jroot' = jroot /\ IsValue(jroot) BY DEF GeneratorInit, ParserOk, ParsedOk, Parsed
<1>6. Len(jroot') \in Nat BY <1>5 DEF IsValue
<1>7. Spoken(gen'.out) = Sayings(jroot', gen'.at) BY <1>3, NothingSpoken
<1> QED BY <1>3, <1>4, <1>6, <1>7 DEF WriterOk

LEMMA GenerateStep == ASSUME ParserOk, WriterOk, Generate PROVE WriterOk'
<1> DEFINE P == Lead(jroot, gen.at, gen.pretty) \o Body(jroot[gen.at], gen.pretty)
           n == gen.at
           x == Say(jroot[n])
<1>1. /\ jat = "writing" /\ n <= Len(jroot) /\ jroot' = jroot
      /\ jat' = IF n = Len(jroot) THEN "written" ELSE jat
  BY DEF Generate
<1>2. PICK works \in BOOLEAN : gen' = [AllWritten(gen, P, works) EXCEPT !.at = @ + 1]
  BY DEF Generate
<1>3. jroot \in Seq(ValueTokens) BY <1>1 DEF ParserOk, ParsedOk, Parsed, IsValue
<1>4. gen \in Generators /\ n \in Nat \ {0} /\ gen.pretty \in BOOLEAN
  BY DEF WriterOk, Generators, GenRecords
<1>5. n \in 1 .. Len(jroot) /\ Len(jroot) \in Nat BY <1>1, <1>3, <1>4
<1>6. PICK d : OneSpoken(P, d, x) BY <1>3, <1>4, <1>5, TokenSpoken
<1> DEFINE w == AllWritten(gen, P, works)
<1> HIDE DEF P
<1>7. w \in Generators /\ Carries(gen, w) /\ (~w.dropped => Spoken(w.out) = Append(Spoken(gen.out), x))
  BY <1>4, <1>6, AllWrittenSpoken
<1>8. gen' = [w EXCEPT !.at = @ + 1] BY <1>2
<1> HIDE DEF w
<1>9. w \in GenRecords /\ w.at = n /\ w.at + 1 \in Nat \ {0} BY <1>4, <1>7 DEF Generators, Carries
<1> HIDE DEF n
<1>10. /\ gen' \in GenRecords /\ gen'.at = n + 1 /\ gen'.pos = w.pos /\ gen'.cap = w.cap
       /\ (Ample(gen)' <=> Ample(w)) /\ (Neat(gen)' <=> Neat(w)) /\ gen'.out = w.out /\ gen'.dropped = w.dropped
  BY <1>8, <1>9 DEF GenRecords, Ample, Neat
<1>11. gen' \in Generators BY <1>7, <1>10 DEF Generators
<1>12. ASSUME ~gen'.dropped PROVE Spoken(gen'.out) = Sayings(jroot', gen'.at)
  <2>1. ~w.dropped /\ ~gen.dropped BY <1>7, <1>10, <1>12 DEF Carries
  <2>2. Spoken(gen.out) = Sayings(jroot, n) BY <1>1, <2>1 DEF WriterOk, n
  <2>3. Spoken(w.out) = Append(Sayings(jroot, n), x) BY <1>7, <2>1, <2>2
  <2> QED BY <1>1, <1>3, <1>5, <1>10, <2>3, SayingsGrow
<1>13. n + 1 <= Len(jroot) + 1 /\ (jat' = "written" => n + 1 = Len(jroot) + 1) BY <1>1, <1>5
<1> QED BY <1>1, <1>10, <1>11, <1>12, <1>13 DEF WriterOk

LEMMA ResetStep == ASSUME ParserOk, WriterOk, GeneratorReset PROVE WriterOk'
<1>1. PICK p \in BOOLEAN :
        gen' = [gen EXCEPT !.at = 1, !.pos = 0, !.out = <<>>, !.dropped = FALSE, !.pretty = p]
  BY DEF GeneratorReset
<1>2. jat = "written" /\ jat' = "writing" /\ jroot' = jroot BY DEF GeneratorReset
<1>3. gen \in GenRecords /\ (Ample(gen) => Neat(gen)) /\ gen.cap \in Nat
  BY DEF WriterOk, Generators, GenRecords
<1>4. << >> \in Seq(Pieces) /\ 1 \in Nat \ {0} /\ 0 \in Nat OBVIOUS
<1>5. /\ gen' \in GenRecords /\ gen'.at = 1 /\ gen'.pos = 0 /\ gen'.out = << >> /\ gen'.cap = gen.cap
      /\ (Ample(gen)' <=> Ample(gen)) /\ (Neat(gen) => Neat(gen)')
  BY <1>1, <1>3, <1>4 DEF GenRecords, Ample, Neat
<1>6. gen' \in Generators BY <1>3, <1>5 DEF Generators
<1>7. Len(jroot') \in Nat BY <1>2 DEF ParserOk, ParsedOk, Parsed, IsValue
<1>8. Spoken(gen'.out) = Sayings(jroot', gen'.at) BY <1>5, NothingSpoken
<1> QED BY <1>2, <1>5, <1>6, <1>7, <1>8 DEF WriterOk

LEMMA WriterStep == ASSUME ParserOk, WriterOk, [JsonNext]_jsonVars PROVE WriterOk'
<1>1. CASE UNCHANGED jsonVars BY <1>1 DEF jsonVars, WriterOk
<1>2. ASSUME UNCHANGED gen, jat' \notin {"writing", "written"} PROVE WriterOk'
  BY <1>2 DEF WriterOk
<1>3. CASE SkipComment \/ SkipUnended
  BY <1>2, <1>3 DEF SkipComment, SkipUnended, Skippable
<1>4. CASE BeginContainer \/ Separator \/ ParseEnds
  BY <1>2, <1>4 DEF BeginContainer, Separator, ParseEnds
<1>5. CASE CloseContainer
  BY <1>2, <1>5 DEF CloseContainer, Deliver, Fails
<1>6. CASE ParseNumber \/ ParseString \/ ParseFails
  BY <1>2, <1>6 DEF ParseNumber, ParseString, ParseFails, Deliver, Fails
<1>7. CASE ExpectColon BY <1>2, <1>7 DEF ExpectColon, Fails
<1>8. CASE GeneratorInit BY <1>8, InitStep
<1>9. CASE Generate BY <1>9, GenerateStep
<1>10. CASE GeneratorReset BY <1>10, ResetStep
<1>11. CASE ParserDestroy
  <2>1. gen' = NoBuffer /\ jat' = "gone" BY <1>11 DEF ParserDestroy
  <2>2. 0 \in Nat /\ TRUE \in BOOLEAN OBVIOUS
  <2>3. NoBuffer \in Generators BY <2>2, NoBufferIs
  <2> QED BY <2>1, <2>3 DEF WriterOk
<1> QED BY <1>1, <1>3, <1>4, <1>5, <1>6, <1>7, <1>8, <1>9, <1>10, <1>11 DEF JsonNext

LEMMA WriterWritten == ASSUME ParserOk, WriterOk PROVE JsonWritten
<1>1. gen.grows /\ ~gen.starved => ~gen.dropped /\ ~gen.spilled
  BY DEF WriterOk, Generators, Ample, Neat
<1>2. ASSUME jat = "written", ~gen.dropped
      PROVE  Spoken(gen.out) = [i \in DOMAIN jroot |-> Say(jroot[i])]
  <2>1. jroot \in Seq(ValueTokens) BY <1>2 DEF ParserOk, ParsedOk, Parsed, IsValue
  <2>2. Spoken(gen.out) = Sayings(jroot, Len(jroot) + 1) BY <1>2 DEF WriterOk
  <2>3. Len(jroot) + 1 - 1 = Len(jroot) /\ DOMAIN jroot = 1 .. Len(jroot) BY <2>1
  <2> QED BY <2>2, <2>3 DEF Sayings
<1> QED BY <1>1, <1>2 DEF JsonWritten, Spoken, Say, Layout

\* A value goes through the parser and the generator whole, whatever containers
\* had to grow, however the text ended and wherever the memory gave out.
THEOREM JsonGoesThroughWhole == JsonSpec => []JsonExact
<1> DEFINE Inv == ParserOk /\ WriterOk
<1>1. JsonInit => Inv BY ParserBegins, WriterBegins
<1>2. Inv /\ [JsonNext]_jsonVars => Inv' BY ParserStep, WriterStep
<1>3. Inv => JsonExact BY ParserParsed, WriterWritten DEF JsonExact
<1> QED BY <1>1, <1>2, <1>3, PTL DEF JsonSpec

-----------------------------------------------------------------------------
(***************************************************************************)
(* What is picked keeps its order.                                         *)
(***************************************************************************)
\* p has what s has at the places h, which go up and lie among the first n.
Selection(h, p, s, places, n) ==
  /\ h \in [1 .. Len(p) -> 1 .. n]
  /\ \A i, j \in 1 .. Len(p) : i < j => h[i] < h[j]
  /\ \A k \in 1 .. Len(p) : h[k] \in places /\ p[k] = s[h[k]]

LEMMA SelectionGrows ==
  ASSUME NEW S, NEW s \in Seq(S), NEW places, NEW n \in 1 .. Len(s), n \in places,
         NEW p \in Seq(S), NEW h, Selection(h, p, s, places, n - 1)
  PROVE  \E k : Selection(k, Append(p, s[n]), s, places, n)
<1> DEFINE m == Len(p)
           k == [i \in 1 .. m + 1 |-> IF i <= m THEN h[i] ELSE n]
           q == Append(p, s[n])
<1>1. /\ h \in [1 .. m -> 1 .. n - 1] /\ \A i, j \in 1 .. m : i < j => h[i] < h[j]
      /\ \A i \in 1 .. m : h[i] \in places /\ p[i] = s[h[i]]
  BY DEF Selection
<1>2. m \in Nat /\ s[n] \in S /\ n \in Nat OBVIOUS
<1>3. q \in Seq(S) /\ Len(q) = m + 1 /\ (\A i \in 1 .. m : q[i] = p[i]) /\ q[m + 1] = s[n]
  BY <1>2, AppendProperties
<1> HIDE DEF q, m
<1>4. ASSUME NEW i \in 1 .. m + 1 PROVE k[i] \in 1 .. n /\ k[i] \in places /\ q[i] = s[k[i]]
  <2>1. CASE i <= m
    <3>1. i \in 1 .. m /\ k[i] = h[i] BY <1>2, <2>1
    <3> QED BY <1>1, <1>2, <1>3, <3>1
  <2>2. CASE ~(i <= m)
    <3>1. i = m + 1 /\ k[i] = n BY <1>2, <2>2
    <3> QED BY <1>2, <1>3, <3>1
  <2> QED BY <2>1, <2>2
<1>5. ASSUME NEW i \in 1 .. m + 1, NEW j \in 1 .. m + 1, i < j PROVE k[i] < k[j]
  <2>1. i \in 1 .. m /\ k[i] = h[i] BY <1>2, <1>5
  <2>2. h[i] \in 1 .. n - 1 BY <1>1, <2>1
  <2>3. CASE j <= m
    <3>1. j \in 1 .. m /\ k[j] = h[j] BY <1>2, <2>3
    <3> QED BY <1>1, <1>5, <2>1, <3>1
  <2>4. CASE ~(j <= m) BY <1>2, <2>1, <2>2, <2>4
  <2> QED BY <2>3, <2>4
<1>6. k \in [1 .. m + 1 -> 1 .. n] BY <1>4
<1> HIDE DEF k
<1>7. Selection(k, q, s, places, n) BY <1>3, <1>4, <1>5, <1>6 DEF Selection
<1> QED BY <1>7 DEF q

LEMMA PickedSelects ==
  ASSUME NEW S, NEW s \in Seq(S), NEW places
  PROVE  /\ Picked(s, places) \in Seq(S)
         /\ \E h : Selection(h, Picked(s, places), s, places, Len(s))
<1>1. PICK f : Picking(f, s, places, S) BY PickingExists
<1>2. /\ f \in [0 .. Len(s) -> Seq(S)] /\ f[0] = << >>
      /\ \A i \in 1 .. Len(s) : f[i] = IF i \in places THEN Append(f[i - 1], s[i]) ELSE f[i - 1]
  BY <1>1 DEF Picking
<1>3. Picked(s, places) = f[Len(s)] /\ Len(s) \in Nat BY <1>1, PickedIs
<1> DEFINE Good == {n \in 0 .. Len(s) : \E h : Selection(h, f[n], s, places, n)}
<1>4. 0 \in Good
  <2> DEFINE h == [i \in 1 .. 0 |-> i]
  <2>1. Len(<< >>) = 0 /\ h \in [1 .. 0 -> 1 .. 0] OBVIOUS
  <2>2. Selection(h, << >>, s, places, 0) BY <2>1 DEF Selection
  <2> HIDE DEF h
  <2> QED BY <1>2, <1>3, <2>2
<1>5. ASSUME NEW n \in 0 .. Len(s), n > 0, n - 1 \in Good PROVE n \in Good
  <2>1. PICK h : Selection(h, f[n - 1], s, places, n - 1) BY <1>5
  <2>2. n \in 1 .. Len(s) /\ n - 1 \in 0 .. Len(s) BY <1>3, <1>5
  <2>3. f[n - 1] \in Seq(S) BY <1>2, <2>2
  <2>4. CASE n \in places
    <3>1. f[n] = Append(f[n - 1], s[n]) BY <1>2, <2>2, <2>4
    <3>2. \E k : Selection(k, Append(f[n - 1], s[n]), s, places, n)
      BY <2>1, <2>2, <2>3, <2>4, SelectionGrows, Zenon
    <3> QED BY <3>1, <3>2
  <2>5. CASE n \notin places
    <3>1. f[n] = f[n - 1] BY <1>2, <2>2, <2>5
    <3>2. \A i \in 1 .. n - 1 : i \in 1 .. n BY <2>2
    <3>3. h \in [1 .. Len(f[n]) -> 1 .. n]
      <4>1. h \in [1 .. Len(f[n]) -> 1 .. n - 1] BY <2>1, <3>1 DEF Selection
      <4> QED BY <3>2, <4>1
    <3>4. Selection(h, f[n], s, places, n) BY <2>1, <3>1, <3>3 DEF Selection
    <3> QED BY <3>4
  <2> QED BY <2>4, <2>5
<1> HIDE DEF Good
<1>6. 0 .. Len(s) \subseteq Good BY <1>3, <1>4, <1>5, InductionTo
<1>7. Len(s) \in Good BY <1>3, <1>6
<1>8. \E h : Selection(h, f[Len(s)], s, places, Len(s)) BY <1>7 DEF Good
<1>9. f[Len(s)] \in Seq(S) BY <1>2, <1>3
<1> QED BY <1>3, <1>8, <1>9

LEMMA PickedAll ==
  ASSUME NEW S, NEW s \in Seq(S), NEW places, 1 .. Len(s) \subseteq places
  PROVE  Picked(s, places) = s
<1>1. PICK f : Picking(f, s, places, S) BY PickingExists
<1>2. /\ f \in [0 .. Len(s) -> Seq(S)] /\ f[0] = << >>
      /\ \A i \in 1 .. Len(s) : f[i] = Append(f[i - 1], s[i])
  BY <1>1 DEF Picking
<1>3. Picked(s, places) = f[Len(s)] /\ Len(s) \in Nat BY <1>1, PickedIs
<1> DEFINE Good == {n \in 0 .. Len(s) : Len(f[n]) = n /\ \A i \in 1 .. n : f[n][i] = s[i]}
<1>4. 0 \in Good BY <1>2, <1>3
<1>5. ASSUME NEW n \in 0 .. Len(s), n > 0, n - 1 \in Good PROVE n \in Good
  <2>1. n \in 1 .. Len(s) /\ n - 1 \in 0 .. Len(s) BY <1>3, <1>5
  <2>2. f[n - 1] \in Seq(S) /\ s[n] \in S /\ f[n] = Append(f[n - 1], s[n])
    <3>1. s[n] \in S BY <2>1
    <3> QED BY <1>2, <2>1, <3>1
  <2>3. Len(f[n - 1]) = n - 1 /\ \A i \in 1 .. n - 1 : f[n - 1][i] = s[i] BY <1>5
  <2>4. Len(f[n]) = (n - 1) + 1 /\ (\A i \in 1 .. n - 1 : f[n][i] = f[n - 1][i]) /\ f[n][(n - 1) + 1] = s[n]
    BY <2>2, <2>3, AppendProperties
  <2>5. ASSUME NEW i \in 1 .. n PROVE f[n][i] = s[i]
    <3>1. CASE i = n BY <2>1, <2>4, <3>1
    <3>2. CASE i # n
      <4>1. i \in 1 .. n - 1 BY <2>1, <3>2
      <4> QED BY <2>3, <2>4, <4>1
    <3> QED BY <3>1, <3>2
  <2>6. Len(f[n]) = n BY <2>1, <2>4
  <2> QED BY <2>5, <2>6
<1> HIDE DEF Good
<1>6. 0 .. Len(s) \subseteq Good BY <1>3, <1>4, <1>5, InductionTo
<1>7. Len(s) \in Good BY <1>3, <1>6
<1>8. Len(f[Len(s)]) = Len(s) /\ \A i \in 1 .. Len(s) : f[Len(s)][i] = s[i] BY <1>7 DEF Good
<1>9. f[Len(s)] \in Seq(S) BY <1>2, <1>3
<1> QED BY <1>3, <1>8, <1>9, SeqEqual

-----------------------------------------------------------------------------
(***************************************************************************)
(* The order asked for, on entities that have numbers to be ordered by.    *)
(***************************************************************************)
Key(e, o, k) == e[o[k][1]]

Weighed(C, o) == \A e \in C : \A k \in DOMAIN o : Key(e, o, k) \in Int

FirstAt(e, g, o, k) == /\ k \in DOMAIN o /\ Key(e, o, k) # Key(g, o, k)
                       /\ \A j \in 1 .. k - 1 : Key(e, o, j) = Key(g, o, j)

Alike(e, g, o) == \A k \in DOMAIN o : Key(e, o, k) = Key(g, o, k)

Leads(e, g, o, k) == (Key(e, o, k) > Key(g, o, k)) = o[k][2]

Earlier(e, g, s) == \E i, j \in DOMAIN s : i < j /\ s[i] = e /\ s[j] = g

LEMMA FirstIs ==
  ASSUME NEW o \in Seq(STRING \X BOOLEAN), NEW e, NEW g
  PROVE  /\ \A k : k \in FirstDifference(e, g, o) <=> FirstAt(e, g, o, k)
         /\ Alike(e, g, o) <=> FirstDifference(e, g, o) = {}
         /\ \A k, l : FirstAt(e, g, o, k) /\ FirstAt(e, g, o, l) => k = l
<1>1. \A k : k \in FirstDifference(e, g, o) <=> FirstAt(e, g, o, k)
  BY DEF FirstDifference, FirstAt, Key
<1>2. DOMAIN o = 1 .. Len(o) /\ Len(o) \in Nat OBVIOUS
<1>3. ASSUME ~Alike(e, g, o) PROVE \E k : FirstAt(e, g, o, k)
  <2> DEFINE D == {k \in 1 .. Len(o) : Key(e, o, k) # Key(g, o, k)}
  <2>1. D # {} BY <1>2, <1>3 DEF Alike
  <2>2. D \in SUBSET Nat OBVIOUS
  <2>3. PICK k \in D : \A l \in D : k <= l
    <3> HIDE DEF D
    <3> QED BY <2>1, <2>2, LeastNatural
  <2>4. ASSUME NEW j \in 1 .. k - 1 PROVE Key(e, o, j) = Key(g, o, j)
    <3>1. k \in 1 .. Len(o) BY <2>3
    <3>2. j \in 1 .. Len(o) /\ ~(k <= j) BY <1>2, <3>1
    <3> QED BY <2>3, <3>2
  <2>5. FirstAt(e, g, o, k) BY <1>2, <2>3, <2>4 DEF FirstAt
  <2> QED BY <2>5
<1>4. ASSUME NEW k, FirstAt(e, g, o, k) PROVE ~Alike(e, g, o) BY <1>4 DEF FirstAt, Alike
<1>5. ASSUME NEW k, NEW l, FirstAt(e, g, o, k), FirstAt(e, g, o, l) PROVE k = l
  <2>1. k \in 1 .. Len(o) /\ l \in 1 .. Len(o) BY <1>2, <1>5 DEF FirstAt
  <2>2. ~(k < l) /\ ~(l < k)
    <3>1. k < l => k \in 1 .. l - 1 BY <1>2, <2>1
    <3>2. l < k => l \in 1 .. k - 1 BY <1>2, <2>1
    <3> QED BY <1>5, <3>1, <3>2 DEF FirstAt
  <2> QED BY <1>2, <2>1, <2>2
<1> QED BY <1>1, <1>3, <1>4, <1>5

LEMMA PrecedesIs ==
  ASSUME NEW o \in Seq(STRING \X BOOLEAN), NEW e, NEW g, NEW s
  PROVE  /\ Alike(e, g, o) => (Precedes(e, g, o, s) <=> Earlier(e, g, s))
         /\ \A k : FirstAt(e, g, o, k) => (Precedes(e, g, o, s) <=> Leads(e, g, o, k))
<1> DEFINE F == FirstDifference(e, g, o)
<1>1. Precedes(e, g, o, s) <=> IF F = {} THEN Earlier(e, g, s) ELSE \A k \in F : Leads(e, g, o, k)
  BY DEF Precedes, Earlier, Leads, Key
<1> HIDE DEF F
<1>2. Alike(e, g, o) => (Precedes(e, g, o, s) <=> Earlier(e, g, s)) BY <1>1, FirstIs DEF F
<1>3. ASSUME NEW k, FirstAt(e, g, o, k) PROVE F = {k}
  <2>1. \A l : l \in F <=> FirstAt(e, g, o, l) BY FirstIs DEF F
  <2> QED BY <1>3, <2>1, FirstIs
<1>4. ASSUME NEW k, FirstAt(e, g, o, k) PROVE Precedes(e, g, o, s) <=> Leads(e, g, o, k)
  BY <1>1, <1>3, <1>4
<1> QED BY <1>2, <1>4

LEMMA EarlierOrders ==
  ASSUME NEW S, NEW s \in Seq(S), IsInjective(s)
  PROVE  /\ \A e, g : Earlier(e, g, s) => ~Earlier(g, e, s)
         /\ \A e, f, g : Earlier(e, f, s) /\ Earlier(f, g, s) => Earlier(e, g, s)
<1>1. DOMAIN s = 1 .. Len(s) /\ Len(s) \in Nat OBVIOUS
<1>2. \A i, j \in 1 .. Len(s) : s[i] = s[j] => i = j BY <1>1 DEF IsInjective
<1> QED BY <1>1, <1>2 DEF Earlier

LEMMA LeadsOrders ==
  ASSUME NEW C, NEW o \in Seq(STRING \X BOOLEAN), Weighed(C, o), NEW k \in DOMAIN o,
         NEW e \in C, NEW f \in C, NEW g \in C
  PROVE  /\ Key(e, o, k) # Key(g, o, k) => (Leads(e, g, o, k) <=> ~Leads(g, e, o, k))
         /\ /\ Key(e, o, k) # Key(f, o, k) /\ Leads(e, f, o, k)
            /\ Key(f, o, k) # Key(g, o, k) /\ Leads(f, g, o, k)
            => Key(e, o, k) # Key(g, o, k) /\ Leads(e, g, o, k)
<1>1. Key(e, o, k) \in Int /\ Key(f, o, k) \in Int /\ Key(g, o, k) \in Int BY DEF Weighed
<1>2. o[k][2] = TRUE \/ o[k][2] = FALSE
  <2>1. o[k] \in STRING \X BOOLEAN OBVIOUS
  <2> QED BY <2>1
<1>3. CASE o[k][2] = TRUE
  <2>1. \A x, y \in {e, f, g} : Leads(x, y, o, k) <=> Key(x, o, k) > Key(y, o, k) BY <1>3 DEF Leads
  <2> QED BY <1>1, <2>1
<1>4. CASE o[k][2] = FALSE
  <2>1. \A x, y \in {e, f, g} : Leads(x, y, o, k) <=> ~(Key(x, o, k) > Key(y, o, k)) BY <1>4 DEF Leads
  <2> QED BY <1>1, <2>1
<1> QED BY <1>2, <1>3, <1>4

LEMMA OneBeforeTheOther ==
  ASSUME NEW S, NEW s \in Seq(S), IsInjective(s),
         NEW C, NEW o \in Seq(STRING \X BOOLEAN), Weighed(C, o), NEW e \in C, NEW g \in C,
         Precedes(e, g, o, s)
  PROVE  ~Precedes(g, e, o, s)
<1>1. CASE Alike(e, g, o)
  <2>1. Alike(g, e, o) BY <1>1 DEF Alike
  <2>2. Earlier(e, g, s) BY <1>1, PrecedesIs
  <2>3. ~Earlier(g, e, s) BY <2>2, EarlierOrders
  <2> QED BY <2>1, <2>3, PrecedesIs
<1>2. CASE ~Alike(e, g, o)
  <2>1. PICK k : FirstAt(e, g, o, k) BY <1>2, FirstIs
  <2>2. FirstAt(g, e, o, k) BY <2>1 DEF FirstAt
  <2>3. Leads(e, g, o, k) BY <2>1, PrecedesIs
  <2>4. k \in DOMAIN o /\ Key(e, o, k) # Key(g, o, k) BY <2>1 DEF FirstAt
  <2>5. ~Leads(g, e, o, k) BY <2>3, <2>4, LeadsOrders
  <2> QED BY <2>2, <2>5, PrecedesIs
<1> QED BY <1>1, <1>2

LEMMA PrecedesOnwards ==
  ASSUME NEW S, NEW s \in Seq(S), IsInjective(s),
         NEW C, NEW o \in Seq(STRING \X BOOLEAN), Weighed(C, o),
         NEW e \in C, NEW f \in C, NEW g \in C, Precedes(e, f, o, s), Precedes(f, g, o, s)
  PROVE  Precedes(e, g, o, s)
<1>1. CASE Alike(e, f, o) /\ Alike(f, g, o)
  <2>1. Alike(e, g, o) BY <1>1 DEF Alike
  <2>2. Earlier(e, f, s) /\ Earlier(f, g, s) BY <1>1, PrecedesIs
  <2>3. Earlier(e, g, s) BY <2>2, EarlierOrders
  <2> QED BY <2>1, <2>3, PrecedesIs
<1>2. CASE Alike(e, f, o) /\ ~Alike(f, g, o)
  <2>1. PICK k : FirstAt(f, g, o, k) BY <1>2, FirstIs
  <2>2. Leads(f, g, o, k) BY <2>1, PrecedesIs
  <2>3. k \in DOMAIN o /\ \A j \in 1 .. k - 1 : j \in DOMAIN o BY <2>1 DEF FirstAt
  <2>4. FirstAt(e, g, o, k) BY <1>2, <2>1, <2>3 DEF FirstAt, Alike
  <2>5. Key(e, o, k) = Key(f, o, k) BY <1>2, <2>3 DEF Alike
  <2>6. Leads(e, g, o, k) BY <2>2, <2>5 DEF Leads
  <2> QED BY <2>4, <2>6, PrecedesIs
<1>3. CASE ~Alike(e, f, o) /\ Alike(f, g, o)
  <2>1. PICK k : FirstAt(e, f, o, k) BY <1>3, FirstIs
  <2>2. Leads(e, f, o, k) BY <2>1, PrecedesIs
  <2>3. k \in DOMAIN o /\ \A j \in 1 .. k - 1 : j \in DOMAIN o BY <2>1 DEF FirstAt
  <2>4. FirstAt(e, g, o, k) BY <1>3, <2>1, <2>3 DEF FirstAt, Alike
  <2>5. Key(g, o, k) = Key(f, o, k) BY <1>3, <2>3 DEF Alike
  <2>6. Leads(e, g, o, k) BY <2>2, <2>5 DEF Leads
  <2> QED BY <2>4, <2>6, PrecedesIs
<1>4. CASE ~Alike(e, f, o) /\ ~Alike(f, g, o)
  <2>1. PICK k : FirstAt(e, f, o, k) BY <1>4, FirstIs
  <2>2. PICK l : FirstAt(f, g, o, l) BY <1>4, FirstIs
  <2>3. Leads(e, f, o, k) /\ Leads(f, g, o, l) BY <2>1, <2>2, PrecedesIs
  <2>4. /\ k \in 1 .. Len(o) /\ l \in 1 .. Len(o) /\ DOMAIN o = 1 .. Len(o)
        /\ Key(e, o, k) # Key(f, o, k) /\ Key(f, o, l) # Key(g, o, l)
        /\ \A j \in 1 .. k - 1 : Key(e, o, j) = Key(f, o, j)
        /\ \A j \in 1 .. l - 1 : Key(f, o, j) = Key(g, o, j)
    <3>1. DOMAIN o = 1 .. Len(o) OBVIOUS
    <3> QED BY <2>1, <2>2, <3>1 DEF FirstAt
  <2>5. CASE k < l
    <3>1. Key(f, o, k) = Key(g, o, k) /\ \A j \in 1 .. k - 1 : Key(e, o, j) = Key(g, o, j)
      <4>1. k \in 1 .. l - 1 /\ \A j \in 1 .. k - 1 : j \in 1 .. l - 1 BY <2>4, <2>5
      <4> QED BY <2>4, <4>1
    <3>2. FirstAt(e, g, o, k) /\ Leads(e, g, o, k) BY <2>3, <2>4, <3>1 DEF FirstAt, Leads
    <3> QED BY <3>2, PrecedesIs
  <2>6. CASE l < k
    <3>1. Key(e, o, l) = Key(f, o, l) /\ \A j \in 1 .. l - 1 : Key(e, o, j) = Key(g, o, j)
      <4>1. l \in 1 .. k - 1 /\ \A j \in 1 .. l - 1 : j \in 1 .. k - 1 BY <2>4, <2>6
      <4> QED BY <2>4, <4>1
    <3>2. FirstAt(e, g, o, l) /\ Leads(e, g, o, l) BY <2>3, <2>4, <3>1 DEF FirstAt, Leads
    <3> QED BY <3>2, PrecedesIs
  <2>7. CASE k = l
    <3>1. Key(e, o, k) # Key(g, o, k) /\ Leads(e, g, o, k)
      <4>1. /\ k \in DOMAIN o /\ Key(e, o, k) # Key(f, o, k) /\ Key(f, o, k) # Key(g, o, k)
            /\ Leads(e, f, o, k) /\ Leads(f, g, o, k)
        BY <2>3, <2>4, <2>7
      <4> QED BY <4>1, LeadsOrders
    <3>2. FirstAt(e, g, o, k) BY <2>4, <2>7, <3>1 DEF FirstAt
    <3> QED BY <3>1, <3>2, PrecedesIs
  <2> QED BY <2>4, <2>5, <2>6, <2>7
<1> QED BY <1>1, <1>2, <1>3, <1>4

\* Two that are to be swapped are in the wrong order, and two that are not are in
\* the right one or alike.
LEMMA SwapsIs ==
  ASSUME NEW C, NEW o \in Seq(STRING \X BOOLEAN), Weighed(C, o), NEW e \in C, NEW g \in C, NEW s,
         \A k \in DOMAIN o : Key(e, o, k) # 0 /\ Key(g, o, k) # 0
  PROVE  /\ Swaps(e, g, o) => ~Alike(e, g, o) /\ Precedes(g, e, o, s)
         /\ ~Swaps(e, g, o) => Alike(e, g, o) \/ Precedes(e, g, o, s)
<1> DEFINE c(k) == compare_entities(e, g, o[k])
<1>1. ASSUME NEW k \in DOMAIN o
      PROVE  /\ c(k) = 0 <=> Key(e, o, k) = Key(g, o, k)
             /\ Key(e, o, k) # Key(g, o, k) => (c(k) > 0 <=> Leads(g, e, o, k))
  <2> DEFINE x == Key(e, o, k)
             y == Key(g, o, k)
  <2>1. x \in Int /\ y \in Int /\ x # 0 /\ y # 0 BY DEF Weighed
  <2>2. c(k) = IF x = 0 \/ y = 0 \/ x = y THEN 0 ELSE IF (x < y) = o[k][2] THEN 1 ELSE -1
    BY DEF compare_entities, Key
  <2>3. Leads(g, e, o, k) <=> (y > x) = o[k][2] BY DEF Leads
  <2> HIDE DEF c, x, y
  <2>4. x < y <=> y > x BY <2>1
  <2>5. c(k) = 0 <=> x = y BY <2>1, <2>2
  <2>6. x # y => (c(k) > 0 <=> (x < y) = o[k][2]) BY <2>1, <2>2
  <2> QED BY <2>3, <2>4, <2>5, <2>6 DEF x, y
<1>2. Swaps(e, g, o) <=> \E k \in DOMAIN o : c(k) > 0 /\ \A j \in 1 .. k - 1 : c(j) = 0
  BY DEF Swaps
<1>3. DOMAIN o = 1 .. Len(o) /\ Len(o) \in Nat OBVIOUS
<1>4. \A k \in DOMAIN o : c(k) > 0 => Key(e, o, k) # Key(g, o, k) BY <1>1
<1> HIDE DEF c
<1>5. \A k \in DOMAIN o : \A j \in 1 .. k - 1 : j \in DOMAIN o BY <1>3
<1>6. ASSUME Swaps(e, g, o) PROVE ~Alike(e, g, o) /\ Precedes(g, e, o, s)
  <2>1. PICK k \in DOMAIN o : c(k) > 0 /\ \A j \in 1 .. k - 1 : c(j) = 0 BY <1>2, <1>6
  <2>2. Key(e, o, k) # Key(g, o, k) /\ Leads(g, e, o, k) BY <1>1, <1>4, <2>1
  <2>3. FirstAt(g, e, o, k) BY <1>1, <1>5, <2>1, <2>2 DEF FirstAt
  <2> QED BY <2>2, <2>3, PrecedesIs DEF Alike
<1>7. ASSUME ~Swaps(e, g, o), ~Alike(e, g, o) PROVE Precedes(e, g, o, s)
  <2>1. PICK k : FirstAt(e, g, o, k) BY <1>7, FirstIs
  <2>2. /\ k \in DOMAIN o /\ Key(e, o, k) # Key(g, o, k)
        /\ \A j \in 1 .. k - 1 : Key(e, o, j) = Key(g, o, j)
    BY <2>1 DEF FirstAt
  <2>3. \A j \in 1 .. k - 1 : c(j) = 0 BY <1>1, <1>5, <2>2
  <2>4. ~(c(k) > 0) BY <1>2, <1>7, <2>2, <2>3
  <2>5. ~Leads(g, e, o, k) BY <1>1, <2>2, <2>4
  <2>6. Leads(e, g, o, k) BY <2>2, <2>5, LeadsOrders
  <2> QED BY <2>1, <2>6, PrecedesIs
<1> QED BY <1>6, <1>7

-----------------------------------------------------------------------------
(***************************************************************************)
(* Bubble sort: it only moves entities, and if all have what they are      *)
(* ordered by, a comparison leaves alike ones in their order, what is      *)
(* sorted at the end as it is, and the greatest so far behind the others.  *)
(***************************************************************************)
SameItems(t, s, S) == /\ t \in Seq(S) /\ Len(t) = Len(s)
                      /\ ToSet(t) = ToSet(s) /\ IsInjective(t)

LEMMA BubbledIs ==
  ASSUME NEW S, NEW s \in Seq(S), NEW j \in 1 .. Len(s) - 1, NEW o, Swaps(s[j], s[j + 1], o)
  PROVE  /\ Bubbled(s, j, o) \in Seq(S) /\ Len(Bubbled(s, j, o)) = Len(s)
         /\ \A i \in 1 .. Len(s) :
              Bubbled(s, j, o)[i] = s[IF i = j THEN j + 1 ELSE IF i = j + 1 THEN j ELSE i]
<1> DEFINE n == Len(s)
           t == [s EXCEPT ![j] = s[j + 1], ![j + 1] = s[j]]
<1>1. Bubbled(s, j, o) = t BY DEF Bubbled
<1>2. n \in Nat /\ j \in 1 .. n /\ j + 1 \in 1 .. n /\ s \in [1 .. n -> S] OBVIOUS
<1>3. \A i \in 1 .. n : t[i] = s[IF i = j THEN j + 1 ELSE IF i = j + 1 THEN j ELSE i] BY <1>2
<1>4. t \in [1 .. n -> S] BY <1>2
<1> HIDE DEF t, n
<1>5. t \in Seq(S) /\ Len(t) = n BY <1>2, <1>4, MembersMap
<1> QED BY <1>1, <1>3, <1>5 DEF n

LEMMA BubbledSame ==
  ASSUME NEW S, NEW s \in Seq(S), IsInjective(s), NEW j \in 1 .. Len(s) - 1, NEW o
  PROVE  SameItems(Bubbled(s, j, o), s, S)
<1>1. CASE ~Swaps(s[j], s[j + 1], o)
  <2>1. Bubbled(s, j, o) = s BY <1>1 DEF Bubbled
  <2> QED BY <2>1 DEF SameItems
<1>2. CASE Swaps(s[j], s[j + 1], o)
  <2> DEFINE t == Bubbled(s, j, o)
             at == [i \in 1 .. Len(s) |-> IF i = j THEN j + 1 ELSE IF i = j + 1 THEN j ELSE i]
  <2>1. /\ t \in Seq(S) /\ Len(t) = Len(s)
        /\ \A i \in 1 .. Len(s) : t[i] = s[at[i]]
    BY <1>2, BubbledIs
  <2>2. /\ at \in [1 .. Len(s) -> 1 .. Len(s)]
        /\ \A i \in 1 .. Len(s) : at[at[i]] = i
    OBVIOUS
  <2>3. DOMAIN s = 1 .. Len(s) /\ DOMAIN t = 1 .. Len(s) BY <2>1
  <2> HIDE DEF t, at
  <2>4. ToSet(t) = ToSet(s)
    <3>1. \A i \in 1 .. Len(s) : s[i] = t[at[i]] BY <2>1, <2>2
    <3> QED BY <2>1, <2>2, <2>3, <3>1 DEF ToSet
  <2>5. IsInjective(t)
    <3>1. ASSUME NEW a \in 1 .. Len(s), NEW b \in 1 .. Len(s), t[a] = t[b] PROVE a = b
      <4>1. at[a] = at[b] BY <2>1, <2>2, <2>3, <3>1 DEF IsInjective
      <4> QED BY <2>2, <4>1
    <3> QED BY <2>3, <3>1 DEF IsInjective
  <2> QED BY <2>1, <2>4, <2>5 DEF SameItems, t
<1> QED BY <1>1, <1>2

Above(t, q, o, b) == \A p \in 1 .. q - 1 : Precedes(t[p], t[q], o, b)

Stable(t, o, b) ==
  \A p, q \in 1 .. Len(t) : p < q /\ Alike(t[p], t[q], o) => Precedes(t[p], t[q], o, b)

SortedFrom(t, m, o, b) == \A q \in m + 1 .. Len(t) : Above(t, q, o, b)

\* Entities that the ordering can tell apart by numbers that are there.
Fit(C, o) == /\ o \in Seq(STRING \X BOOLEAN) /\ Weighed(C, o)
             /\ \A e \in C : \A k \in DOMAIN o : Key(e, o, k) # 0

LEMMA BubbledSorts ==
  ASSUME NEW C, NEW o, Fit(C, o), NEW S, NEW b \in Seq(S), IsInjective(b),
         NEW t \in Seq(C), NEW m \in 1 .. Len(t), NEW j \in 1 .. m - 1,
         Stable(t, o, b), SortedFrom(t, m, o, b), Above(t, j, o, b)
  PROVE  /\ Stable(Bubbled(t, j, o), o, b) /\ SortedFrom(Bubbled(t, j, o), m, o, b)
         /\ Above(Bubbled(t, j, o), j + 1, o, b)
<1> DEFINE n == Len(t)
           u == Bubbled(t, j, o)
           P(x, y) == Precedes(x, y, o, b)
<1>1. /\ n \in Nat /\ m \in 1 .. n /\ j \in 1 .. n - 1 /\ j + 1 \in 1 .. m /\ j + 1 \in 1 .. n
      /\ j \in 1 .. n
  OBVIOUS
<1>2. \A i \in 1 .. n : t[i] \in C OBVIOUS
<1>3. o \in Seq(STRING \X BOOLEAN) /\ Weighed(C, o) BY DEF Fit
<1>4. /\ Swaps(t[j], t[j + 1], o) => ~Alike(t[j], t[j + 1], o) /\ P(t[j + 1], t[j])
      /\ ~Swaps(t[j], t[j + 1], o) => Alike(t[j], t[j + 1], o) \/ P(t[j], t[j + 1])
  <2>1. t[j] \in C /\ t[j + 1] \in C BY <1>1, <1>2
  <2>2. \A k \in DOMAIN o : Key(t[j], o, k) # 0 /\ Key(t[j + 1], o, k) # 0 BY <2>1 DEF Fit
  <2> QED BY <1>3, <2>1, <2>2, SwapsIs
<1>5. /\ \A p, q \in 1 .. n : p < q /\ Alike(t[p], t[q], o) => P(t[p], t[q])
      /\ \A q \in m + 1 .. n : \A p \in 1 .. q - 1 : P(t[p], t[q])
      /\ \A p \in 1 .. j - 1 : P(t[p], t[j])
  BY DEF Stable, SortedFrom, Above
<1>6. CASE ~Swaps(t[j], t[j + 1], o)
  <2>1. u = t BY <1>6 DEF Bubbled
  <2>2. P(t[j], t[j + 1]) BY <1>1, <1>4, <1>5, <1>6
  <2>3. ASSUME NEW p \in 1 .. j PROVE P(t[p], t[j + 1])
    <3>1. CASE p = j BY <2>2, <3>1
    <3>2. CASE p # j
      <4>1. p \in 1 .. j - 1 /\ p \in 1 .. n BY <1>1, <3>2
      <4>2. t[p] \in C /\ t[j] \in C /\ t[j + 1] \in C BY <1>1, <1>2, <4>1
      <4> QED BY <1>3, <1>5, <2>2, <4>1, <4>2, PrecedesOnwards
    <3> QED BY <3>1, <3>2
  <2>4. j + 1 - 1 = j BY <1>1
  <2> QED BY <2>1, <2>3, <2>4 DEF Above
<1>7. CASE Swaps(t[j], t[j + 1], o)
  <2> DEFINE at == [i \in 1 .. n |-> IF i = j THEN j + 1 ELSE IF i = j + 1 THEN j ELSE i]
  <2>1. Len(u) = n /\ \A i \in 1 .. n : u[i] = t[at[i]] BY <1>7, BubbledIs
  <2>2. /\ at \in [1 .. n -> 1 .. n]
        /\ at[j] = j + 1 /\ at[j + 1] = j
        /\ \A i \in 1 .. n : at[i] = IF i = j THEN j + 1 ELSE IF i = j + 1 THEN j ELSE i
    BY <1>1
  <2> HIDE DEF n, u, P, at
  <2>3. ~Alike(t[j], t[j + 1], o) /\ P(t[j + 1], t[j]) BY <1>4, <1>7
  <2>4. ASSUME NEW p \in 1 .. n, NEW q \in 1 .. n, p < q, Alike(u[p], u[q], o) PROVE P(u[p], u[q])
    <3>1. ~(p = j /\ q = j + 1)
      <4>1. p = j /\ q = j + 1 => Alike(t[j + 1], t[j], o) BY <2>1, <2>2, <2>4
      <4> QED BY <2>3, <4>1 DEF Alike
    <3>2. at[p] < at[q]
      <4>1. at[p] = IF p = j THEN j + 1 ELSE IF p = j + 1 THEN j ELSE p BY <2>2
      <4>2. at[q] = IF q = j THEN j + 1 ELSE IF q = j + 1 THEN j ELSE q BY <2>2
      <4>3. p \in Nat /\ q \in Nat /\ j \in Nat BY <1>1
      <4> QED BY <2>4, <3>1, <4>1, <4>2, <4>3
    <3>3. at[p] \in 1 .. n /\ at[q] \in 1 .. n /\ u[p] = t[at[p]] /\ u[q] = t[at[q]] BY <2>1, <2>2
    <3>4. Alike(t[at[p]], t[at[q]], o) BY <2>4, <3>3
    <3>5. P(t[at[p]], t[at[q]]) BY <1>5, <3>2, <3>3, <3>4
    <3> QED BY <3>3, <3>5
  <2>5. ASSUME NEW q \in m + 1 .. n, NEW p \in 1 .. q - 1 PROVE P(u[p], u[q])
    <3>1. q \in 1 .. n /\ p \in 1 .. n /\ at[q] = q BY <1>1, <2>2
    <3>2. at[p] \in 1 .. q - 1
      <4>1. at[p] = IF p = j THEN j + 1 ELSE IF p = j + 1 THEN j ELSE p BY <2>2, <3>1
      <4>2. p \in Nat /\ q \in Nat /\ j \in Nat /\ 1 <= p /\ p < q /\ 1 <= j /\ j + 1 < q BY <1>1, <3>1
      <4> QED BY <4>1, <4>2
    <3>3. u[p] = t[at[p]] /\ u[q] = t[q] BY <2>1, <3>1
    <3> QED BY <1>5, <3>2, <3>3
  <2>6. ASSUME NEW p \in 1 .. j PROVE P(u[p], u[j + 1])
    <3>1. CASE p = j BY <1>1, <2>1, <2>2, <2>3, <3>1
    <3>2. CASE p # j
      <4>1. p \in 1 .. j - 1 /\ p \in 1 .. n /\ at[p] = p BY <1>1, <2>2, <3>2
      <4> QED BY <1>1, <1>5, <2>1, <2>2, <4>1
    <3> QED BY <3>1, <3>2
  <2>7. j + 1 - 1 = j BY <1>1
  <2>8. Stable(u, o, b) BY <2>1, <2>4 DEF Stable, P
  <2>9. SortedFrom(u, m, o, b) BY <2>1, <2>5 DEF SortedFrom, Above, P
  <2>10. Above(u, j + 1, o, b) BY <2>6, <2>7 DEF Above, P
  <2> QED BY <2>8, <2>9, <2>10 DEF u
<1> QED BY <1>6, <1>7

AsLong(s, S) == {y \in Seq(S) : Len(y) = Len(s)}

LEMMA BubbledAsLong ==
  ASSUME NEW S, NEW s \in Seq(S), NEW y \in AsLong(s, S), NEW j \in 1 .. Len(s) - 1, NEW o
  PROVE  Bubbled(y, j, o) \in AsLong(s, S)
<1>1. y \in Seq(S) /\ Len(y) = Len(s) BY DEF AsLong
<1>2. CASE ~Swaps(y[j], y[j + 1], o) BY <1>1, <1>2 DEF Bubbled, AsLong
<1>3. CASE Swaps(y[j], y[j + 1], o)
  <2>1. Bubbled(y, j, o) \in Seq(S) /\ Len(Bubbled(y, j, o)) = Len(y) BY <1>1, <1>3, BubbledIs
  <2> QED BY <1>1, <2>1 DEF AsLong
<1> QED BY <1>2, <1>3

\* The sequence after each comparison of a pass, and after each pass.
Bubbling(f, s, n, o, S) ==
  /\ f \in [0 .. n -> AsLong(s, S)] /\ f[0] = s
  /\ \A i \in 1 .. n : f[i] = Bubbled(f[i - 1], i, o)

Sorting(f, s, o, S) ==
  /\ f \in [0 .. Len(s) -> AsLong(s, S)] /\ f[0] = s
  /\ \A i \in 1 .. Len(s) : f[i] = Pass(f[i - 1], Len(s) - i, o)

LEMMA BubblingExists ==
  ASSUME NEW S, NEW s \in Seq(S), NEW n \in Nat, n = 0 \/ n < Len(s), NEW o
  PROVE  \E f : Bubbling(f, s, n, o, S)
<1> DEFINE T == AsLong(s, S)
           F == [x \in (1 .. n) \X T |-> Bubbled(x[2], x[1], o)]
<1>1. PICK f : RunAlong(f, n, T, s, F)
  <2>1. ASSUME NEW x \in (1 .. n) \X T PROVE Bubbled(x[2], x[1], o) \in T
    <3>1. x[1] \in 1 .. Len(s) - 1 /\ x[2] \in T OBVIOUS
    <3> HIDE DEF T
    <3> QED BY <3>1, BubbledAsLong DEF T
  <2>2. s \in T BY DEF AsLong
  <2> HIDE DEF T
  <2>3. F \in [(1 .. n) \X T -> T] BY <2>1
  <2> HIDE DEF F
  <2> QED BY <2>2, <2>3, RunsAlong, Zenon
<1> HIDE DEF T
<1>2. f \in [0 .. n -> T] /\ f[0] = s /\ \A i \in 1 .. n : f[i] = F[<<i, f[i - 1]>>] BY <1>1 DEF RunAlong
<1>3. ASSUME NEW i \in 1 .. n PROVE f[i] = Bubbled(f[i - 1], i, o)
  <2>1. f[i - 1] \in T BY <1>2
  <2>2. \A y \in T : F[<<i, y>>] = Bubbled(y, i, o) OBVIOUS
  <2> HIDE DEF F
  <2> QED BY <1>2, <2>1, <2>2
<1> QED BY <1>2, <1>3 DEF Bubbling, T

LEMMA PassIs ==
  ASSUME NEW S, NEW s \in Seq(S), NEW n \in Nat, NEW o, NEW f, Bubbling(f, s, n, o, S)
  PROVE  Pass(s, n, o) = f[n]
<1> DEFINE E(r, i) == IF i = 0 THEN s ELSE Bubbled(r[i - 1], i, o)
           run == CHOOSE r : r = [i \in 0 .. n |-> E(r, i)]
<1>1. /\ f \in [0 .. n -> AsLong(s, S)] /\ f[0] = s
      /\ \A i \in 1 .. n : f[i] = Bubbled(f[i - 1], i, o)
  BY DEF Bubbling
<1>2. ASSUME NEW i \in 0 .. n PROVE f[i] = E(f, i)
  <2>1. CASE i = 0 BY <1>1, <2>1
  <2>2. CASE i # 0
    <3>1. i \in 1 .. n BY <2>2
    <3> QED BY <1>1, <2>2, <3>1
  <2> QED BY <2>1, <2>2
<1>3. f = [i \in 0 .. n |-> E(f, i)] BY <1>1, <1>2
<1>4. run = [i \in 0 .. n |-> E(run, i)] BY <1>3
<1>5. Pass(s, n, o) = run[n] BY DEF Pass
<1> HIDE DEF run
<1>6. run[0] = s BY <1>4
<1>7. ASSUME NEW i \in 1 .. n PROVE run[i] = Bubbled(run[i - 1], i, o)
  <2>1. i \in 0 .. n /\ i # 0 OBVIOUS
  <2> QED BY <1>4, <2>1
<1>8. InStep(run, f, n) BY <1>1, <1>6, <1>7 DEF InStep
<1>9. \A i \in 0 .. n : run[i] = f[i] BY <1>8, SameRun
<1> QED BY <1>5, <1>9

LEMMA PassSame ==
  ASSUME NEW S, NEW s \in Seq(S), IsInjective(s), NEW n \in Nat, n = 0 \/ n < Len(s), NEW o
  PROVE  SameItems(Pass(s, n, o), s, S)
<1>1. PICK f : Bubbling(f, s, n, o, S) BY BubblingExists
<1>2. /\ f \in [0 .. n -> AsLong(s, S)] /\ f[0] = s
      /\ \A i \in 1 .. n : f[i] = Bubbled(f[i - 1], i, o)
  BY <1>1 DEF Bubbling
<1> DEFINE Good == {i \in 0 .. n : SameItems(f[i], s, S)}
<1>3. 0 \in Good BY <1>2 DEF SameItems
<1>4. ASSUME NEW i \in 0 .. n, i > 0, i - 1 \in Good PROVE i \in Good
  <2> DEFINE t == f[i - 1]
  <2>1. i \in 1 .. n /\ i \in 1 .. Len(s) - 1 BY <1>4
  <2>2. t \in Seq(S) /\ Len(t) = Len(s) /\ ToSet(t) = ToSet(s) /\ IsInjective(t) BY <1>4 DEF SameItems
  <2>3. f[i] = Bubbled(t, i, o) BY <1>2, <2>1
  <2> HIDE DEF t
  <2>4. SameItems(Bubbled(t, i, o), t, S) BY <2>1, <2>2, BubbledSame
  <2> QED BY <2>2, <2>3, <2>4 DEF SameItems
<1> HIDE DEF Good
<1>5. 0 .. n \subseteq Good BY <1>3, <1>4, InductionTo
<1>6. n \in Good BY <1>5
<1> QED BY <1>1, <1>6, PassIs DEF Good

LEMMA PassSorts ==
  ASSUME NEW C, NEW o, Fit(C, o), NEW S, NEW b \in Seq(S), IsInjective(b),
         NEW t \in Seq(C), NEW m \in 1 .. Len(t), Stable(t, o, b), SortedFrom(t, m, o, b)
  PROVE  /\ Pass(t, m - 1, o) \in Seq(C) /\ Len(Pass(t, m - 1, o)) = Len(t)
         /\ Stable(Pass(t, m - 1, o), o, b) /\ SortedFrom(Pass(t, m - 1, o), m - 1, o, b)
<1> DEFINE n == m - 1
<1>1. n \in Nat /\ n < Len(t) /\ Len(t) \in Nat /\ m = n + 1 OBVIOUS
<1>2. PICK f : Bubbling(f, t, n, o, C)
  <2> HIDE DEF n
  <2> QED BY <1>1, BubblingExists
<1>3. /\ f \in [0 .. n -> AsLong(t, C)] /\ f[0] = t
      /\ \A i \in 1 .. n : f[i] = Bubbled(f[i - 1], i, o)
  BY <1>2 DEF Bubbling
<1> DEFINE Good == {i \in 0 .. n : /\ Stable(f[i], o, b) /\ SortedFrom(f[i], m, o, b)
                                  /\ Above(f[i], i + 1, o, b)}
<1>4. 0 \in Good BY <1>1, <1>3 DEF Above
<1>5. ASSUME NEW i \in 0 .. n, i > 0, i - 1 \in Good PROVE i \in Good
  <2> DEFINE s == f[i - 1]
  <2>1. i \in 1 .. n /\ i - 1 \in 0 .. n /\ (i - 1) + 1 = i BY <1>5
  <2>2. Stable(s, o, b) /\ SortedFrom(s, m, o, b) /\ Above(s, i, o, b) BY <1>5, <2>1
  <2>3. s \in Seq(C) /\ Len(s) = Len(t) BY <1>3, <2>1 DEF AsLong
  <2>4. f[i] = Bubbled(s, i, o) BY <1>3, <2>1
  <2> HIDE DEF s
  <2>5. m \in 1 .. Len(s) /\ i \in 1 .. m - 1 BY <1>1, <2>1, <2>3
  <2>6. /\ Stable(Bubbled(s, i, o), o, b) /\ SortedFrom(Bubbled(s, i, o), m, o, b)
        /\ Above(Bubbled(s, i, o), i + 1, o, b)
    BY <2>2, <2>3, <2>5, BubbledSorts
  <2> QED BY <2>4, <2>6
<1> HIDE DEF Good
<1>6. 0 .. n \subseteq Good BY <1>1, <1>4, <1>5, InductionTo
<1>7. n \in Good BY <1>1, <1>6
<1>8. Stable(f[n], o, b) /\ SortedFrom(f[n], m, o, b) /\ Above(f[n], m, o, b) BY <1>1, <1>7 DEF Good
<1>9. f[n] \in Seq(C) /\ Len(f[n]) = Len(t) BY <1>1, <1>3 DEF AsLong
<1>10. SortedFrom(f[n], n, o, b)
  <2>1. ASSUME NEW q \in n + 1 .. Len(t) PROVE Above(f[n], q, o, b)
    <3>1. CASE q = m BY <1>8, <3>1
    <3>2. CASE q # m
      <4>1. q \in m + 1 .. Len(t) BY <1>1, <3>2
      <4> QED BY <1>8, <1>9, <4>1 DEF SortedFrom
    <3> QED BY <3>1, <3>2
  <2> QED BY <1>9, <2>1 DEF SortedFrom
<1> HIDE DEF n
<1>11. Pass(t, n, o) = f[n] BY <1>1, <1>2, PassIs
<1> QED BY <1>8, <1>9, <1>10, <1>11 DEF n

LEMMA PassAsLong ==
  ASSUME NEW S, NEW s \in Seq(S), NEW y \in AsLong(s, S), NEW n \in Nat, n = 0 \/ n < Len(s), NEW o
  PROVE  Pass(y, n, o) \in AsLong(s, S)
<1>1. y \in Seq(S) /\ Len(y) = Len(s) BY DEF AsLong
<1>2. PICK f : Bubbling(f, y, n, o, S) BY <1>1, BubblingExists
<1>3. f[n] \in AsLong(y, S) BY <1>2 DEF Bubbling
<1>4. Pass(y, n, o) = f[n] BY <1>1, <1>2, PassIs
<1> QED BY <1>1, <1>3, <1>4 DEF AsLong

LEMMA SortingExists ==
  ASSUME NEW S, NEW s \in Seq(S), NEW o
  PROVE  \E f : Sorting(f, s, o, S)
<1> DEFINE T == AsLong(s, S)
           L == Len(s)
           F == [x \in (1 .. L) \X T |-> Pass(x[2], L - x[1], o)]
<1>1. PICK f : RunAlong(f, L, T, s, F)
  <2>1. ASSUME NEW x \in (1 .. L) \X T PROVE Pass(x[2], L - x[1], o) \in T
    <3>1. L - x[1] \in Nat /\ L - x[1] < Len(s) /\ x[2] \in T OBVIOUS
    <3> HIDE DEF T
    <3> QED BY <3>1, PassAsLong DEF T
  <2>2. s \in T BY DEF AsLong
  <2> HIDE DEF T
  <2>3. F \in [(1 .. L) \X T -> T] /\ L \in Nat BY <2>1
  <2> HIDE DEF F, L
  <2> QED BY <2>2, <2>3, RunsAlong, Zenon
<1> HIDE DEF T
<1>2. f \in [0 .. L -> T] /\ f[0] = s /\ \A i \in 1 .. L : f[i] = F[<<i, f[i - 1]>>] BY <1>1 DEF RunAlong
<1>3. ASSUME NEW i \in 1 .. L PROVE f[i] = Pass(f[i - 1], L - i, o)
  <2>1. f[i - 1] \in T BY <1>2
  <2>2. \A y \in T : F[<<i, y>>] = Pass(y, L - i, o) OBVIOUS
  <2> HIDE DEF F
  <2> QED BY <1>2, <2>1, <2>2
<1> QED BY <1>2, <1>3 DEF Sorting, T

LEMMA OrderedIs ==
  ASSUME NEW S, NEW s \in Seq(S), NEW o, NEW f, Sorting(f, s, o, S)
  PROVE  Ordered(s, o) = f[Len(s)]
<1> DEFINE n == Len(s)
           E(r, i) == IF i = 0 THEN s ELSE Pass(r[i - 1], Len(s) - i, o)
           run == CHOOSE r : r = [i \in 0 .. Len(s) |-> E(r, i)]
<1>1. /\ f \in [0 .. n -> AsLong(s, S)] /\ f[0] = s /\ n \in Nat
      /\ \A i \in 1 .. n : f[i] = Pass(f[i - 1], n - i, o)
  BY DEF Sorting
<1>2. ASSUME NEW i \in 0 .. n PROVE f[i] = E(f, i)
  <2>1. CASE i = 0 BY <1>1, <2>1
  <2>2. CASE i # 0
    <3>1. i \in 1 .. n BY <2>2
    <3> QED BY <1>1, <2>2, <3>1
  <2> QED BY <2>1, <2>2
<1>3. f = [i \in 0 .. n |-> E(f, i)] BY <1>1, <1>2
<1>4. run = [i \in 0 .. n |-> E(run, i)] BY <1>3
<1>5. Ordered(s, o) = run[n] BY DEF Ordered
<1> HIDE DEF run
<1>6. run[0] = s BY <1>1, <1>4
<1>7. ASSUME NEW i \in 1 .. n PROVE run[i] = Pass(run[i - 1], n - i, o)
  <2>1. i \in 0 .. n /\ i # 0 OBVIOUS
  <2> QED BY <1>4, <2>1
<1>8. InStep(run, f, n) BY <1>1, <1>6, <1>7 DEF InStep
<1>9. \A i \in 0 .. n : run[i] = f[i] BY <1>1, <1>8, SameRun
<1> QED BY <1>1, <1>5, <1>9

\* The sort loses nothing.
LEMMA OrderedSame ==
  ASSUME NEW S, NEW s \in Seq(S), IsInjective(s), NEW o
  PROVE  SameItems(Ordered(s, o), s, S)
<1> DEFINE n == Len(s)
<1>1. PICK f : Sorting(f, s, o, S) BY SortingExists
<1>2. /\ f \in [0 .. n -> AsLong(s, S)] /\ f[0] = s /\ n \in Nat
      /\ \A i \in 1 .. n : f[i] = Pass(f[i - 1], n - i, o)
  BY <1>1 DEF Sorting
<1> DEFINE Good == {i \in 0 .. n : SameItems(f[i], s, S)}
<1>3. 0 \in Good BY <1>2 DEF SameItems
<1>4. ASSUME NEW i \in 0 .. n, i > 0, i - 1 \in Good PROVE i \in Good
  <2> DEFINE t == f[i - 1]
  <2>1. i \in 1 .. n /\ n - i \in Nat /\ n - i < n BY <1>2, <1>4
  <2>2. t \in Seq(S) /\ Len(t) = Len(s) /\ ToSet(t) = ToSet(s) /\ IsInjective(t) BY <1>4 DEF SameItems
  <2>3. f[i] = Pass(t, n - i, o) BY <1>2, <2>1
  <2> HIDE DEF t
  <2>4. SameItems(Pass(t, n - i, o), t, S) BY <2>1, <2>2, PassSame
  <2> QED BY <2>2, <2>3, <2>4 DEF SameItems
<1> HIDE DEF Good
<1>5. 0 .. n \subseteq Good BY <1>2, <1>3, <1>4, InductionTo
<1>6. n \in Good BY <1>2, <1>5
<1> QED BY <1>1, <1>6, OrderedIs DEF Good

\* The sort sorts, as b had them where they are alike.
LEMMA OrderedSorts ==
  ASSUME NEW C, NEW o, Fit(C, o), NEW S, NEW b \in Seq(S), IsInjective(b),
         NEW s \in Seq(C), Stable(s, o, b)
  PROVE  \A q \in 1 .. Len(s) : Above(Ordered(s, o), q, o, b)
<1> DEFINE n == Len(s)
<1>1. PICK f : Sorting(f, s, o, C) BY SortingExists
<1>2. /\ f \in [0 .. n -> AsLong(s, C)] /\ f[0] = s /\ n \in Nat
      /\ \A i \in 1 .. n : f[i] = Pass(f[i - 1], n - i, o)
  BY <1>1 DEF Sorting
<1> DEFINE Good == {i \in 0 .. n : Stable(f[i], o, b) /\ SortedFrom(f[i], n - i, o, b)}
<1>3. 0 \in Good
  <2>1. SortedFrom(s, n, o, b) BY <1>2 DEF SortedFrom
  <2>2. n - 0 = n BY <1>2
  <2> QED BY <1>2, <2>1, <2>2
<1>4. ASSUME NEW i \in 0 .. n, i > 0, i - 1 \in Good PROVE i \in Good
  <2> DEFINE t == f[i - 1]
             m == n - (i - 1)
  <2>1. i \in 1 .. n /\ i - 1 \in 0 .. n /\ m \in 1 .. n /\ m - 1 = n - i BY <1>2, <1>4
  <2>2. Stable(t, o, b) /\ SortedFrom(t, m, o, b) BY <1>4
  <2>3. t \in Seq(C) /\ Len(t) = n BY <1>2, <2>1 DEF AsLong
  <2>4. f[i] = Pass(t, m - 1, o) BY <1>2, <2>1
  <2> HIDE DEF t, m
  <2>5. Stable(Pass(t, m - 1, o), o, b) /\ SortedFrom(Pass(t, m - 1, o), m - 1, o, b)
    BY <2>1, <2>2, <2>3, PassSorts
  <2> QED BY <2>1, <2>4, <2>5
<1> HIDE DEF Good
<1>5. 0 .. n \subseteq Good BY <1>2, <1>3, <1>4, InductionTo
<1>6. n \in Good BY <1>2, <1>5
<1>7. SortedFrom(f[n], 0, o, b)
  <2>1. n - n = 0 BY <1>2
  <2> QED BY <1>6, <2>1 DEF Good
<1>8. Len(f[n]) = n BY <1>2 DEF AsLong
<1>9. Ordered(s, o) = f[n] BY <1>1, OrderedIs
<1>10. 0 + 1 = 1 OBVIOUS
<1> QED BY <1>7, <1>8, <1>9, <1>10 DEF SortedFrom

\* In a sorted sequence the rank of an entity is its place.
LEMMA RankIsPlace ==
  ASSUME NEW C, NEW o, Fit(C, o), NEW S, NEW b \in Seq(S), IsInjective(b),
         NEW t \in Seq(C), IsInjective(t), \A q \in 1 .. Len(t) : Above(t, q, o, b),
         NEW s, ToSet(s) = ToSet(t), NEW k \in 1 .. Len(t)
  PROVE  Rank(t[k], s, o, b) = k
<1> DEFINE n == Len(t)
           G == {g \in ToSet(s) \ {t[k]} : Precedes(g, t[k], o, b)}
           h == [j \in 1 .. k - 1 |-> t[j]]
<1>1. n \in Nat /\ k \in 1 .. n /\ k \in Nat /\ DOMAIN t = 1 .. n /\ \A j \in 1 .. k - 1 : j \in 1 .. n OBVIOUS
<1>2. ToSet(s) = {t[j] : j \in 1 .. n} BY <1>1 DEF ToSet
<1>3. \A i, j \in 1 .. n : t[i] = t[j] => i = j BY <1>1 DEF IsInjective
<1>4. \A q \in 1 .. n : \A p \in 1 .. q - 1 : Precedes(t[p], t[q], o, b) BY DEF Above
<1>5. ASSUME NEW j \in 1 .. n, t[j] # t[k], Precedes(t[j], t[k], o, b) PROVE j \in 1 .. k - 1
  <2>1. CASE k < j
    <3>1. k \in 1 .. j - 1 BY <1>1, <2>1
    <3>2. Precedes(t[k], t[j], o, b) BY <1>4, <3>1
    <3>3. t[k] \in C /\ t[j] \in C OBVIOUS
    <3>4. o \in Seq(STRING \X BOOLEAN) /\ Weighed(C, o) BY DEF Fit
    <3> QED BY <1>5, <3>2, <3>3, <3>4, OneBeforeTheOther
  <2>2. j # k BY <1>5
  <2> QED BY <1>1, <2>1, <2>2
<1>6. ASSUME NEW j \in 1 .. k - 1 PROVE t[j] \in G
  <2>1. Precedes(t[j], t[k], o, b) BY <1>1, <1>4
  <2>2. j \in 1 .. n /\ j # k BY <1>1
  <2>3. t[j] # t[k] BY <1>1, <1>3, <2>2
  <2> QED BY <1>2, <2>1, <2>2, <2>3
<1>7. G = {t[j] : j \in 1 .. k - 1}
  <2>1. \A g \in G : \E j \in 1 .. k - 1 : g = t[j] BY <1>2, <1>5
  <2> HIDE DEF G
  <2> QED BY <1>6, <2>1
<1>8. Rank(t[k], s, o, b) = 1 + Cardinality(G) BY DEF Rank
<1> HIDE DEF G
<1>9. h \in Bijection(1 .. k - 1, G)
  <2>1. h \in [1 .. k - 1 -> G] BY <1>6
  <2>2. \A i, j \in 1 .. k - 1 : h[i] = h[j] => i = j BY <1>1, <1>3
  <2>3. \A g \in G : \E j \in 1 .. k - 1 : h[j] = g BY <1>7
  <2> HIDE DEF h
  <2> QED BY <2>1, <2>2, <2>3 DEF Bijection, Injection, IsInjective, Surjection
<1>10. ExistsBijection(1 .. k - 1, G) BY <1>9 DEF ExistsBijection
<1>11. IsFiniteSet(1 .. k - 1) /\ Cardinality(1 .. k - 1) = k - 1
  <2>1. 1 \in Int /\ k - 1 \in Int BY <1>1
  <2>2. IsFiniteSet(1 .. k - 1) /\ Cardinality(1 .. k - 1) = IF 1 > k - 1 THEN 0 ELSE (k - 1) - 1 + 1 BY <2>1, FS_Interval
  <2> QED BY <1>1, <2>2
<1>12. Cardinality(G) = k - 1 BY <1>10, <1>11, FS_Bijection
<1> QED BY <1>1, <1>8, <1>12

-----------------------------------------------------------------------------
(***************************************************************************)
(* The data, the lists of a type and the options of a call.                *)
(***************************************************************************)
Items == {Numbered(e, n) : e \in Entities, n \in Nat \ {0}}

LEMMA ItemIs ==
  ASSUME NEW e \in Entities, NEW n \in Nat \ {0}
  PROVE  /\ Numbered(e, n) \in Items /\ Numbered(e, n).id = n
         /\ \A p \in DOMAIN e : p # "id" => Numbered(e, n)[p] = e[p]
  BY DEF Items, Numbered

Orders == Orderings \cup {<< >>}

LEMMA OrderIs ==
  ASSUME NEW o \in Orders
  PROVE  o \in Seq(STRING \X BOOLEAN) /\ Weighed(Items, o)
<1>1. CASE o = << >> BY <1>1 DEF Weighed
<1>2. CASE o \in Orderings
  <2>1. /\ o \in Seq(STRING \X BOOLEAN)
        /\ \A k \in DOMAIN o, e \in Entities :
             o[k][1] # "id" => o[k][1] \in DOMAIN e /\ e[o[k][1]] \in Int
    BY <1>2, ODataAssumption DEF ODataAssumption
  <2>2. ASSUME NEW x \in Items, NEW k \in DOMAIN o PROVE Key(x, o, k) \in Int
    <3>1. PICK e \in Entities, n \in Nat \ {0} : x = Numbered(e, n) BY DEF Items
    <3>2. CASE o[k][1] = "id" BY <3>1, <3>2, ItemIs DEF Key
    <3>3. CASE o[k][1] # "id" BY <2>1, <3>1, <3>3, ItemIs DEF Key
    <3> QED BY <3>2, <3>3
  <2> QED BY <2>1, <2>2 DEF Weighed
<1> QED BY <1>1, <1>2 DEF Orders

DataOk(d) == /\ d \in Seq(Items) /\ {e.id : e \in ToSet(d)} = 1 .. Len(d)
             /\ \A i, j \in 1 .. Len(d) : d[i].id = d[j].id => i = j

LEMMA DataOnce == ASSUME NEW d, DataOk(d) PROVE IsInjective(d)
  BY DEF DataOk, IsInjective

LEMMA DataShuffled ==
  ASSUME NEW d, DataOk(d), NEW t, SameItems(t, d, Items)
  PROVE  DataOk(t)
<1>1. /\ t \in Seq(Items) /\ Len(t) = Len(d) /\ ToSet(t) = ToSet(d)
      /\ DOMAIN t = 1 .. Len(d) /\ DOMAIN d = 1 .. Len(d)
  BY DEF SameItems, DataOk
<1>2. ASSUME NEW i \in 1 .. Len(t), NEW j \in 1 .. Len(t), t[i].id = t[j].id PROVE i = j
  <2>1. \A k \in 1 .. Len(d) : \E l \in 1 .. Len(d) : t[k] = d[l]
    <3>1. \A k \in 1 .. Len(d) : t[k] \in ToSet(d) BY <1>1 DEF ToSet
    <3> QED BY <1>1, <3>1 DEF ToSet
  <2>2. PICK k \in 1 .. Len(d), l \in 1 .. Len(d) : t[i] = d[k] /\ t[j] = d[l] BY <1>1, <2>1
  <2>3. k = l BY <1>2, <2>2 DEF DataOk
  <2> QED BY <1>1, <2>2, <2>3 DEF SameItems, IsInjective
<1> QED BY <1>1, <1>2 DEF DataOk

LEMMA DataGrows ==
  ASSUME NEW d, DataOk(d), NEW e \in Entities
  PROVE  DataOk(Append(d, Numbered(e, Len(d) + 1)))
<1> DEFINE n == Len(d)
           x == Numbered(e, n + 1)
           t == Append(d, x)
<1>1. d \in Seq(Items) /\ n \in Nat /\ n + 1 \in Nat \ {0} /\ DOMAIN d = 1 .. n BY DEF DataOk
<1>2. x \in Items /\ x.id = n + 1
  <2> HIDE DEF n
  <2> QED BY <1>1, ItemIs
<1> HIDE DEF x
<1>3. /\ t \in Seq(Items) /\ Len(t) = n + 1 /\ (\A i \in 1 .. n : t[i] = d[i]) /\ t[n + 1] = x
      /\ DOMAIN t = 1 .. n + 1
  BY <1>1, <1>2, AppendProperties
<1> HIDE DEF t
<1>4. {y.id : y \in ToSet(d)} = 1 .. n /\ \A i, j \in 1 .. n : d[i].id = d[j].id => i = j BY DEF DataOk
<1>5. \A i \in 1 .. n : d[i].id \in 1 .. n
  <2>1. \A i \in 1 .. n : d[i] \in ToSet(d) BY <1>1 DEF ToSet
  <2> QED BY <1>4, <2>1
<1> HIDE DEF n
<1>6. \A i \in 1 .. n + 1 : i = n + 1 \/ i \in 1 .. n BY <1>1
<1>7. ToSet(t) = ToSet(d) \cup {x}
  <2>1. ToSet(t) = {t[i] : i \in 1 .. n + 1} BY <1>3 DEF ToSet
  <2>2. ToSet(d) = {d[i] : i \in 1 .. n} BY <1>1 DEF ToSet
  <2>3. \A i \in 1 .. n : i \in 1 .. n + 1 BY <1>1
  <2>4. n + 1 \in 1 .. n + 1 BY <1>1
  <2> QED BY <1>3, <1>6, <2>1, <2>2, <2>3, <2>4
<1>8. {y.id : y \in ToSet(t)} = 1 .. n + 1
  <2>1. {y.id : y \in ToSet(t)} = {y.id : y \in ToSet(d)} \cup {x.id} BY <1>7
  <2>2. 1 .. n + 1 = (1 .. n) \cup {n + 1} BY <1>1
  <2> QED BY <1>2, <1>4, <2>1, <2>2
<1>9. ASSUME NEW i \in 1 .. n + 1, NEW j \in 1 .. n + 1, t[i].id = t[j].id PROVE i = j
  <2>1. n + 1 \notin 1 .. n BY <1>1
  <2> QED BY <1>2, <1>3, <1>4, <1>5, <1>6, <1>9, <2>1
<1>10. DataOk(t) BY <1>3, <1>8, <1>9 DEF DataOk
<1> QED BY <1>10 DEF t, x, n

LEMMA DataNone == DataOk(<< >>)
<1>1. << >> \in Seq(Items) /\ Len(<< >>) = 0 /\ ToSet(<< >>) = {} BY DEF ToSet
<1> QED BY <1>1 DEF DataOk

-----------------------------------------------------------------------------
PropertyRecords == [number : Nat \ {0}, key : BOOLEAN]

ListsOk(p, k) == /\ p \in Seq(PropertyRecords) /\ k \in Seq(PropertyRecords)
                 /\ IsInjective(p) /\ IsInjective(k)
                 /\ ToSet(k) = {x \in ToSet(p) : x.key}

LEMMA NumbersHaveMaximum ==
  ASSUME NEW s \in Seq(PropertyRecords)
  PROVE  LET most == Max({0} \cup {x.number : x \in ToSet(s)})
         IN most \in Nat /\ \A i \in 1 .. Len(s) : s[i].number <= most
<1> DEFINE N == {0} \cup {x.number : x \in ToSet(s)}
           Good == {n \in 0 .. Len(s) : \E m \in N : \A i \in 1 .. n : s[i].number <= m}
<1>1. DOMAIN s = 1 .. Len(s) /\ Len(s) \in Nat /\ \A i \in 1 .. Len(s) : s[i] \in PropertyRecords OBVIOUS
<1>2. \A i \in 1 .. Len(s) : s[i].number \in Nat /\ s[i].number \in N BY <1>1 DEF PropertyRecords, ToSet
<1>3. N \subseteq Nat
  <2>1. \A x \in ToSet(s) : x \in PropertyRecords BY <1>1 DEF ToSet
  <2> QED BY <2>1 DEF PropertyRecords
<1>4. 0 \in N OBVIOUS
<1>5. \A y \in N : y = 0 \/ \E i \in 1 .. Len(s) : y = s[i].number BY <1>1 DEF ToSet
<1> HIDE DEF N
<1>6. 0 \in Good BY <1>1, <1>4
<1>7. ASSUME NEW n \in 0 .. Len(s), n > 0, n - 1 \in Good PROVE n \in Good
  <2>1. PICK m \in N : \A i \in 1 .. n - 1 : s[i].number <= m BY <1>7
  <2>2. n \in 1 .. Len(s) /\ \A i \in 1 .. n : i = n \/ i \in 1 .. n - 1 BY <1>1, <1>7
  <2>3. \A i \in 1 .. n - 1 : i \in 1 .. Len(s) BY <1>1
  <2>4. CASE s[n].number <= m BY <2>1, <2>2, <2>4
  <2>5. CASE ~(s[n].number <= m)
    <3>1. \A i \in 1 .. n : s[i].number <= s[n].number BY <1>2, <1>3, <2>1, <2>2, <2>3, <2>5
    <3>2. s[n].number \in N BY <1>2, <2>2
    <3> QED BY <3>1, <3>2
  <2> QED BY <2>4, <2>5
<1> HIDE DEF Good
<1>8. 0 .. Len(s) \subseteq Good BY <1>1, <1>6, <1>7, InductionTo
<1>9. Len(s) \in Good BY <1>1, <1>8
<1>10. PICK m \in N : \A i \in 1 .. Len(s) : s[i].number <= m BY <1>9 DEF Good
<1>11. \A y \in N : m >= y BY <1>3, <1>5, <1>10
<1>12. Max(N) \in N /\ \A y \in N : Max(N) >= y BY <1>10, <1>11 DEF Max
<1>13. Max(N) \in Nat /\ \A i \in 1 .. Len(s) : s[i].number <= Max(N) BY <1>2, <1>3, <1>12
<1> QED BY <1>13 DEF N

LEMMA PutFirst ==
  ASSUME NEW S, NEW s \in Seq(S), IsInjective(s), NEW x \in S, x \notin ToSet(s)
  PROVE  /\ <<x>> \o s \in Seq(S) /\ IsInjective(<<x>> \o s)
         /\ ToSet(<<x>> \o s) = {x} \cup ToSet(s)
<1> DEFINE n == Len(s)
           t == <<x>> \o s
<1>1. <<x>> \in Seq(S) /\ Len(<<x>>) = 1 /\ <<x>>[1] = x OBVIOUS
<1>2. /\ t \in Seq(S) /\ Len(t) = 1 + n /\ n \in Nat
      /\ \A i \in 1 .. 1 + n : t[i] = IF i <= 1 THEN <<x>>[i] ELSE s[i - 1]
  BY <1>1, ConcatProperties
<1>3. DOMAIN s = 1 .. n /\ DOMAIN t = 1 .. 1 + n BY <1>2
<1> HIDE DEF t, n
<1>4. t[1] = x /\ \A i \in 1 .. n : t[i + 1] = s[i]
  <2>1. 1 \in 1 .. 1 + n /\ \A i \in 1 .. n : i + 1 \in 1 .. 1 + n /\ ~(i + 1 <= 1) /\ (i + 1) - 1 = i
    BY <1>2
  <2> QED BY <1>1, <1>2, <2>1
<1>5. \A i \in 1 .. 1 + n : i = 1 \/ (i - 1 \in 1 .. n /\ (i - 1) + 1 = i) BY <1>2
<1>6. \A i \in 1 .. 1 + n : t[i] = x \/ t[i] \in ToSet(s)
  <2>1. \A i \in 1 .. n : s[i] \in ToSet(s) BY <1>3 DEF ToSet
  <2> QED BY <1>4, <1>5, <2>1
<1>7. ToSet(t) = {x} \cup ToSet(s)
  <2>1. ToSet(t) = {t[i] : i \in 1 .. 1 + n} /\ ToSet(s) = {s[i] : i \in 1 .. n} BY <1>3 DEF ToSet
  <2>2. x \in ToSet(t)
    <3>1. 1 \in 1 .. 1 + n BY <1>2
    <3> QED BY <1>4, <2>1, <3>1
  <2>3. \A i \in 1 .. n : s[i] \in ToSet(t)
    <3>1. \A i \in 1 .. n : i + 1 \in 1 .. 1 + n BY <1>2
    <3> QED BY <1>4, <2>1, <3>1
  <2> QED BY <1>6, <2>1, <2>2, <2>3
<1>8. ASSUME NEW a \in 1 .. 1 + n, NEW b \in 1 .. 1 + n, t[a] = t[b] PROVE a = b
  <2>1. \A i \in 1 .. n : t[i + 1] # x
    <3>1. \A i \in 1 .. n : s[i] \in ToSet(s) BY <1>3 DEF ToSet
    <3> QED BY <1>4, <3>1
  <2>2. \A i, j \in 1 .. n : s[i] = s[j] => i = j BY <1>3 DEF IsInjective
  <2>3. CASE a = 1 \/ b = 1 BY <1>4, <1>5, <1>8, <2>1, <2>3
  <2>4. CASE a # 1 /\ b # 1
    <3>1. /\ a - 1 \in 1 .. n /\ b - 1 \in 1 .. n /\ (a - 1) + 1 = a /\ (b - 1) + 1 = b
      BY <1>5, <2>4
    <3>2. s[a - 1] = s[b - 1] BY <1>4, <1>8, <3>1
    <3>3. a - 1 = b - 1 BY <2>2, <3>1, <3>2
    <3> QED BY <3>1, <3>3
  <2> QED BY <2>3, <2>4
<1>9. IsInjective(t) BY <1>3, <1>8 DEF IsInjective
<1> QED BY <1>2, <1>7, <1>9 DEF t

LEMMA ListsGrow ==
  ASSUME NEW p, NEW k, ListsOk(p, k), NEW key \in BOOLEAN,
         NEW x, x = [number |-> 1 + Max({0} \cup {y.number : y \in ToSet(p \o k)}), key |-> key]
  PROVE  ListsOk(<<x>> \o (IF key THEN k ELSE p), IF key THEN <<x>> \o k ELSE k)
<1>1. /\ p \in Seq(PropertyRecords) /\ k \in Seq(PropertyRecords) /\ IsInjective(p) /\ IsInjective(k)
      /\ ToSet(k) = {y \in ToSet(p) : y.key}
  BY DEF ListsOk
<1> DEFINE s == p \o k
<1>2. /\ s \in Seq(PropertyRecords) /\ Len(s) = Len(p) + Len(k)
      /\ \A i \in 1 .. Len(p) + Len(k) : s[i] = IF i <= Len(p) THEN p[i] ELSE k[i - Len(p)]
  BY <1>1, ConcatProperties
<1> HIDE DEF s
<1>3. x.number \in Nat \ {0} /\ x.key = key /\ \A i \in 1 .. Len(s) : s[i].number < x.number
  <2> DEFINE most == Max({0} \cup {y.number : y \in ToSet(s)})
  <2>1. most \in Nat /\ \A i \in 1 .. Len(s) : s[i].number <= most BY <1>2, NumbersHaveMaximum
  <2>2. x = [number |-> 1 + most, key |-> key] BY DEF s
  <2>3. \A i \in 1 .. Len(s) : s[i] \in PropertyRecords BY <1>2
  <2> HIDE DEF most
  <2>4. \A i \in 1 .. Len(s) : s[i].number \in Nat BY <2>3 DEF PropertyRecords
  <2>5. x.number = 1 + most /\ x.key = key BY <2>2
  <2>6. x.number \in Nat \ {0} BY <2>1, <2>5
  <2>7. ASSUME NEW i \in 1 .. Len(s) PROVE s[i].number < x.number
    <3>1. s[i].number <= most /\ s[i].number \in Nat BY <2>1, <2>4
    <3> QED BY <2>1, <2>5, <3>1
  <2> QED BY <2>5, <2>6, <2>7
<1>4. x \in PropertyRecords
  <2>1. x = [number |-> x.number, key |-> x.key] OBVIOUS
  <2> QED BY <1>3, <2>1 DEF PropertyRecords
<1>5. \A y \in ToSet(p) : y # x
  <2>1. \A i \in 1 .. Len(p) : i \in 1 .. Len(s) /\ s[i] = p[i] BY <1>1, <1>2
  <2>2. \A i \in 1 .. Len(p) : p[i] # x
    <3>1. \A i \in 1 .. Len(p) : p[i].number < x.number /\ p[i].number \in Nat
      <4>1. \A i \in 1 .. Len(p) : p[i] \in PropertyRecords BY <1>1
      <4> QED BY <1>3, <2>1, <4>1 DEF PropertyRecords
    <3> QED BY <1>3, <3>1
  <2>3. DOMAIN p = 1 .. Len(p) BY <1>1
  <2> QED BY <2>2, <2>3 DEF ToSet
<1>6. x \notin ToSet(p) /\ x \notin ToSet(k) BY <1>1, <1>5
<1>7. CASE key
  <2>1. <<x>> \o k \in Seq(PropertyRecords) /\ IsInjective(<<x>> \o k) /\ ToSet(<<x>> \o k) = {x} \cup ToSet(k)
    BY <1>1, <1>4, <1>6, PutFirst
  <2>2. \A y \in {x} \cup ToSet(k) : y.key BY <1>1, <1>3, <1>7
  <2>3. ToSet(<<x>> \o k) = {y \in ToSet(<<x>> \o k) : y.key} BY <2>1, <2>2
  <2> QED BY <1>7, <2>1, <2>3 DEF ListsOk
<1>8. CASE ~key
  <2>1. <<x>> \o p \in Seq(PropertyRecords) /\ IsInjective(<<x>> \o p) /\ ToSet(<<x>> \o p) = {x} \cup ToSet(p)
    BY <1>1, <1>4, <1>6, PutFirst
  <2>2. ToSet(k) = {y \in ToSet(<<x>> \o p) : y.key} BY <1>1, <1>3, <1>8, <2>1
  <2> QED BY <1>1, <1>8, <2>1, <2>2 DEF ListsOk
<1> QED BY <1>7, <1>8

LEMMA ListsNone == ListsOk(<< >>, << >>)
<1>1. << >> \in Seq(PropertyRecords) /\ DOMAIN << >> = {} /\ ToSet(<< >>) = {} BY DEF ToSet
<1> QED BY <1>1 DEF ListsOk, IsInjective

-----------------------------------------------------------------------------
(***************************************************************************)
(* What a call is to find, and the page of it.                             *)
(***************************************************************************)
Asks(option) == option = {} \/ \E n \in Nat : option = {n}

OptionsOk(o) == o.orderby \in Orders /\ Asks(o.top) /\ Asks(o.skip)

LEMMA NumberOfIs ==
  /\ NumberOf({}) = 0
  /\ \A n \in Nat : NumberOf({n}) = n
<1>1. NumberOf({}) = 0
  <2>1. \E x \in {0} \cup {} : \A y \in {0} \cup {} : x >= y OBVIOUS
  <2>2. Max({0} \cup {}) \in {0} \cup {} BY <2>1 DEF Max
  <2> QED BY <2>2 DEF NumberOf
<1>2. ASSUME NEW n \in Nat PROVE NumberOf({n}) = n
  <2> DEFINE N == {0} \cup {n}
  <2>1. n \in N /\ \A y \in N : n >= y OBVIOUS
  <2>2. Max(N) \in N /\ \A y \in N : Max(N) >= y BY <2>1 DEF Max
  <2>3. Max(N) = 0 \/ Max(N) = n BY <2>2
  <2>4. Max(N) >= n BY <2>1, <2>2
  <2> QED BY <2>3, <2>4 DEF NumberOf
<1> QED BY <1>1, <1>2

LEMMA NumberOfType == ASSUME NEW option, Asks(option) PROVE NumberOf(option) \in Nat
  BY NumberOfIs DEF Asks

LEMMA MinOfTwo ==
  ASSUME NEW a \in Nat, NEW b \in Nat
  PROVE  Min({a, b}) = IF a <= b THEN a ELSE b
<1>1. PICK m \in {a, b} : \A y \in {a, b} : m =< y OBVIOUS
<1>2. Min({a, b}) \in {a, b} /\ \A y \in {a, b} : Min({a, b}) =< y BY <1>1 DEF Min
<1> QED BY <1>2

LEMMA OptionsAre ==
  /\ \A o \in OptionSets : OptionsOk(o)
  /\ \A q : OptionsOk(ParseQueryOptions(q))
  /\ OptionsOk(NoOptions)
<1>1. \A n \in Tops \cup Skips : n \in Nat BY ODataAssumption DEF ODataAssumption
<1>2. << >> \in Orders /\ 0 \in Nat BY DEF Orders
<1>3. ASSUME NEW q PROVE OptionsOk(ParseQueryOptions(q))
  <2> DEFINE o == ParseQueryOptions(q)
  <2>1. o.orderby = << >> /\ (o.top = {} \/ o.top = {0}) /\ (o.skip = {} \/ o.skip = {0})
    BY DEF ParseQueryOptions
  <2> HIDE DEF o
  <2>2. Asks(o.top) /\ Asks(o.skip) BY <1>2, <2>1 DEF Asks
  <2>3. OptionsOk(o) BY <1>2, <2>1, <2>2 DEF OptionsOk
  <2> QED BY <2>3 DEF o
<1> DEFINE R == [filter : {{}} \cup {{f} : f \in Filters}, orderby : Orderings,
                 top : {{}} \cup {{n} : n \in Tops}, skip : {{}} \cup {{n} : n \in Skips}]
<1>4. ASSUME NEW o \in R PROVE OptionsOk(o)
  <2>1. /\ o.orderby \in Orders
        /\ o.top \in {{}} \cup {{n} : n \in Tops} /\ o.skip \in {{}} \cup {{n} : n \in Skips}
    BY DEF Orders
  <2>2. Asks(o.top) BY <1>1, <2>1 DEF Asks
  <2>3. Asks(o.skip) BY <1>1, <2>1 DEF Asks
  <2> QED BY <2>1, <2>2, <2>3 DEF OptionsOk
<1>5. OptionSets = R BY DEF OptionSets
<1> HIDE DEF R
<1>6. \A o \in OptionSets : OptionsOk(o) BY <1>4, <1>5
<1>7. OptionsOk(NoOptions)
  <2>1. NoOptions.orderby = << >> /\ NoOptions.top = {} /\ NoOptions.skip = {} BY DEF NoOptions
  <2> QED BY <1>2, <2>1 DEF OptionsOk, Asks
<1> QED BY <1>3, <1>6, <1>7

\* The entities that match.
Chosen(b, o) == Picked(b, Passing(b, o.filter))

LEMMA ChosenIs ==
  ASSUME NEW b, DataOk(b), NEW o
  PROVE  /\ Chosen(b, o) \in Seq(Items) /\ IsInjective(Chosen(b, o))
         /\ \A order \in Orders : Stable(Chosen(b, o), order, b)
         /\ b = << >> => Chosen(b, o) = << >>
         /\ o.filter = {} => Chosen(b, o) = b
<1> DEFINE c == Chosen(b, o)
           places == Passing(b, o.filter)
<1>1. b \in Seq(Items) /\ IsInjective(b) /\ DOMAIN b = 1 .. Len(b) BY DataOnce DEF DataOk
<1>2. c \in Seq(Items) /\ \E h : Selection(h, c, b, places, Len(b)) BY <1>1, PickedSelects DEF Chosen
<1>3. PICK h : Selection(h, c, b, places, Len(b)) BY <1>2
<1>4. /\ h \in [1 .. Len(c) -> 1 .. Len(b)]
      /\ \A i, j \in 1 .. Len(c) : i < j => h[i] < h[j]
      /\ \A k \in 1 .. Len(c) : c[k] = b[h[k]]
  BY <1>3 DEF Selection
<1>5. b = << >> => c = << >> BY PickedNone DEF Chosen
<1>6. ASSUME o.filter = {} PROVE c = b
  <2>1. 1 .. Len(b) \subseteq places BY <1>1, <1>6 DEF Passing
  <2> QED BY <1>1, <2>1, PickedAll DEF Chosen
<1> HIDE DEF c, places
<1>7. IsInjective(c)
  <2>1. DOMAIN c = 1 .. Len(c) /\ Len(c) \in Nat BY <1>2
  <2>2. ASSUME NEW i \in 1 .. Len(c), NEW j \in 1 .. Len(c), c[i] = c[j] PROVE i = j
    <3>1. h[i] = h[j]
      <4>1. h[i] \in 1 .. Len(b) /\ h[j] \in 1 .. Len(b) BY <1>4
      <4>2. b[h[i]] = b[h[j]] BY <1>4, <2>2
      <4> QED BY <1>1, <4>1, <4>2 DEF IsInjective
    <3>2. ~(i < j) /\ ~(j < i)
      <4>1. h[i] \in 1 .. Len(b) /\ h[j] \in 1 .. Len(b) BY <1>4
      <4>2. ~(h[i] < h[j]) /\ ~(h[j] < h[i]) BY <3>1, <4>1
      <4> QED BY <1>4, <4>2
    <3> QED BY <2>1, <3>2
  <2> QED BY <2>1, <2>2 DEF IsInjective
<1>8. ASSUME NEW order \in Orders, NEW p \in 1 .. Len(c), NEW q \in 1 .. Len(c), p < q, Alike(c[p], c[q], order)
      PROVE  Precedes(c[p], c[q], order, b)
  <2>1. h[p] \in DOMAIN b /\ h[q] \in DOMAIN b /\ h[p] < h[q] /\ c[p] = b[h[p]] /\ c[q] = b[h[q]]
    BY <1>1, <1>4, <1>8
  <2>2. Earlier(c[p], c[q], b) BY <2>1 DEF Earlier
  <2> QED BY <1>8, <2>2, OrderIs, PrecedesIs
<1>9. \A order \in Orders : Stable(c, order, b) BY <1>8 DEF Stable
<1> QED BY <1>2, <1>5, <1>6, <1>7, <1>9 DEF c

\* The entities that match, in the order asked for.
SortedAs(t, b, o) ==
  /\ SameItems(t, Chosen(b, o), Items)
  /\ Orderable(Chosen(b, o), o.orderby) => \A q \in 1 .. Len(t) : Above(t, q, o.orderby, b)

\* What all entities that are ordered have.
Having(o) == {e \in Items : \A k \in DOMAIN o.orderby : Key(e, o.orderby, k) # 0}

LEMMA HavingFit ==
  ASSUME NEW o, OptionsOk(o)
  PROVE  Fit(Having(o), o.orderby)
<1>1. o.orderby \in Orders BY DEF OptionsOk
<1>2. o.orderby \in Seq(STRING \X BOOLEAN) /\ Weighed(Items, o.orderby) BY <1>1, OrderIs
<1>3. Weighed(Having(o), o.orderby) BY <1>2 DEF Weighed, Having
<1> QED BY <1>2, <1>3 DEF Fit, Having

LEMMA OrderableHave ==
  ASSUME NEW c \in Seq(Items), NEW o, Orderable(c, o.orderby), NEW t, SameItems(t, c, Items)
  PROVE  t \in Seq(Having(o)) /\ c \in Seq(Having(o))
<1>1. t \in Seq(Items) /\ ToSet(t) = ToSet(c) /\ Len(t) = Len(c) BY DEF SameItems
<1>2. DOMAIN t = 1 .. Len(t) /\ DOMAIN c = 1 .. Len(c) BY <1>1
<1>3. \A i \in 1 .. Len(c) : c[i] \in Having(o) BY <1>2 DEF Orderable, Having, Key
<1>4. \A i \in 1 .. Len(t) : t[i] \in Having(o)
  <2>1. \A i \in 1 .. Len(t) : \E j \in 1 .. Len(c) : t[i] = c[j]
    <3>1. \A i \in 1 .. Len(t) : t[i] \in ToSet(c) BY <1>1, <1>2 DEF ToSet
    <3> QED BY <1>2, <3>1 DEF ToSet
  <2> QED BY <1>3, <2>1
<1>5. t \in [1 .. Len(t) -> Having(o)] /\ c \in [1 .. Len(c) -> Having(o)] /\ Len(t) \in Nat /\ Len(c) \in Nat
  <2>1. t \in [1 .. Len(t) -> Items] /\ c \in [1 .. Len(c) -> Items] /\ Len(t) \in Nat /\ Len(c) \in Nat BY <1>1
  <2> QED BY <1>3, <1>4, <2>1
<1> QED BY <1>5, MembersMap

LEMMA OrderedAsAsked ==
  ASSUME NEW b, DataOk(b), NEW o, OptionsOk(o)
  PROVE  SortedAs(Ordered(Chosen(b, o), o.orderby), b, o)
<1> DEFINE c == Chosen(b, o)
           t == Ordered(c, o.orderby)
<1>1. c \in Seq(Items) /\ IsInjective(c) /\ Stable(c, o.orderby, b)
  <2>1. o.orderby \in Orders BY DEF OptionsOk
  <2> QED BY <2>1, ChosenIs
<1>2. SameItems(t, c, Items)
  <2> HIDE DEF c
  <2> QED BY <1>1, OrderedSame
<1>3. ASSUME Orderable(c, o.orderby) PROVE \A q \in 1 .. Len(t) : Above(t, q, o.orderby, b)
  <2>1. c \in Seq(Having(o)) /\ Len(t) = Len(c)
    <3> HIDE DEF c, t
    <3> QED BY <1>1, <1>2, <1>3, OrderableHave DEF SameItems
  <2>2. b \in Seq(Items) /\ IsInjective(b) BY DataOnce DEF DataOk
  <2>3. Fit(Having(o), o.orderby) BY HavingFit
  <2> DEFINE C == Having(o)
             r == o.orderby
  <2>4. \A q \in 1 .. Len(c) : Above(Ordered(c, r), q, r, b)
    <3> HIDE DEF c, C, r
    <3> QED BY <1>1, <2>1, <2>2, <2>3, OrderedSorts DEF C, r
  <2> QED BY <2>1, <2>4
<1> HIDE DEF c, t
<1>4. SortedAs(t, b, o) BY <1>2, <1>3 DEF SortedAs, c
<1> QED BY <1>4 DEF t, c

LastOf(o, n) ==
  IF NumberOf(o.top) > 0 THEN Min({NumberOf(o.skip) + NumberOf(o.top), n}) ELSE n

\* v is the page that is asked for.
IsPage(v, b, o) ==
  /\ v \in Seq(Items)
  /\ Len(v) = (IF Chosen(b, o) = << >> THEN 0 ELSE LastOf(o, Len(Chosen(b, o))) - NumberOf(o.skip))
  /\ ToSet(v) \subseteq ToSet(Chosen(b, o)) /\ IsInjective(v)
  /\ Orderable(Chosen(b, o), o.orderby) =>
       \A i \in DOMAIN v : Rank(v[i], Chosen(b, o), o.orderby, b) = NumberOf(o.skip) + i

LEMMA LastIs ==
  ASSUME NEW o, OptionsOk(o), NEW n \in Nat, NumberOf(o.skip) < n
  PROVE  /\ NumberOf(o.skip) \in Nat /\ LastOf(o, n) \in Nat
         /\ NumberOf(o.skip) < LastOf(o, n) /\ LastOf(o, n) <= n
<1>1. NumberOf(o.skip) \in Nat /\ NumberOf(o.top) \in Nat BY NumberOfType DEF OptionsOk
<1> DEFINE a == NumberOf(o.skip)
           k == NumberOf(o.top)
<1>2. LastOf(o, n) = IF k > 0 THEN Min({a + k, n}) ELSE n BY DEF LastOf
<1>3. a \in Nat /\ k \in Nat /\ a < n /\ a + k \in Nat BY <1>1
<1> HIDE DEF a, k
<1>4. Min({a + k, n}) = IF a + k <= n THEN a + k ELSE n BY <1>3, MinOfTwo
<1>5. a < LastOf(o, n) /\ LastOf(o, n) <= n /\ LastOf(o, n) \in Nat BY <1>2, <1>3, <1>4
<1> QED BY <1>3, <1>5 DEF a

LEMMA PageIs ==
  ASSUME NEW b, DataOk(b), NEW o, OptionsOk(o), NEW t, SortedAs(t, b, o),
         NumberOf(o.skip) < Len(t)
  PROVE  IsPage(SubSeq(t, NumberOf(o.skip) + 1, LastOf(o, Len(t))), b, o)
<1> DEFINE c == Chosen(b, o)
           a == NumberOf(o.skip)
           z == LastOf(o, Len(t))
           v == SubSeq(t, a + 1, z)
           r == o.orderby
<1>1. t \in Seq(Items) /\ Len(t) = Len(c) /\ ToSet(t) = ToSet(c) /\ IsInjective(t) /\ Len(t) \in Nat
      /\ DOMAIN t = 1 .. Len(t)
  BY DEF SortedAs, SameItems
<1>2. a \in Nat /\ z \in Nat /\ a < z /\ z <= Len(t) BY <1>1, LastIs
<1>3. c # << >> BY <1>1, <1>2
<1>4. \A q \in 1 .. Len(t) : t[q] \in Items BY <1>1
<1> HIDE DEF a, z
<1>5. \A i \in a + 1 .. z : t[i] \in Items BY <1>1, <1>2, <1>4
<1>6. /\ v \in Seq(Items) /\ Len(v) = z - a /\ DOMAIN v = 1 .. z - a
      /\ \A i \in 1 .. z - a : v[i] = t[a + i]
  <2>1. a + 1 \in 1 .. Len(t) + 1 /\ z \in a .. Len(t) /\ a + 1 <= z + 1 BY <1>1, <1>2
  <2>2. v = [i \in 1 .. z - a |-> t[a + i]]
    <3>1. SubSeq(t, a + 1, z) = [i \in 1 .. z - (a + 1) + 1 |-> t[i + (a + 1) - 1]] BY <1>1, <1>2
    <3>2. z - (a + 1) + 1 = z - a /\ \A i \in 1 .. z - a : i + (a + 1) - 1 = a + i BY <1>2
    <3> QED BY <3>1, <3>2
  <2>3. \A i \in 1 .. z - a : a + i \in 1 .. Len(t) BY <1>1, <1>2
  <2>4. v \in [1 .. z - a -> Items] BY <1>4, <2>2, <2>3
  <2>5. z - a \in Nat BY <1>2
  <2> HIDE DEF v
  <2>6. v \in Seq(Items) /\ Len(v) = z - a /\ DOMAIN v = 1 .. z - a BY <2>4, <2>5, MembersMap
  <2> QED BY <2>2, <2>6
<1> HIDE DEF v
<1>7. \A i \in 1 .. z - a : a + i \in 1 .. Len(t) BY <1>1, <1>2
<1>8. ToSet(v) \subseteq ToSet(t) BY <1>1, <1>6, <1>7 DEF ToSet
<1>9. IsInjective(v)
  <2>1. ASSUME NEW i \in 1 .. z - a, NEW j \in 1 .. z - a, v[i] = v[j] PROVE i = j
    <3>1. a + i = a + j BY <1>1, <1>6, <1>7, <2>1 DEF IsInjective
    <3> QED BY <1>2, <3>1
  <2> QED BY <1>6, <2>1 DEF IsInjective
<1>10. ASSUME Orderable(c, r), NEW i \in 1 .. z - a PROVE Rank(v[i], c, r, b) = a + i
  <2>1. \A q \in 1 .. Len(t) : Above(t, q, r, b) BY <1>10 DEF SortedAs
  <2>2. c \in Seq(Items) BY ChosenIs
  <2>3. SameItems(t, c, Items) BY DEF SortedAs
  <2>4. t \in Seq(Having(o)) BY <1>10, <2>2, <2>3, OrderableHave
  <2>5. Fit(Having(o), r) BY HavingFit
  <2>6. b \in Seq(Items) /\ IsInjective(b) BY DataOnce DEF DataOk
  <2>7. a + i \in 1 .. Len(t) /\ v[i] = t[a + i] BY <1>6, <1>7
  <2> HIDE DEF c, r
  <2>8. IsInjective(t) /\ ToSet(c) = ToSet(t) BY <1>1
  <2> DEFINE D == Having(o)
             p == a + i
  <2>9. t \in Seq(D) /\ Fit(D, r) /\ p \in 1 .. Len(t) BY <2>4, <2>5, <2>7
  <2> HIDE DEF D, p
  <2>10. Rank(t[p], c, r, b) = p BY <2>1, <2>6, <2>8, <2>9, RankIsPlace
  <2> QED BY <2>7, <2>10 DEF p
<1>11. Len(v) = z - a BY <1>6
<1>12. /\ Len(v) = (IF c = << >> THEN 0 ELSE LastOf(o, Len(c)) - NumberOf(o.skip))
       /\ Orderable(c, r) => \A i \in DOMAIN v : Rank(v[i], c, r, b) = NumberOf(o.skip) + i
  <2>1. LastOf(o, Len(c)) = z BY <1>1 DEF z
  <2> QED BY <1>3, <1>6, <1>10, <1>11, <2>1 DEF a
<1>13. IsPage(v, b, o) BY <1>1, <1>6, <1>8, <1>9, <1>12 DEF IsPage
<1> QED BY <1>13 DEF v, a, z

LEMMA PageOfAll ==
  ASSUME NEW b, DataOk(b), NEW o, OptionsOk(o), NEW t, SortedAs(t, b, o),
         (o.top = {} /\ o.skip = {}) \/ Len(t) = 0
  PROVE  IsPage(t, b, o) /\ (Chosen(b, o) # << >> => NumberOf(o.skip) < Len(Chosen(b, o)))
<1> DEFINE c == Chosen(b, o)
<1>1. /\ t \in Seq(Items) /\ Len(t) = Len(c) /\ ToSet(t) = ToSet(c) /\ IsInjective(t) /\ Len(t) \in Nat
      /\ DOMAIN t = 1 .. Len(t)
  BY DEF SortedAs, SameItems
<1>2. c \in Seq(Items) BY ChosenIs
<1>3. CASE Len(t) = 0
  <2>1. c = << >>
    <3>1. Len(c) = 0 BY <1>1, <1>3
    <3> HIDE DEF c
    <3> QED BY <1>2, <3>1, EmptySeq
  <2>2. DOMAIN t = {} BY <1>1, <1>3
  <2>3. IsPage(t, b, o) BY <1>1, <1>3, <2>1, <2>2 DEF IsPage
  <2> QED BY <2>1, <2>3
<1>4. CASE Len(t) # 0 /\ o.top = {} /\ o.skip = {}
  <2>1. NumberOf(o.skip) = 0 /\ NumberOf(o.top) = 0 BY <1>4, NumberOfIs
  <2>2. LastOf(o, Len(t)) = Len(t) BY <2>1 DEF LastOf
  <2>3. SubSeq(t, 0 + 1, Len(t)) = t
    <3>1. 0 + 1 = 1 OBVIOUS
    <3>2. SubSeq(t, 1, Len(t)) = t BY <1>1
    <3> QED BY <3>1, <3>2
  <2>4. NumberOf(o.skip) < Len(t) BY <1>1, <1>4, <2>1
  <2>5. IsPage(SubSeq(t, NumberOf(o.skip) + 1, LastOf(o, Len(t))), b, o) BY <2>4, PageIs
  <2> QED BY <1>1, <2>1, <2>2, <2>3, <2>4, <2>5
<1> QED BY <1>3, <1>4

-----------------------------------------------------------------------------
(***************************************************************************)
(* The service.  In a call the array it works on is the caller's, its own  *)
(* or none, and has, unless memory lacked, what the steps done so far ask  *)
(* for: the entities that match, in their order, and the page of them.     *)
(***************************************************************************)
Arrays3 == [at : {"none", "caller", "own"}, items : Seq(Items)]

InCall == odat \in {"filter", "orderby", "paging", "wrap"}

WorkOk ==
  InCall =>
    /\ published /\ Len(data) = Len(before)
    /\ \/ work.at = "caller" /\ arrays = 0 /\ work.items = data
       \/ work.at = "own" /\ arrays = 1 /\ before # << >>
       \/ work.at = "none" /\ arrays = 0 /\ before # << >> /\ odat = "wrap"

StepOk ==
  /\ odat = "filter" => work.at = "caller" /\ data = before
  /\ odat = "orderby" => /\ IsInjective(work.items) /\ (work.at = "caller" => data = before)
                         /\ ~lacked => work.items = Chosen(before, options)
  /\ odat = "paging" => (~lacked => SortedAs(work.items, before, options))
  /\ odat = "wrap" =>
       (~lacked => IF work.at = "none"
                   THEN Len(Chosen(before, options)) > 0
                        /\ NumberOf(options.skip) >= Len(Chosen(before, options))
                   ELSE /\ IsPage(work.items, before, options)
                        /\ Chosen(before, options) # << >>
                             => NumberOf(options.skip) < Len(Chosen(before, options)))

Answers(a, b, o) ==
  /\ a.status = 500 <=> \/ b = << >>
                        \/ /\ NumberOf(o.skip) >= Len(Chosen(b, o)) /\ NumberOf(o.skip) > 0
                           /\ Chosen(b, o) # << >>
  /\ a.status = 200 => a.count = Len(b) /\ IsPage(a.value, b, o)

AnswerOk == odat = "answered" => /\ answer.status = 404 <=> ~published
                                 /\ ~lacked /\ published => Answers(answer, before, options)

OdTypes == /\ ListsOk(props, keys) /\ published \in BOOLEAN /\ DataOk(data) /\ DataOk(before)
           /\ odat \in {"idle", "filter", "orderby", "paging", "wrap", "answered"}
           /\ OptionsOk(options) /\ work \in Arrays3 /\ lacked \in BOOLEAN
           /\ ~InCall => arrays = 0

OdataInv == OdTypes /\ WorkOk /\ StepOk /\ AnswerOk

LEMMA NothingWorked == NoArray \in Arrays3 /\ NoArray.at = "none"
<1>1. << >> \in Seq(Items) OBVIOUS
<1> QED BY <1>1 DEF NoArray, Arrays3

LEMMA OdataBegins == ASSUME OdataInit PROVE OdataInv
<1>1. /\ props = << >> /\ keys = << >> /\ published = FALSE /\ data = << >> /\ before = << >>
      /\ odat = "idle" /\ options = NoOptions /\ work = NoArray /\ arrays = 0 /\ lacked = FALSE
  BY DEF OdataInit
<1>2. ~InCall BY <1>1 DEF InCall
<1>3. OdTypes BY <1>1, <1>2, ListsNone, DataNone, OptionsAre, NothingWorked DEF OdTypes
<1> QED BY <1>1, <1>2, <1>3 DEF OdataInv, WorkOk, StepOk, AnswerOk

LEMMA PropertyStep == ASSUME OdataInv, odat = "idle", NEW key \in BOOLEAN, AddProperty(key) PROVE OdataInv'
<1> DEFINE x == [number |-> 1 + Max({0} \cup {y.number : y \in ToSet(props \o keys)}), key |-> key]
<1>1. /\ props' = <<x>> \o (IF key THEN keys ELSE props)
      /\ keys' = IF key THEN <<x>> \o keys ELSE keys
      /\ UNCHANGED <<published, data, odat, options, before, work, arrays, lacked, answer>>
  BY DEF AddProperty, callVars
<1>2. OdTypes BY DEF OdataInv
<1>3. ListsOk(props, keys) BY <1>2 DEF OdTypes
<1>4. ListsOk(<<x>> \o (IF key THEN keys ELSE props), IF key THEN <<x>> \o keys ELSE keys)
  <2> DEFINE p == props
             k == keys
  <2>1. x = [number |-> 1 + Max({0} \cup {y.number : y \in ToSet(p \o k)}), key |-> key] /\ ListsOk(p, k)
    BY <1>3
  <2> HIDE DEF x, p, k
  <2>2. ListsOk(<<x>> \o (IF key THEN k ELSE p), IF key THEN <<x>> \o k ELSE k) BY <2>1, ListsGrow
  <2> QED BY <2>2 DEF p, k
<1> HIDE DEF x
<1>5. ListsOk(props', keys') BY <1>1, <1>4
<1>6. ~InCall' /\ ~InCall BY <1>1 DEF InCall
<1>7. OdTypes' BY <1>1, <1>2, <1>5, <1>6 DEF OdTypes
<1> QED BY <1>1, <1>6, <1>7 DEF OdataInv, WorkOk, StepOk, AnswerOk

LEMMA SetStep == ASSUME OdataInv, odat = "idle", AddEntitySet \/ ServiceDestroy PROVE OdataInv'
<1>1. OdTypes BY DEF OdataInv
<1>2. UNCHANGED <<odat, options, before, work, arrays, lacked, answer>> /\ published' \in BOOLEAN
  BY DEF AddEntitySet, ServiceDestroy, callVars
<1>3. ListsOk(props', keys') /\ DataOk(data')
  <2>1. CASE AddEntitySet
    <3>1. UNCHANGED <<props, keys, data>> BY <2>1 DEF AddEntitySet
    <3> QED BY <1>1, <3>1 DEF OdTypes
  <2>2. CASE ServiceDestroy
    <3>1. data' = << >> /\ props' = << >> /\ keys' = << >> BY <2>2 DEF ServiceDestroy
    <3> QED BY <3>1, ListsNone, DataNone
  <2> QED BY <2>1, <2>2
<1>4. ~InCall' /\ ~InCall BY <1>2 DEF InCall
<1>5. OdTypes' BY <1>1, <1>2, <1>3, <1>4 DEF OdTypes
<1> QED BY <1>2, <1>4, <1>5 DEF OdataInv, WorkOk, StepOk, AnswerOk

LEMMA EntityStep == ASSUME OdataInv, odat = "idle", NEW e \in Entities, AddEntity(e) PROVE OdataInv'
<1>1. OdTypes BY DEF OdataInv
<1>2. /\ data' = Append(data, Numbered(e, Len(data) + 1))
      /\ UNCHANGED <<props, keys, published, odat, options, before, work, arrays, lacked, answer>>
  BY DEF AddEntity, callVars
<1>3. DataOk(data') BY <1>1, <1>2, DataGrows DEF OdTypes
<1>4. ~InCall' /\ ~InCall BY <1>2 DEF InCall
<1>5. OdTypes' BY <1>1, <1>2, <1>3, <1>4 DEF OdTypes
<1> QED BY <1>2, <1>4, <1>5 DEF OdataInv, WorkOk, StepOk, AnswerOk

LEMMA CallStep ==
  ASSUME OdataInv, NEW o, OptionsOk(o), NEW u, GenerateResponse(o, u)
  PROVE  OdataInv'
<1>1. OdTypes BY DEF OdataInv
<1>2. /\ odat = "idle" /\ odat' = (IF published THEN "filter" ELSE "answered")
      /\ options' = o /\ before' = data /\ work' = [at |-> "caller", items |-> data]
      /\ answer' = (IF published THEN NoAnswer ELSE Error(404))
      /\ UNCHANGED <<props, keys, published, data, arrays, lacked>>
  BY DEF GenerateResponse
<1>3. work' \in Arrays3 /\ work'.at = "caller" /\ work'.items = data' BY <1>1, <1>2 DEF OdTypes, DataOk, Arrays3
<1>4. arrays' = 0 BY <1>1, <1>2 DEF OdTypes, InCall
<1>5. OptionsOk(options') BY <1>2
<1>6. OdTypes' BY <1>1, <1>2, <1>3, <1>4, <1>5 DEF OdTypes
<1>7. CASE published
  <2>1. odat' = "filter" /\ published' /\ data' = before' BY <1>2, <1>7
  <2> QED BY <1>3, <1>4, <1>6, <2>1 DEF OdataInv, WorkOk, StepOk, AnswerOk
<1>8. CASE ~published
  <2>1. odat' = "answered" /\ ~published' /\ answer' = Error(404) BY <1>2, <1>8
  <2>2. answer'.status = 404 BY <2>1 DEF Error, NoAnswer
  <2> QED BY <1>6, <2>1, <2>2 DEF OdataInv, WorkOk, StepOk, AnswerOk, InCall
<1> QED BY <1>7, <1>8

LEMMA FilterStep == ASSUME OdataInv, ApplyFilter PROVE OdataInv'
<1>1. OdTypes /\ WorkOk /\ StepOk BY DEF OdataInv
<1>2. /\ odat = "filter" /\ odat' = "orderby"
      /\ UNCHANGED <<props, keys, published, data, options, before, answer>>
  BY DEF ApplyFilter
<1>3. /\ published /\ arrays = 0 /\ work.at = "caller" /\ work.items = data /\ data = before
      /\ work \in Arrays3 /\ work.items \in Seq(Items) /\ DataOk(before) /\ lacked \in BOOLEAN
  BY <1>1, <1>2 DEF OdTypes, WorkOk, StepOk, InCall, Arrays3
<1> DEFINE c == Chosen(before, options)
<1>4. /\ c \in Seq(Items) /\ IsInjective(c) /\ (before = << >> => c = << >>)
      /\ (options.filter = {} => c = before)
  BY <1>3, ChosenIs
<1>5. IsInjective(before) BY <1>3, DataOnce
<1>6. CASE work' = work /\ arrays' = arrays
  <2>1. ~lacked' => options.filter = {} \/ work.items = << >>
    <3> DEFINE w == [at |-> "own", items |-> Picked(work.items, Passing(work.items, options.filter))]
    <3>1. options.filter = {} \/ work' = w \/ lacked' = (lacked \/ work.items # << >>) BY DEF ApplyFilter
    <3>2. w.at = "own" OBVIOUS
    <3> HIDE DEF w
    <3>3. work' # w BY <1>3, <1>6, <3>2
    <3>4. CASE lacked' = (lacked \/ work.items # << >>) BY <3>4
    <3> QED BY <3>1, <3>3, <3>4
  <2>2. ~lacked' => work'.items = Chosen(before, options)' BY <1>2, <1>3, <1>4, <1>6, <2>1
  <2>3. lacked' \in BOOLEAN BY <1>3 DEF ApplyFilter
  <2>4. OdTypes' BY <1>1, <1>2, <1>3, <1>6, <2>3 DEF OdTypes, InCall
  <2> QED BY <1>2, <1>3, <1>5, <1>6, <2>2, <2>4 DEF OdataInv, WorkOk, StepOk, AnswerOk
<1>7. CASE /\ work.items # << >> /\ work' = [at |-> "own", items |-> c]
           /\ arrays' = arrays + 1 /\ lacked' = lacked
  <2>1. work' \in Arrays3 /\ work'.at = "own" /\ work'.items = c /\ arrays' = 1 BY <1>3, <1>4, <1>7 DEF Arrays3
  <2>2. c = Chosen(before, options)' BY <1>2
  <2>3. OdTypes' BY <1>1, <1>2, <1>7, <2>1 DEF OdTypes, InCall
  <2> HIDE DEF c
  <2> QED BY <1>2, <1>3, <1>4, <1>7, <2>1, <2>2, <2>3 DEF OdataInv, WorkOk, StepOk, AnswerOk
<1>8. \/ work' = work /\ arrays' = arrays
      \/ /\ work.items # << >> /\ work' = [at |-> "own", items |-> c]
         /\ arrays' = arrays + 1 /\ lacked' = lacked
  BY <1>3 DEF ApplyFilter, Chosen
<1> QED BY <1>6, <1>7, <1>8

LEMMA OrderStep == ASSUME OdataInv, ApplyOrderby PROVE OdataInv'
<1>1. OdTypes /\ WorkOk /\ StepOk BY DEF OdataInv
<1> DEFINE r == options.orderby
           t == Ordered(work.items, r)
<1>2. /\ odat = "orderby" /\ odat' = "paging" /\ work' = [work EXCEPT !.items = t]
      /\ data' = (IF work.at = "caller" THEN work'.items ELSE data)
      /\ UNCHANGED <<props, keys, published, options, before, arrays, lacked, answer>>
  BY DEF ApplyOrderby
<1>3. /\ published /\ Len(data) = Len(before) /\ IsInjective(work.items)
      /\ (work.at = "caller" => data = before /\ work.items = data)
      /\ (~lacked => work.items = Chosen(before, options))
      /\ work \in Arrays3 /\ work.items \in Seq(Items) /\ DataOk(before) /\ DataOk(data) /\ OptionsOk(options)
      /\ \/ work.at = "caller" /\ arrays = 0
         \/ work.at = "own" /\ arrays = 1 /\ before # << >>
  BY <1>1, <1>2 DEF OdTypes, WorkOk, StepOk, InCall, Arrays3
<1>4. SameItems(t, work.items, Items)
  <2> HIDE DEF r
  <2> QED BY <1>3, OrderedSame
<1>5. ~lacked => SortedAs(t, before, options) BY <1>3, OrderedAsAsked
<1> HIDE DEF t
<1>6. work' \in Arrays3 /\ work'.at = work.at /\ work'.items = t
  <2>1. t \in Seq(Items) BY <1>4 DEF SameItems
  <2> QED BY <1>2, <1>3, <2>1 DEF Arrays3
<1>7. DataOk(data') /\ Len(data') = Len(before) /\ (work.at = "caller" => data' = t)
  <2>1. CASE work.at = "caller"
    <3>1. data' = t BY <1>2, <1>6, <2>1
    <3>2. SameItems(t, before, Items) BY <1>3, <1>4, <2>1
    <3>3. DataOk(t) /\ Len(t) = Len(before) BY <1>3, <3>2, DataShuffled DEF SameItems
    <3> QED BY <3>1, <3>3
  <2>2. CASE work.at # "caller" BY <1>2, <1>3, <2>2
  <2> QED BY <2>1, <2>2
<1>8. OdTypes' BY <1>1, <1>2, <1>6, <1>7 DEF OdTypes, InCall
<1>9. WorkOk' BY <1>2, <1>3, <1>6, <1>7 DEF WorkOk
<1>10. StepOk' BY <1>2, <1>5, <1>6 DEF StepOk
<1>11. AnswerOk' BY <1>2 DEF AnswerOk
<1> QED BY <1>8, <1>9, <1>10, <1>11 DEF OdataInv

LEMMA PagingStep == ASSUME OdataInv, ApplyPaging PROVE OdataInv'
<1>1. OdTypes /\ WorkOk /\ StepOk BY DEF OdataInv
<1> DEFINE n == Len(work.items)
           a == NumberOf(options.skip)
           z == IF NumberOf(options.top) > 0 THEN Min({a + NumberOf(options.top), n}) ELSE n
           v == SubSeq(work.items, a + 1, z)
           freed == arrays - (IF work.at = "own" THEN 1 ELSE 0)
<1>2. /\ odat = "paging" /\ odat' = "wrap"
      /\ UNCHANGED <<props, keys, published, data, options, before, answer>>
  BY DEF ApplyPaging
<1>3. \/ options.top \cup options.skip = {} /\ UNCHANGED <<work, arrays, lacked>>
      \/ /\ n > 0 /\ a >= n /\ work' = NoArray /\ arrays' = freed /\ lacked' = lacked
      \/ /\ n > 0 /\ ~(a >= n) /\ work' = [at |-> "own", items |-> v] /\ arrays' = freed + 1
         /\ lacked' = lacked
      \/ UNCHANGED <<work, arrays>> /\ lacked' = (lacked \/ n > 0)
  BY DEF ApplyPaging
<1>4. /\ published /\ Len(data) = Len(before) /\ work \in Arrays3 /\ work.items \in Seq(Items)
      /\ DataOk(before) /\ OptionsOk(options) /\ lacked \in BOOLEAN
      /\ (~lacked => SortedAs(work.items, before, options))
      /\ \/ work.at = "caller" /\ arrays = 0 /\ work.items = data
         \/ work.at = "own" /\ arrays = 1 /\ before # << >>
  BY <1>1, <1>2 DEF OdTypes, WorkOk, StepOk, InCall, Arrays3
<1>5. n \in Nat /\ a \in Nat /\ freed = 0 BY <1>4, NumberOfType DEF OptionsOk
<1>6. n > 0 => before # << >>
  <2>1. CASE work.at = "caller"
    <3>1. n = Len(before) BY <1>4, <2>1
    <3>2. Len(<< >>) = 0 OBVIOUS
    <3> QED BY <3>1, <3>2
  <2> QED BY <1>4, <2>1
<1>7. ~lacked => n = Len(Chosen(before, options)) BY <1>4 DEF SortedAs, SameItems
<1>8. z = LastOf(options, n) BY DEF LastOf
<1>9. ~lacked /\ a < n => IsPage(v, before, options)
  <2> HIDE DEF z
  <2> QED BY <1>4, <1>8, PageIs
<1>10. v \in Seq(Items)
  <2>1. a < n \/ ~(a < n) OBVIOUS
  <2>2. CASE a < n
    <3>1. z \in Nat /\ z <= n
      <4> HIDE DEF z, n
      <4> QED BY <1>4, <1>5, <1>8, <2>2, LastIs
    <3>2. \A i \in a + 1 .. z : work.items[i] \in Items BY <1>4, <1>5, <3>1
    <3> HIDE DEF z
    <3> QED BY <1>4, <1>5, <3>1, <3>2
  <2>3. CASE ~(a < n)
    <3>1. z \in Nat /\ z <= n
      <4>1. NumberOf(options.top) \in Nat BY <1>4, NumberOfType DEF OptionsOk
      <4>2. a + NumberOf(options.top) \in Nat BY <1>5, <4>1
      <4>3. Min({a + NumberOf(options.top), n}) \in Nat /\ Min({a + NumberOf(options.top), n}) <= n
        BY <1>5, <4>2, MinOfTwo
      <4> QED BY <1>5, <4>3
    <3>2. \A i \in a + 1 .. z : work.items[i] \in Items BY <1>4, <1>5, <3>1
    <3> HIDE DEF z
    <3> QED BY <1>4, <1>5, <3>1, <3>2
  <2> QED BY <2>1, <2>2, <2>3
<1> HIDE DEF n, a, z, v, freed
<1>11. AnswerOk' BY <1>2 DEF AnswerOk
<1>12. CASE UNCHANGED <<work, arrays>> /\ (lacked' \/ options.top \cup options.skip = {} \/ n = 0) /\ lacked' \in BOOLEAN
            /\ (lacked => lacked')
  <2>1. OdTypes' BY <1>1, <1>2, <1>12 DEF OdTypes, InCall
  <2>2. WorkOk' BY <1>2, <1>4, <1>12 DEF WorkOk
  <2>3. ASSUME ~lacked'
        PROVE  /\ IsPage(work.items, before, options)
               /\ Chosen(before, options) # << >> => NumberOf(options.skip) < Len(Chosen(before, options))
    <3>1. (options.top = {} /\ options.skip = {}) \/ n = 0 BY <1>12, <2>3
    <3>2. SortedAs(work.items, before, options) BY <1>4, <1>12, <2>3
    <3> QED BY <1>4, <3>1, <3>2, PageOfAll DEF n
  <2>4. StepOk' BY <1>2, <1>4, <1>12, <2>3 DEF StepOk
  <2> QED BY <1>11, <2>1, <2>2, <2>4 DEF OdataInv
<1>13. CASE n > 0 /\ a >= n /\ work' = NoArray /\ arrays' = freed /\ lacked' = lacked
  <2>1. work' \in Arrays3 /\ work'.at = "none" /\ arrays' = 0 BY <1>5, <1>13, NothingWorked
  <2>2. OdTypes' BY <1>1, <1>2, <1>13, <2>1 DEF OdTypes, InCall
  <2>3. WorkOk' BY <1>2, <1>4, <1>6, <1>13, <2>1 DEF WorkOk
  <2>4. StepOk' BY <1>2, <1>7, <1>13, <2>1 DEF StepOk, a
  <2> QED BY <1>11, <2>2, <2>3, <2>4 DEF OdataInv
<1>14. CASE /\ n > 0 /\ ~(a >= n) /\ work' = [at |-> "own", items |-> v] /\ arrays' = freed + 1
            /\ lacked' = lacked
  <2>1. work' \in Arrays3 /\ work'.at = "own" /\ work'.items = v /\ arrays' = 1
    BY <1>5, <1>10, <1>14 DEF Arrays3
  <2>2. OdTypes' BY <1>1, <1>2, <1>14, <2>1 DEF OdTypes, InCall
  <2>3. WorkOk' BY <1>2, <1>4, <1>6, <1>14, <2>1 DEF WorkOk
  <2>4. a < n BY <1>5, <1>14
  <2>5. StepOk' BY <1>2, <1>7, <1>9, <1>14, <2>1, <2>4 DEF StepOk, a
  <2> QED BY <1>11, <2>2, <2>3, <2>5 DEF OdataInv
<1>15. CASE options.top \cup options.skip = {} /\ UNCHANGED <<work, arrays, lacked>> BY <1>4, <1>12, <1>15
<1>16. CASE UNCHANGED <<work, arrays>> /\ lacked' = (lacked \/ n > 0)
  <2>1. lacked' \in BOOLEAN /\ (lacked => lacked') BY <1>16
  <2>2. lacked' \/ n = 0
    <3>1. n > 0 \/ n = 0 BY <1>5
    <3>2. CASE n > 0 BY <1>16, <3>2, Zenon
    <3> QED BY <3>1, <3>2
  <2> QED BY <1>12, <1>16, <2>1, <2>2
<1> QED BY <1>3, <1>13, <1>14, <1>15, <1>16

LEMMA WrapStep == ASSUME OdataInv, WrapCollection PROVE OdataInv'
<1>1. OdTypes /\ WorkOk /\ StepOk BY DEF OdataInv
<1> DEFINE none == work.at = "none" \/ (work.at = "caller" /\ data = << >>)
<1>2. /\ odat = "wrap" /\ odat' = "answered" /\ work' = NoArray
      /\ arrays' = arrays - (IF work.at = "own" THEN 1 ELSE 0)
      /\ UNCHANGED <<props, keys, published, data, options, before>>
  BY DEF WrapCollection
<1>3. \/ /\ ~none
         /\ \E out \in SUBSET ToSet(work.items) :
              /\ answer' = [status |-> 200, count |-> Len(before),
                            value |-> Picked(work.items, {i \in DOMAIN work.items : work.items[i] \notin out})]
              /\ lacked' = (lacked \/ out # {})
      \/ answer' = Error(500) /\ lacked' = (lacked \/ ~none)
  BY DEF WrapCollection
<1>4. /\ published /\ Len(data) = Len(before) /\ work \in Arrays3 /\ work.items \in Seq(Items)
      /\ DataOk(before) /\ DataOk(data) /\ OptionsOk(options) /\ lacked \in BOOLEAN
      /\ \/ work.at = "caller" /\ arrays = 0 /\ work.items = data
         \/ work.at = "own" /\ arrays = 1 /\ before # << >>
         \/ work.at = "none" /\ arrays = 0 /\ before # << >>
  BY <1>1, <1>2 DEF OdTypes, WorkOk, InCall, Arrays3
<1> DEFINE c == Chosen(before, options)
           skip == NumberOf(options.skip)
<1>5. ~lacked => IF work.at = "none" THEN Len(c) > 0 /\ skip >= Len(c)
                 ELSE IsPage(work.items, before, options) /\ (c # << >> => skip < Len(c))
  BY <1>1, <1>2 DEF StepOk
<1>6. c \in Seq(Items) /\ Len(c) \in Nat /\ (before = << >> => c = << >>) /\ Len(<< >>) = 0
  <2>1. c \in Seq(Items) /\ (before = << >> => c = << >>) BY <1>4, ChosenIs
  <2> HIDE DEF c
  <2> QED BY <2>1
<1>7. data = << >> <=> before = << >>
  <2>1. \A d \in Seq(Items) : d = << >> <=> Len(d) = 0 BY EmptySeq
  <2> QED BY <1>4, <2>1 DEF DataOk
<1>8. skip \in Nat BY <1>4, NumberOfType DEF OptionsOk
<1> HIDE DEF none, c, skip
<1>9. arrays' = 0 BY <1>2, <1>4
<1>10. ASSUME none, ~lacked
       PROVE  before = << >> \/ (skip >= Len(c) /\ skip > 0 /\ c # << >>)
  BY <1>5, <1>6, <1>7, <1>8, <1>10 DEF none
<1>11. ASSUME ~none, ~lacked
       PROVE  /\ ~(before = << >> \/ (skip >= Len(c) /\ skip > 0 /\ c # << >>))
              /\ IsPage(work.items, before, options)
  <2>1. before # << >> BY <1>4, <1>7, <1>11 DEF none
  <2>2. work.at # "none" BY <1>11 DEF none
  <2> QED BY <1>5, <1>6, <1>8, <1>11, <2>1, <2>2
<1>12. /\ lacked' \in BOOLEAN
       /\ answer'.status # 404
       /\ ~lacked' => Answers(answer', before, options)
  <2>1. ASSUME NEW out, ~none, lacked' = (lacked \/ out # {}),
               answer' = [status |-> 200, count |-> Len(before),
                          value |-> Picked(work.items, {i \in DOMAIN work.items : work.items[i] \notin out})]
        PROVE  /\ lacked' \in BOOLEAN /\ answer'.status # 404
               /\ ~lacked' => Answers(answer', before, options)
    <3>1. answer'.status = 200 /\ answer'.count = Len(before) BY <2>1
    <3>2. ASSUME ~lacked' PROVE answer'.value = work.items /\ ~lacked
      <4>1. out = {} /\ ~lacked BY <2>1, <3>2
      <4>2. 1 .. Len(work.items) \subseteq {i \in DOMAIN work.items : work.items[i] \notin out} BY <1>4, <4>1
      <4>3. Picked(work.items, {i \in DOMAIN work.items : work.items[i] \notin out}) = work.items
        BY <1>4, <4>2, PickedAll
      <4> QED BY <2>1, <4>1, <4>3
    <3>3. ~lacked' => Answers(answer', before, options)
      BY <1>11, <2>1, <3>1, <3>2 DEF Answers, c, skip
    <3> QED BY <2>1, <3>1, <3>3
  <2>2. ASSUME answer' = Error(500), lacked' = (lacked \/ ~none)
        PROVE  /\ lacked' \in BOOLEAN /\ answer'.status # 404
               /\ ~lacked' => Answers(answer', before, options)
    <3>1. answer'.status = 500 BY <2>2 DEF Error, NoAnswer
    <3>2. ~lacked' => none /\ ~lacked BY <2>2
    <3>3. ~lacked' => Answers(answer', before, options) BY <1>10, <3>1, <3>2 DEF Answers, c, skip
    <3> QED BY <2>2, <3>1, <3>3
  <2> QED BY <1>3, <2>1, <2>2
<1>13. OdTypes' BY <1>1, <1>2, <1>9, <1>12, NothingWorked DEF OdTypes, InCall
<1>14. WorkOk' /\ StepOk' BY <1>2 DEF WorkOk, StepOk, InCall
<1>15. AnswerOk' BY <1>2, <1>4, <1>12 DEF AnswerOk
<1> QED BY <1>13, <1>14, <1>15 DEF OdataInv

LEMMA FreeStep == ASSUME OdataInv, ResponseFree PROVE OdataInv'
<1>1. OdTypes BY DEF OdataInv
<1>2. /\ odat = "answered" /\ odat' = "idle" /\ options' = NoOptions /\ before' = << >> /\ lacked' = FALSE
      /\ UNCHANGED <<props, keys, published, data, work, arrays>>
  BY DEF ResponseFree
<1>3. ~InCall' /\ ~InCall BY <1>2 DEF InCall
<1>4. OdTypes' BY <1>1, <1>2, <1>3, OptionsAre, DataNone DEF OdTypes
<1> QED BY <1>2, <1>3, <1>4 DEF OdataInv, WorkOk, StepOk, AnswerOk

LEMMA OdataStays == ASSUME OdataInv, UNCHANGED odataVars PROVE OdataInv'
<1>1. UNCHANGED <<props, keys, published, data, odat, options, before, work, arrays, lacked, answer>>
  BY DEF odataVars, callVars
<1>2. OdTypes' BY <1>1 DEF OdataInv, OdTypes, InCall
<1>3. WorkOk' BY <1>1 DEF OdataInv, WorkOk, InCall
<1>4. StepOk' BY <1>1 DEF OdataInv, StepOk
<1>5. AnswerOk' BY <1>1 DEF OdataInv, AnswerOk
<1> QED BY <1>2, <1>3, <1>4, <1>5 DEF OdataInv

LEMMA OdataStep == ASSUME OdataInv, [OdataNext]_odataVars PROVE OdataInv'
<1>1. CASE UNCHANGED odataVars BY <1>1, OdataStays
<1>2. CASE odat = "idle" /\ \E key \in BOOLEAN : AddProperty(key) BY <1>2, PropertyStep
<1>3. CASE odat = "idle" /\ \E e \in Entities : AddEntity(e) BY <1>3, EntityStep
<1>4. CASE odat = "idle" /\ (AddEntitySet \/ ServiceDestroy) BY <1>4, SetStep
<1>5. CASE \/ \E o \in OptionSets : GenerateResponse(o, "none")
           \/ \E q \in Queries : GenerateResponse(ParseQueryOptions(q), Kind(q))
  BY <1>5, CallStep, OptionsAre
<1>6. CASE ApplyFilter BY <1>6, FilterStep
<1>7. CASE ApplyOrderby BY <1>7, OrderStep
<1>8. CASE ApplyPaging BY <1>8, PagingStep
<1>9. CASE WrapCollection BY <1>9, WrapStep
<1>10. CASE ResponseFree BY <1>10, FreeStep
<1> QED BY <1>1, <1>2, <1>3, <1>4, <1>5, <1>6, <1>7, <1>8, <1>9, <1>10 DEF OdataNext

-----------------------------------------------------------------------------
\* What the options say is what is asked for.
UrlInv == url = "none" \/ (/\ options.filter \subseteq {<< >>} /\ options.orderby = << >>
                           /\ options.top \subseteq {0} /\ options.skip \subseteq {0})

LEMMA UrlStep == ASSUME UrlInv, [OdataNext]_odataVars PROVE UrlInv'
<1>1. CASE \E o \in OptionSets : GenerateResponse(o, "none") BY <1>1 DEF GenerateResponse, UrlInv
<1>2. CASE \E q \in Queries : GenerateResponse(ParseQueryOptions(q), Kind(q))
  <2>1. PICK q \in Queries : options' = ParseQueryOptions(q) BY <1>2 DEF GenerateResponse
  <2>2. /\ ParseQueryOptions(q).filter \subseteq {<< >>} /\ ParseQueryOptions(q).orderby = << >>
        /\ ParseQueryOptions(q).top \subseteq {0} /\ ParseQueryOptions(q).skip \subseteq {0}
    BY DEF ParseQueryOptions
  <2> QED BY <2>1, <2>2 DEF UrlInv
<1>3. CASE ResponseFree BY <1>3 DEF ResponseFree, UrlInv
<1>4. CASE UNCHANGED <<url, options>> BY <1>4 DEF UrlInv
<1>5. ASSUME NEW key, AddProperty(key) PROVE UNCHANGED <<url, options>> BY <1>5 DEF AddProperty, callVars
<1>6. ASSUME NEW e, AddEntity(e) PROVE UNCHANGED <<url, options>> BY <1>6 DEF AddEntity, callVars
<1>7. CASE AddEntitySet \/ ServiceDestroy BY <1>4, <1>7 DEF AddEntitySet, ServiceDestroy, callVars
<1>8. CASE ApplyFilter \/ ApplyOrderby BY <1>4, <1>8 DEF ApplyFilter, ApplyOrderby
<1>9. CASE ApplyPaging \/ WrapCollection BY <1>4, <1>9 DEF ApplyPaging, WrapCollection
<1>10. CASE UNCHANGED odataVars BY <1>4, <1>10 DEF odataVars, callVars
<1> QED BY <1>1, <1>2, <1>3, <1>4, <1>5, <1>6, <1>7, <1>8, <1>9, <1>10 DEF OdataNext

\* Unless it compares a text with a quoted value, a filter lets what matches pass.
LEMMA FilterIsExact ==
  ASSUME NEW e, NEW filter, ~ComparesText(filter), NEW f \in filter
  PROVE  evaluate_filter(e, f) <=> Matches(e, f)
<1>1. CASE f = << >> BY <1>1 DEF evaluate_filter, Matches
<1>2. CASE f # << >>
  <2> DEFINE x == e[f.property]
             there == f.property \in DOMAIN e /\ x # 0
             numeric == f.property \notin Texts /\ ~f.quoted
             comparable == f.quoted <=> f.property \in Texts
  <2>1. f.op \in {"eq", "ne"} => (comparable <=> numeric) BY <1>2 DEF ComparesText
  <2>2. comparable /\ ~f.quoted <=> numeric OBVIOUS
  <2>3. evaluate_filter(e, f) <=> there /\ CASE f.op = "eq" -> numeric /\ x = f.value
                                             [] f.op = "ne" -> ~(numeric /\ x = f.value)
                                             [] f.op = "gt" -> numeric /\ x > f.value
                                             [] f.op = "ge" -> numeric /\ x >= f.value
                                             [] f.op = "lt" -> numeric /\ x < f.value
                                             [] f.op = "le" -> numeric /\ x <= f.value
                                             [] OTHER -> FALSE
    BY <1>2 DEF evaluate_filter
  <2>4. Matches(e, f) <=> /\ there
                          /\ \/ f.op = "eq" /\ comparable /\ x = f.value
                             \/ f.op = "ne" /\ ~(comparable /\ x = f.value)
                             \/ f.op = "gt" /\ comparable /\ ~f.quoted /\ x > f.value
                             \/ f.op = "ge" /\ comparable /\ ~f.quoted /\ x >= f.value
                             \/ f.op = "lt" /\ comparable /\ ~f.quoted /\ x < f.value
                             \/ f.op = "le" /\ comparable /\ ~f.quoted /\ x <= f.value
    BY <1>2 DEF Matches
  <2> HIDE DEF x, there, numeric, comparable
  <2>5. CASE f.op = "eq" BY <2>1, <2>3, <2>4, <2>5
  <2>6. CASE f.op = "ne" BY <2>1, <2>3, <2>4, <2>6
  <2>7. CASE f.op = "gt" BY <2>2, <2>3, <2>4, <2>7
  <2>8. CASE f.op = "ge" BY <2>2, <2>3, <2>4, <2>8
  <2>9. CASE f.op = "lt" BY <2>2, <2>3, <2>4, <2>9
  <2>10. CASE f.op = "le" BY <2>2, <2>3, <2>4, <2>10
  <2>11. CASE f.op \notin {"eq", "ne", "gt", "ge", "lt", "le"} BY <2>3, <2>4, <2>11
  <2> QED BY <2>5, <2>6, <2>7, <2>8, <2>9, <2>10, <2>11
<1> QED BY <1>1, <1>2

LEMMA AskedIs ==
  ASSUME UrlInv, ~ComparesText(AskedFor.filter)
  PROVE  /\ Chosen(before, options) = Matching(before, AskedFor.filter)
         /\ NumberOf(options.skip) = NumberOf(AskedFor.skip)
         /\ NumberOf(options.top) = NumberOf(AskedFor.top)
         /\ options.orderby = AskedFor.orderby
<1>1. CASE url = "none"
  <2>1. AskedFor = options BY <1>1 DEF AskedFor
  <2>2. {i \in DOMAIN before : \A f \in options.filter : Matches(before[i], f)}
          = Passing(before, options.filter)
    BY <2>1, FilterIsExact DEF Passing
  <2> QED BY <2>1, <2>2 DEF Chosen, Matching
<1>2. CASE url # "none"
  <2>1. /\ options.filter \subseteq {<< >>} /\ options.orderby = << >>
        /\ options.top \subseteq {0} /\ options.skip \subseteq {0}
    BY <1>2 DEF UrlInv
  <2>2. AskedFor = NoOptions BY <1>2 DEF AskedFor
  <2>3. NoOptions = [filter |-> {}, orderby |-> << >>, top |-> {}, skip |-> {}] BY DEF NoOptions
  <2>4. NumberOf({}) = 0 /\ NumberOf({0}) = 0 BY NumberOfIs
  <2>5. \A t : t \subseteq {0} => t = {} \/ t = {0} OBVIOUS
  <2>6. Passing(before, options.filter) = DOMAIN before
    BY <2>1 DEF Passing, evaluate_filter
  <2>7. {i \in DOMAIN before : \A f \in {} : Matches(before[i], f)} = DOMAIN before OBVIOUS
  <2>8. Chosen(before, options) = Matching(before, {}) BY <2>6, <2>7 DEF Chosen, Matching
  <2> QED BY <2>1, <2>2, <2>3, <2>4, <2>5, <2>8
<1> QED BY <1>1, <1>2

LEMMA OdataInvAnswers == ASSUME OdataInv, UrlInv PROVE ODataAnswers
<1>1. OdTypes /\ AnswerOk BY DEF OdataInv
<1>2. {e.id : e \in ToSet(data)} = 1 .. Len(data) BY <1>1 DEF OdTypes, DataOk
<1>3. /\ IsInjective(GenerateMetadata.Properties)
      /\ ToSet(GenerateMetadata.Key) = {p \in ToSet(GenerateMetadata.Properties) : p.key}
  BY <1>1 DEF OdTypes, ListsOk, GenerateMetadata
<1>4. ASSUME odat = "answered"
      PROVE  (answer.status = 404 <=> ~published) /\ arrays = 0
  BY <1>1, <1>4 DEF OdTypes, AnswerOk, InCall
<1>5. ASSUME odat = "answered", ~lacked, published, url # "valued", ~ComparesText(AskedFor.filter)
      PROVE  LET all == Matching(before, AskedFor.filter)
                 skip == NumberOf(AskedFor.skip)
                 last == IF NumberOf(AskedFor.top) > 0 THEN Min({skip + NumberOf(AskedFor.top), Len(all)})
                         ELSE Len(all)
             IN /\ answer.status = 500 <=> before = <<>> \/ (skip >= Len(all) /\ skip > 0 /\ all # <<>>)
                /\ answer.status = 200 =>
                     /\ answer.count = Len(before)
                     /\ Len(answer.value) = (IF all = <<>> THEN 0 ELSE last - skip)
                     /\ ToSet(answer.value) \subseteq ToSet(all) /\ IsInjective(answer.value)
                     /\ Orderable(all, AskedFor.orderby) => \A i \in DOMAIN answer.value :
                          Rank(answer.value[i], all, AskedFor.orderby, before) = skip + i
  <2>1. Answers(answer, before, options) BY <1>1, <1>5 DEF AnswerOk
  <2>2. /\ Chosen(before, options) = Matching(before, AskedFor.filter)
        /\ NumberOf(options.skip) = NumberOf(AskedFor.skip)
        /\ NumberOf(options.top) = NumberOf(AskedFor.top)
        /\ options.orderby = AskedFor.orderby
    BY <1>5, AskedIs
  <2> QED BY <2>1, <2>2 DEF Answers, IsPage, LastOf
<1> QED BY <1>2, <1>3, <1>4, <1>5 DEF ODataAnswers

\* Whatever is added, asked for and destroyed, an answer is the page asked for, in
\* the order asked for, no array is left behind and the data lose no entity; but
\* for URLs whose options have values and for texts compared with quoted values.
THEOREM AnswersAreThePage == OdataSpec => []ODataAnswers
<1>1. OdataInit => OdataInv /\ UrlInv
  <2>1. OdataInit => UrlInv BY DEF OdataInit, UrlInv
  <2> QED BY <2>1, OdataBegins
<1>2. OdataInv /\ UrlInv /\ [OdataNext]_odataVars => OdataInv' /\ UrlInv' BY OdataStep, UrlStep
<1>3. OdataInv /\ UrlInv => ODataAnswers BY OdataInvAnswers
<1> QED BY <1>1, <1>2, <1>3, PTL DEF OdataSpec
=============================================================================
