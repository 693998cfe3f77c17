------------------------------- MODULE Chains -------------------------------
(***************************************************************************)
(* What the proofs about lists need of the natural numbers: a set of them  *)
(* has a least element, which is induction without a predicate; and how a  *)
(* walk along links, which the models define by recursion on the number of *)
(* steps, goes along a chain.                                              *)
(***************************************************************************)
EXTENDS Integers, Sequences, WellFoundedInduction, TLAPS

LEMMA LeastNatural ==
  ASSUME NEW S \in SUBSET Nat, S # {}
  PROVE  \E least \in S : \A n \in S : least <= n
<1> DEFINE R == {ss \in Nat \X Nat : ss[1] < ss[2]}
<1>1. IsWellFoundedOn(R, Nat) BY NatLessThanWellFounded DEF OpToRel
<1> HIDE DEF R
<1>2. PICK least \in S : \A n \in S : ~(<<n, least>> \in R) BY <1>1, WFMin, Zenon
<1>3. \A n \in S : n < least => <<n, least>> \in R BY DEF R
<1>4. ASSUME NEW n \in S PROVE least <= n
  <2>1. n \in Nat /\ least \in Nat OBVIOUS
  <2>2. ~(n < least) BY <1>2, <1>3
  <2> QED BY <2>1, <2>2
<1> QED BY <1>4

\* Induction up to a bound, for the members of a set.
LEMMA InductionTo ==
  ASSUME NEW N \in Nat, NEW S, 0 \in S,
         \A n \in 0 .. N : n > 0 /\ n - 1 \in S => n \in S
  PROVE  0 .. N \subseteq S
<1> SUFFICES ASSUME 0 .. N \ S # {} PROVE FALSE
  OBVIOUS
<1>1. PICK least \in 0 .. N \ S : \A n \in 0 .. N \ S : least <= n
  BY LeastNatural, 0 .. N \ S \in SUBSET Nat
<1>2. least > 0 BY <1>1
<1>3. least - 1 \in 0 .. N BY <1>1, <1>2
<1>4. least - 1 \in S BY <1>1, <1>3
<1> QED BY <1>1, <1>2, <1>4

\* A function that is applied again and again has a sequence of its values.
RunOf(f, n, T, start, F) ==
  f \in [0 .. n -> T] /\ f[0] = start /\ \A i \in 1 .. n : f[i] = F[f[i - 1]]

LEMMA Iterated ==
  ASSUME NEW L \in Nat, NEW T, NEW start \in T, NEW F \in [T -> T]
  PROVE  \E f : RunOf(f, L, T, start, F)
<1> DEFINE Good == {n \in 0 .. L : \E f \in [0 .. n -> T] :
                      f[0] = start /\ \A i \in 1 .. n : f[i] = F[f[i - 1]]}
<1>1. 0 \in Good
  <2> DEFINE f == [i \in 0 .. 0 |-> start]
  <2>1. f \in [0 .. 0 -> T] OBVIOUS
  <2>2. f[0] = start OBVIOUS
  <2>3. \A i \in 1 .. 0 : f[i] = F[f[i - 1]] OBVIOUS
  <2> HIDE DEF f
  <2> QED BY <2>1, <2>2, <2>3
<1>2. ASSUME NEW n \in 0 .. L, n > 0, n - 1 \in Good PROVE n \in Good
  <2>1. PICK f \in [0 .. n - 1 -> T] : f[0] = start /\ \A i \in 1 .. n - 1 : f[i] = F[f[i - 1]]
    BY <1>2
  <2> DEFINE k == [i \in 0 .. n |-> IF i = n THEN F[f[n - 1]] ELSE f[i]]
  <2>2. n - 1 \in 0 .. n - 1 /\ 0 \in 0 .. n - 1 /\ n # 0 BY <1>2
  <2>3. \A i \in 0 .. n : i # n => i \in 0 .. n - 1 OBVIOUS
  <2>4. k \in [0 .. n -> T] BY <2>1, <2>2, <2>3
  <2>5. k[0] = start BY <2>1, <2>2
  <2>6. ASSUME NEW i \in 1 .. n PROVE k[i] = F[k[i - 1]]
    <3>1. i - 1 \in 0 .. n - 1 /\ i - 1 # n /\ k[i - 1] = f[i - 1] BY <1>2
    <3>2. CASE i = n BY <3>1, <3>2
    <3>3. CASE i # n
      <4>1. i \in 1 .. n - 1 /\ k[i] = f[i] BY <3>3
      <4> QED BY <2>1, <3>1, <4>1
    <3> QED BY <3>2, <3>3
  <2> HIDE DEF k
  <2> QED BY <2>4, <2>5, <2>6
<1> HIDE DEF Good
<1>3. 0 .. L \subseteq Good BY <1>1, <1>2, InductionTo
<1>4. L \in Good BY <1>3
<1> QED BY <1>4 DEF Good, RunOf

-----------------------------------------------------------------------------
(***************************************************************************)
(* A chain: a sequence without repetition whose members are linked in its  *)
(* order, the last of them to nothing.                                     *)
(***************************************************************************)
Once(s) == \A i, j \in DOMAIN s : s[i] = s[j] => i = j

FirstOf(s, nothing) == IF s = << >> THEN nothing ELSE s[1]

Follower(s, i, nothing) == IF i = Len(s) THEN nothing ELSE s[i + 1]

Members(s) == {s[i] : i \in DOMAIN s}

IsChain(s, S, head, links, nothing) ==
  /\ s \in Seq(S) /\ nothing \notin S
  /\ Once(s)
  /\ head = FirstOf(s, nothing)
  /\ \A i \in 1 .. Len(s) : links[s[i]] = Follower(s, i, nothing)

\* What a walk of n steps along a chain leads to.
Along(s, n, nothing) == IF n < Len(s) THEN s[n + 1] ELSE nothing

LEMMA AlongFollower ==
  ASSUME NEW S, NEW s \in Seq(S), NEW nothing
  PROVE  \A n \in 1 .. Len(s) : Along(s, n, nothing) = Follower(s, n, nothing)
  BY DEF Along, Follower

\* A walk of N steps: one link after the other, and no step from nothing.
Walks(f, N, S, head, links, nothing) ==
  /\ N \in Nat
  /\ f[0] = head
  /\ \A n \in 1 .. N : /\ f[n - 1] = nothing => f[n] = nothing
                       /\ f[n - 1] \in S => f[n] = links[f[n - 1]]

\* Whatever takes the steps of a walk goes along the chain, and stays at its end.
LEMMA WalkGoesAlong ==
  ASSUME NEW N, NEW S, NEW s, NEW head, NEW links, NEW nothing, NEW f,
         IsChain(s, S, head, links, nothing),
         Walks(f, N, S, head, links, nothing)
  PROVE  \A n \in 0 .. N : f[n] = Along(s, n, nothing)
<1> DEFINE Good == {n \in 0 .. N : f[n] = Along(s, n, nothing)}
<1>0. s \in Seq(S) /\ nothing \notin S /\ Len(s) \in Nat /\ DOMAIN s = 1 .. Len(s)
  BY DEF IsChain
<1>a. /\ N \in Nat /\ f[0] = head
      /\ \A n \in 1 .. N : /\ f[n - 1] = nothing => f[n] = nothing
                           /\ f[n - 1] \in S => f[n] = links[f[n - 1]]
  BY DEF Walks
<1>1. 0 \in Good BY <1>a DEF IsChain, FirstOf, Along
<1>2. ASSUME NEW n \in 0 .. N, n > 0, n - 1 \in Good PROVE n \in Good
  <2>1. n \in 1 .. N /\ f[n - 1] = Along(s, n - 1, nothing) BY <1>a, <1>2
  <2>2. CASE n - 1 < Len(s)
    <3>1. n \in 1 .. Len(s) /\ f[n - 1] = s[n] BY <1>0, <2>1, <2>2 DEF Along
    <3>2. s[n] \in S BY <1>0, <3>1
    <3>3. f[n] = links[s[n]] BY <1>a, <2>1, <3>1, <3>2
    <3>4. links[s[n]] = Follower(s, n, nothing) BY <3>1 DEF IsChain
    <3>5. Along(s, n, nothing) = Follower(s, n, nothing) BY <1>0, <3>1, AlongFollower
    <3> QED BY <3>3, <3>4, <3>5
  <2>3. CASE ~(n - 1 < Len(s))
    <3>1. f[n - 1] = nothing BY <2>1, <2>3 DEF Along
    <3>2. f[n] = nothing BY <1>a, <2>1, <3>1
    <3> QED BY <2>1, <2>3, <3>2 DEF Along
  <2> QED BY <2>2, <2>3
<1> HIDE DEF Good
<1>3. 0 .. N \subseteq Good BY <1>a, <1>1, <1>2, InductionTo
<1> QED BY <1>3 DEF Good

\* What such a walk meets, if it may be as long as the chain.
LEMMA MetAlong ==
  ASSUME NEW N \in Nat, NEW S, NEW s \in Seq(S), NEW nothing, nothing \notin S, Len(s) <= N
  PROVE  /\ {Along(s, n, nothing) : n \in 0 .. N} \ {nothing} = Members(s)
         /\ Along(s, Len(s), nothing) = nothing
         /\ Along(s, N, nothing) = nothing
<1>1. ASSUME NEW n \in 0 .. N, Along(s, n, nothing) # nothing
      PROVE  Along(s, n, nothing) \in Members(s)
  BY <1>1 DEF Along, Members
<1>2. ASSUME NEW i \in DOMAIN s
      PROVE  i - 1 \in 0 .. N /\ s[i] = Along(s, i - 1, nothing) /\ s[i] # nothing
  BY DEF Along
<1>3. Members(s) \subseteq {Along(s, n, nothing) : n \in 0 .. N} \ {nothing} BY <1>2 DEF Members
<1>4. {Along(s, n, nothing) : n \in 0 .. N} \ {nothing} \subseteq Members(s) BY <1>1
<1> QED BY <1>3, <1>4 DEF Along
-----------------------------------------------------------------------------
(***************************************************************************)
(* Chains as lists change: a link is followed, set or taken out.           *)
(***************************************************************************)
Prepended(x, s) == [i \in 1 .. Len(s) + 1 |-> IF i = 1 THEN x ELSE s[i - 1]]

Without(s, k) == [i \in 1 .. Len(s) - 1 |-> IF i < k THEN s[i] ELSE s[i + 1]]

LEMMA MembersMap ==
  ASSUME NEW n \in Nat, NEW S, NEW s \in [1 .. n -> S]
  PROVE  s \in Seq(S) /\ Len(s) = n /\ DOMAIN s = 1 .. n /\ Members(s) \subseteq S
  BY DEF Members

LEMMA PrependedIs ==
  ASSUME NEW S, NEW s \in Seq(S), NEW x \in S
  PROVE  /\ Prepended(x, s) \in Seq(S)
         /\ Len(Prepended(x, s)) = Len(s) + 1
         /\ DOMAIN Prepended(x, s) = 1 .. Len(s) + 1
         /\ Members(Prepended(x, s)) = Members(s) \cup {x}
<1>1. Prepended(x, s) \in [1 .. Len(s) + 1 -> S] BY DEF Prepended
<1>2. /\ Prepended(x, s) \in Seq(S)
      /\ Len(Prepended(x, s)) = Len(s) + 1
      /\ DOMAIN Prepended(x, s) = 1 .. Len(s) + 1
  BY <1>1
<1>3. Members(Prepended(x, s)) \subseteq Members(s) \cup {x}
  BY <1>2 DEF Members, Prepended
<1>4. x \in Members(Prepended(x, s))
  <2>1. 1 \in 1 .. Len(s) + 1 /\ Prepended(x, s)[1] = x BY DEF Prepended
  <2> QED BY <1>2, <2>1 DEF Members
<1>5. ASSUME NEW i \in DOMAIN s PROVE s[i] \in Members(Prepended(x, s))
  <2>1. i + 1 \in 1 .. Len(s) + 1 /\ Prepended(x, s)[i + 1] = s[i] BY DEF Prepended
  <2> QED BY <1>2, <2>1 DEF Members
<1>6. Members(s) \subseteq Members(Prepended(x, s)) BY <1>5 DEF Members
<1> QED BY <1>2, <1>3, <1>4, <1>6

LEMMA WithoutIs ==
  ASSUME NEW S, NEW s \in Seq(S), Once(s), NEW k \in 1 .. Len(s)
  PROVE  /\ Without(s, k) \in Seq(S)
         /\ Len(Without(s, k)) = Len(s) - 1
         /\ DOMAIN Without(s, k) = 1 .. Len(s) - 1
         /\ Members(Without(s, k)) = Members(s) \ {s[k]}
<1>1. Without(s, k) \in [1 .. Len(s) - 1 -> S] /\ Len(s) - 1 \in Nat BY DEF Without
<1>2. /\ Without(s, k) \in Seq(S)
      /\ Len(Without(s, k)) = Len(s) - 1
      /\ DOMAIN Without(s, k) = 1 .. Len(s) - 1
  BY <1>1
<1>3. ASSUME NEW i \in 1 .. Len(s) - 1 PROVE Without(s, k)[i] \in Members(s) \ {s[k]}
  <2>1. CASE i < k
    <3>1. Without(s, k)[i] = s[i] /\ i # k BY <2>1 DEF Without
    <3> QED BY <3>1 DEF Members, Once
  <2>2. CASE ~(i < k)
    <3>1. Without(s, k)[i] = s[i + 1] /\ i + 1 # k /\ i + 1 \in 1 .. Len(s) BY <2>2 DEF Without
    <3> QED BY <3>1 DEF Members, Once
  <2> QED BY <2>1, <2>2
<1>4. ASSUME NEW i \in DOMAIN s, i # k PROVE s[i] \in Members(Without(s, k))
  <2>1. CASE i < k
    <3>1. i \in 1 .. Len(s) - 1 /\ Without(s, k)[i] = s[i] BY <2>1 DEF Without
    <3> QED BY <1>2, <3>1 DEF Members
  <2>2. CASE ~(i < k)
    <3>1. i - 1 \in 1 .. Len(s) - 1 /\ Without(s, k)[i - 1] = s[i] BY <1>4, <2>2 DEF Without
    <3> QED BY <1>2, <3>1 DEF Members
  <2> QED BY <2>1, <2>2
<1>5. Members(Without(s, k)) \subseteq Members(s) \ {s[k]} BY <1>2, <1>3 DEF Members
<1>6. Members(s) \ {s[k]} \subseteq Members(Without(s, k)) BY <1>4 DEF Members
<1> QED BY <1>2, <1>5, <1>6

LEMMA ChainPrepended ==
  ASSUME NEW S, NEW s, NEW head, NEW links, NEW links2, NEW nothing, NEW x \in S,
         IsChain(s, S, head, links, nothing), x \notin Members(s),
         links2[x] = head, \A y \in Members(s) : links2[y] = links[y]
  PROVE  IsChain(Prepended(x, s), S, x, links2, nothing)
<1> DEFINE p == Prepended(x, s)
<1>1. /\ s \in Seq(S) /\ nothing \notin S /\ Once(s) /\ head = FirstOf(s, nothing)
      /\ \A i \in 1 .. Len(s) : links[s[i]] = Follower(s, i, nothing)
  BY DEF IsChain
<1>2. p \in Seq(S) /\ Len(p) = Len(s) + 1 /\ DOMAIN p = 1 .. Len(s) + 1 BY <1>1, PrependedIs
<1>3. \A i \in 1 .. Len(s) + 1 : p[i] = IF i = 1 THEN x ELSE s[i - 1] BY DEF Prepended
<1>4. p # << >> BY <1>1, <1>2
<1> HIDE DEF p
<1>5. \A i \in 1 .. Len(s) : s[i] # x BY <1>1 DEF Members
<1>6. Once(p)
  <2> SUFFICES ASSUME NEW i \in 1 .. Len(s) + 1, NEW j \in 1 .. Len(s) + 1, p[i] = p[j] PROVE i = j
    BY <1>2 DEF Once
  <2>1. CASE i = 1 \/ j = 1 BY <1>1, <1>3, <1>5, <2>1
  <2>2. CASE i # 1 /\ j # 1
    <3>1. i - 1 \in DOMAIN s /\ j - 1 \in DOMAIN s /\ s[i - 1] = s[j - 1] BY <1>1, <1>3, <2>2
    <3>2. i - 1 = j - 1 BY <1>1, <3>1 DEF Once
    <3> QED BY <1>1, <3>2
  <2> QED BY <2>1, <2>2
<1>7. ASSUME NEW i \in 1 .. Len(p) PROVE links2[p[i]] = Follower(p, i, nothing)
  <2>1. CASE i = 1
    <3>1. links2[p[i]] = FirstOf(s, nothing) BY <1>1, <1>2, <1>3, <2>1
    <3>2. CASE s = << >> BY <1>2, <2>1, <3>1, <3>2 DEF FirstOf, Follower
    <3>3. CASE s # << >>
      <4>1. Len(s) > 0 BY <1>1, <3>3
      <4>2. i + 1 \in 1 .. Len(s) + 1 /\ i # Len(p) /\ p[i + 1] = s[1] BY <1>1, <1>2, <1>3, <2>1, <4>1
      <4> QED BY <3>1, <3>3, <4>2 DEF FirstOf, Follower
    <3> QED BY <3>2, <3>3
  <2>2. CASE i # 1
    <3>1. i - 1 \in 1 .. Len(s) /\ p[i] = s[i - 1] BY <1>1, <1>2, <1>3, <2>2
    <3>2. links2[p[i]] = Follower(s, i - 1, nothing) BY <1>1, <3>1 DEF Members
    <3>3. CASE i = Len(p)
      <4>1. i - 1 = Len(s) BY <1>1, <1>2, <3>3
      <4> QED BY <3>2, <3>3, <4>1 DEF Follower
    <3>4. CASE i # Len(p)
      <4>1. i - 1 # Len(s) /\ p[i + 1] = s[i - 1 + 1] BY <1>1, <1>2, <1>3, <3>1, <3>4
      <4> QED BY <3>2, <3>4, <4>1 DEF Follower
    <3> QED BY <3>3, <3>4
  <2> QED BY <2>1, <2>2
<1>8. x = FirstOf(p, nothing) BY <1>1, <1>3, <1>4 DEF FirstOf
<1> QED BY <1>1, <1>2, <1>6, <1>7, <1>8 DEF IsChain, p

LEMMA ChainSame ==
  ASSUME NEW S, NEW s, NEW head, NEW links, NEW links2, NEW nothing,
         IsChain(s, S, head, links, nothing), \A y \in Members(s) : links2[y] = links[y]
  PROVE  IsChain(s, S, head, links2, nothing)
  BY DEF IsChain, Members

LEMMA ChainWithout ==
  ASSUME NEW S, NEW s, NEW head, NEW links, NEW links2, NEW nothing,
         IsChain(s, S, head, links, nothing), NEW k \in 1 .. Len(s),
         \A i \in 1 .. Len(s) : i # k => links2[s[i]] = IF i = k - 1 THEN links[s[k]] ELSE links[s[i]]
  PROVE  IsChain(Without(s, k), S, IF k = 1 THEN links[s[k]] ELSE head, links2, nothing)
<1> DEFINE w == Without(s, k)
           h == IF k = 1 THEN links[s[k]] ELSE head
<1>1. /\ s \in Seq(S) /\ nothing \notin S /\ Once(s) /\ head = FirstOf(s, nothing)
      /\ \A i \in 1 .. Len(s) : links[s[i]] = Follower(s, i, nothing)
  BY DEF IsChain
<1>2. w \in Seq(S) /\ Len(w) = Len(s) - 1 /\ DOMAIN w = 1 .. Len(s) - 1 BY <1>1, WithoutIs
<1>3. \A i \in 1 .. Len(s) - 1 : w[i] = IF i < k THEN s[i] ELSE s[i + 1] BY DEF Without
<1>4. Len(s) \in Nat /\ DOMAIN s = 1 .. Len(s) /\ k \in Nat /\ s # << >> BY <1>1
<1> HIDE DEF w
<1>5. Once(w)
  <2> SUFFICES ASSUME NEW i \in 1 .. Len(s) - 1, NEW j \in 1 .. Len(s) - 1, w[i] = w[j] PROVE i = j
    BY <1>2 DEF Once
  <2> DEFINE I == IF i < k THEN i ELSE i + 1
             J == IF j < k THEN j ELSE j + 1
  <2>1. I \in DOMAIN s /\ J \in DOMAIN s /\ s[I] = s[J] BY <1>3, <1>4
  <2>2. I = J BY <1>1, <2>1 DEF Once
  <2> QED BY <1>4, <2>2
<1>6. h = FirstOf(w, nothing)
  <2>1. CASE k = 1
    <3>1. h = Follower(s, 1, nothing) BY <1>1, <2>1
    <3>2. CASE Len(s) = 1
      <4>1. w = << >> BY <1>2, <3>2
      <4> QED BY <3>1, <3>2, <4>1 DEF FirstOf, Follower
    <3>3. CASE Len(s) # 1
      <4>1. w # << >> /\ w[1] = s[1 + 1] /\ 1 # Len(s) BY <1>2, <1>3, <1>4, <2>1, <3>3
      <4> QED BY <3>1, <4>1 DEF FirstOf, Follower
    <3> QED BY <3>2, <3>3
  <2>2. CASE k # 1
    <3>1. w # << >> /\ w[1] = s[1] BY <1>2, <1>3, <1>4, <2>2
    <3> QED BY <1>1, <1>4, <2>2, <3>1 DEF FirstOf
  <2> QED BY <2>1, <2>2
<1>7. ASSUME NEW i \in 1 .. Len(w) PROVE links2[w[i]] = Follower(w, i, nothing)
  <2>0. i \in 1 .. Len(s) - 1 BY <1>2
  <2>1. CASE i < k - 1
    <3>1. /\ w[i] = s[i] /\ i \in 1 .. Len(s) /\ i # k /\ i # k - 1
          /\ i # Len(s) /\ i # Len(w) /\ w[i + 1] = s[i + 1]
      BY <1>2, <1>3, <1>4, <2>0, <2>1
    <3>2. links2[w[i]] = Follower(s, i, nothing) BY <1>1, <3>1
    <3> QED BY <3>1, <3>2 DEF Follower
  <2>2. CASE i = k - 1
    <3>1. w[i] = s[i] /\ i \in 1 .. Len(s) /\ i # k BY <1>2, <1>3, <1>4, <2>0, <2>2
    <3>2. links2[w[i]] = Follower(s, k, nothing) BY <1>1, <2>2, <3>1
    <3>3. CASE k = Len(s)
      <4>1. i = Len(w) BY <1>2, <1>4, <2>2, <3>3
      <4> QED BY <3>2, <3>3, <4>1 DEF Follower
    <3>4. CASE k # Len(s)
      <4>1. i # Len(w) /\ w[i + 1] = s[k + 1] BY <1>2, <1>3, <1>4, <2>0, <2>2, <3>4
      <4> QED BY <3>2, <3>4, <4>1 DEF Follower
    <3> QED BY <3>3, <3>4
  <2>3. CASE i > k - 1
    <3>1. w[i] = s[i + 1] /\ i + 1 \in 1 .. Len(s) /\ i + 1 # k /\ i + 1 # k - 1
      BY <1>2, <1>3, <1>4, <2>0, <2>3
    <3>2. links2[w[i]] = Follower(s, i + 1, nothing) BY <1>1, <3>1
    <3>3. CASE i + 1 = Len(s)
      <4>1. i = Len(w) BY <1>2, <1>4, <3>3
      <4> QED BY <3>2, <3>3, <4>1 DEF Follower
    <3>4. CASE i + 1 # Len(s)
      <4>1. i # Len(w) /\ w[i + 1] = s[i + 1 + 1] BY <1>2, <1>3, <1>4, <2>0, <2>3, <3>4
      <4> QED BY <3>2, <3>4, <4>1 DEF Follower
    <3> QED BY <3>3, <3>4
  <2> QED BY <1>4, <2>0, <2>1, <2>2, <2>3
<1> QED BY <1>1, <1>2, <1>5, <1>6, <1>7 DEF IsChain, w

\* The members of s from c on.
Ahead(s, c) == {s[j] : j \in {j \in DOMAIN s : \E i \in 1 .. j : s[i] = c}}

LEMMA AheadIs ==
  ASSUME NEW S, NEW s \in Seq(S), NEW c, NEW t
  PROVE  t \in Ahead(s, c) <=> \E i, j \in 1 .. Len(s) : i <= j /\ s[i] = c /\ s[j] = t
<1>1. DOMAIN s = 1 .. Len(s) /\ Len(s) \in Nat OBVIOUS
<1>2. ASSUME t \in Ahead(s, c)
      PROVE  \E i, j \in 1 .. Len(s) : i <= j /\ s[i] = c /\ s[j] = t
  <2>1. PICK j \in DOMAIN s : s[j] = t /\ \E i \in 1 .. j : s[i] = c BY <1>2 DEF Ahead
  <2>2. PICK i \in 1 .. j : s[i] = c BY <2>1
  <2>3. i \in 1 .. Len(s) /\ j \in 1 .. Len(s) /\ i <= j BY <1>1, <2>1, <2>2
  <2> QED BY <2>1, <2>2, <2>3
<1>3. ASSUME NEW i \in 1 .. Len(s), NEW j \in 1 .. Len(s), i <= j, s[i] = c, s[j] = t
      PROVE  t \in Ahead(s, c)
  <2>1. i \in 1 .. j /\ j \in DOMAIN s BY <1>1, <1>3
  <2> QED BY <1>3, <2>1 DEF Ahead
<1> QED BY <1>2, <1>3

\* One link along, only the member left behind is no longer ahead.
LEMMA AheadOfFollower ==
  ASSUME NEW S, NEW s \in Seq(S), NEW nothing, NEW i \in 1 .. Len(s), Once(s)
  PROVE  Ahead(s, s[i]) \ {s[i]} \subseteq Ahead(s, Follower(s, i, nothing))
<1> SUFFICES ASSUME NEW t \in Ahead(s, s[i]), t # s[i]
             PROVE  t \in Ahead(s, Follower(s, i, nothing))
  OBVIOUS
<1>1. PICK h, j \in 1 .. Len(s) : h <= j /\ s[h] = s[i] /\ s[j] = t BY AheadIs
<1>2. DOMAIN s = 1 .. Len(s) /\ Len(s) \in Nat OBVIOUS
<1>3. h = i BY <1>1, <1>2 DEF Once
<1>4. i < j
  <2>1. i <= j /\ i # j BY <1>1, <1>3
  <2> QED BY <2>1
<1>5. i + 1 \in 1 .. Len(s) /\ i + 1 <= j /\ i # Len(s)
  <2>1. ASSUME NEW n \in Nat, NEW a \in 1 .. n, NEW b \in 1 .. n, a < b
        PROVE  a + 1 \in 1 .. n /\ a + 1 <= b /\ a # n
    BY <2>1
  <2> QED BY <1>2, <1>4, <2>1
<1>6. Follower(s, i, nothing) = s[i + 1] BY <1>5 DEF Follower
<1> QED BY <1>1, <1>5, <1>6, AheadIs

LEMMA AheadOfFirst ==
  ASSUME NEW S, NEW s \in Seq(S), NEW nothing
  PROVE  Members(s) \subseteq Ahead(s, FirstOf(s, nothing))
<1> SUFFICES ASSUME NEW t \in Members(s) PROVE t \in Ahead(s, FirstOf(s, nothing))
  OBVIOUS
<1>1. DOMAIN s = 1 .. Len(s) /\ Len(s) \in Nat OBVIOUS
<1>2. PICK j \in 1 .. Len(s) : s[j] = t BY <1>1 DEF Members
<1>3. 1 \in 1 .. Len(s) /\ 1 <= j /\ s # << >> BY <1>1, <1>2
<1>4. FirstOf(s, nothing) = s[1] BY <1>3 DEF FirstOf
<1> QED BY <1>2, <1>3, <1>4, AheadIs

LEMMA AheadPrepended ==
  ASSUME NEW S, NEW s \in Seq(S), NEW x \in S, NEW c
  PROVE  Ahead(s, c) \subseteq Ahead(Prepended(x, s), c)
<1> SUFFICES ASSUME NEW t \in Ahead(s, c) PROVE t \in Ahead(Prepended(x, s), c)
  OBVIOUS
<1>1. PICK i, j \in 1 .. Len(s) : i <= j /\ s[i] = c /\ s[j] = t BY AheadIs
<1> DEFINE p == Prepended(x, s)
<1>2. p \in Seq(S) /\ Len(p) = Len(s) + 1 /\ Len(s) \in Nat BY PrependedIs
<1>3. i + 1 \in 1 .. Len(p) /\ j + 1 \in 1 .. Len(p) /\ i + 1 <= j + 1 BY <1>1, <1>2
<1>4. p[i + 1] = s[i] /\ p[j + 1] = s[j] BY <1>1, <1>2, <1>3 DEF Prepended
<1> HIDE DEF p
<1>5. t \in Ahead(p, c) BY <1>1, <1>2, <1>3, <1>4, AheadIs
<1> QED BY <1>5 DEF p

LEMMA AheadWithout ==
  ASSUME NEW S, NEW s \in Seq(S), Once(s), NEW k \in 1 .. Len(s), NEW c, c # s[k]
  PROVE  Ahead(s, c) \ {s[k]} \subseteq Ahead(Without(s, k), c)
<1> SUFFICES ASSUME NEW t \in Ahead(s, c), t # s[k] PROVE t \in Ahead(Without(s, k), c)
  OBVIOUS
<1>1. PICK i, j \in 1 .. Len(s) : i <= j /\ s[i] = c /\ s[j] = t BY AheadIs
<1> DEFINE w == Without(s, k)
           Moved(n) == IF n < k THEN n ELSE n - 1
<1>2. w \in Seq(S) /\ Len(w) = Len(s) - 1 /\ Len(s) \in Nat BY WithoutIs
<1>3. ASSUME NEW n \in 1 .. Len(s), n # k
      PROVE  Moved(n) \in 1 .. Len(w) /\ w[Moved(n)] = s[n]
  <2>1. Moved(n) \in 1 .. Len(s) - 1 BY <1>2, <1>3
  <2>2. w[Moved(n)] = IF Moved(n) < k THEN s[Moved(n)] ELSE s[Moved(n) + 1] BY <2>1 DEF Without
  <2>3. CASE n < k BY <1>2, <2>1, <2>2, <2>3
  <2>4. CASE n > k
    <3>1. Moved(n) = n - 1 /\ ~(n - 1 < k) /\ n - 1 + 1 = n BY <2>4
    <3> QED BY <1>2, <2>1, <2>2, <3>1
  <2> QED BY <1>3, <2>3, <2>4
<1>4. i # k /\ j # k BY <1>1
<1>5. Moved(i) <= Moved(j) BY <1>1, <1>4
<1>6. /\ Moved(i) \in 1 .. Len(w) /\ w[Moved(i)] = s[i]
      /\ Moved(j) \in 1 .. Len(w) /\ w[Moved(j)] = s[j]
  BY <1>1, <1>3, <1>4
<1> HIDE DEF w, Moved
<1>7. t \in Ahead(w, c) BY <1>1, <1>2, <1>5, <1>6, AheadIs
<1> QED BY <1>7 DEF w
===============================================================================
