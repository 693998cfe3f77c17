--------------------------- MODULE LibraryProofs ---------------------------
(***************************************************************************)
(* What holds of the HTTP client, the log, the socket table, the JSON      *)
(* objects and Protocol Buffers for any values of their bounds.            *)
(***************************************************************************)
EXTENDS Http, LogRing, Sockets, JsonTree, Protobuf, Chains, FiniteSetTheorems, SequenceTheorems

-----------------------------------------------------------------------------
(***************************************************************************)
(* The HTTP client.                                                        *)
(***************************************************************************)
HttpInv == /\ at_step \in OnItsWay \cup {"none", "made", "over", "crashed"}
           /\ chunks \in Nat /\ requests \in Nat /\ (at_step # "none" => requests > 0)
           /\ heap \subseteq (1 .. requests) \X {"request", "host", "path", "body", "header", "response"}
           /\ sockfd <=> at_step \in OnItsWay
           /\ \A block \in heap : \/ block[2] \in {"host", "path"}
                                  \/ at_step # "none" /\ block[1] = requests
           /\ at_step # "none" => (<<requests, "response">> \in heap <=> chunks > 0)
           /\ status_code # 0 => chunks > 0 \/ failed
           /\ at_step = "none" => returned = -1 \/ returned = status_code

\* A request begins with no response, above what the earlier ones left.
LEMMA RequestCreateInv ==
  ASSUME HttpInv, NEW extras \in SUBSET SUBSET {"body", "header"}, RequestCreate(extras)
  PROVE  HttpInv'
<1> DEFINE Labels == {"request", "host", "path", "body", "header", "response"}
<1>1. PICK names \in ParseUrl, more \in extras :
        heap' = heap \cup ({requests'} \X ({"request"} \cup names \cup more))
  BY DEF RequestCreate
<1>2. /\ at_step = "none" /\ at_step' = "made" /\ requests' = requests + 1
      /\ chunks' = 0 /\ status_code' = 0 /\ sockfd' = sockfd
  BY DEF RequestCreate
<1>3. /\ requests \in Nat /\ heap \subseteq (1 .. requests) \X Labels
      /\ \A block \in heap : block[2] \in {"host", "path"}
      /\ sockfd = FALSE
  BY <1>2 DEF HttpInv, OnItsWay
<1>4. {"request"} \cup names \cup more \subseteq Labels \ {"response"} BY DEF ParseUrl
<1>5. requests' \in 1 .. requests' /\ requests' \in Nat /\ 1 .. requests \subseteq 1 .. requests'
  BY <1>2, <1>3
<1>6. heap' \subseteq (1 .. requests') \X Labels BY <1>1, <1>3, <1>4, <1>5
<1>7. ASSUME NEW block \in heap'
      PROVE  block[2] \in {"host", "path"} \/ block[1] = requests'
  BY <1>1, <1>3, <1>7
<1>8. <<requests', "response">> \notin heap'
  <2>1. <<requests', "response">> \notin heap BY <1>3
  <2>2. <<requests', "response">> \notin {requests'} \X ({"request"} \cup names \cup more) BY <1>4
  <2> QED BY <1>1, <2>1, <2>2
<1> QED BY <1>2, <1>3, <1>5, <1>6, <1>7, <1>8 DEF HttpInv, OnItsWay

LEMMA HttpStepInv == HttpInv /\ [HttpNext]_httpVars => HttpInv'
<1> SUFFICES ASSUME HttpInv, [HttpNext]_httpVars PROVE HttpInv'
  OBVIOUS
<1>1. CASE HttpGet BY <1>1, RequestCreateInv DEF HttpGet
<1>2. CASE HttpPost BY <1>2, RequestCreateInv DEF HttpPost
<1>3. ASSUME NEW step \in OnItsWay, at_step \in OnItsWay, Proceed(step) PROVE HttpInv'
  BY <1>3 DEF HttpInv, OnItsWay, Proceed, requestVars
<1>4. ASSUME at_step \in OnItsWay, GiveUp PROVE HttpInv'
  BY <1>4 DEF HttpInv, OnItsWay, GiveUp
<1>5. CASE RequestFails BY <1>5 DEF HttpInv, OnItsWay, RequestFails
<1>6. CASE RequestSend BY <1>6 DEF HttpInv, OnItsWay, RequestSend
<1>7. CASE ResolveHost \/ ConnectToServer \/ AwaitConnection \/ CheckConnection \/ SendRequestLine \/ SendHostHeader
  BY <1>3, <1>4, <1>7
  DEF OnItsWay, ResolveHost, ConnectToServer, AwaitConnection, CheckConnection, SendRequestLine, SendHostHeader
<1>8. CASE SendHeaders \/ SendContentLength \/ SendEndOfHeaders \/ SendBody \/ ReceiveFails
  BY <1>3, <1>4, <1>8
  DEF OnItsWay, SendHeaders, SendContentLength, SendEndOfHeaders, SendBody, ReceiveFails
<1>9. CASE ReceiveChunk
  <2>1. /\ at_step = "receive" /\ chunks' = chunks + 1 /\ heap' = heap \cup {<<requests, "response">>}
        /\ UNCHANGED <<at_step, sockfd, failed, returned, requests>>
    BY <1>9 DEF ReceiveChunk
  <2>2. requests \in 1 .. requests
    <3>1. requests \in Nat /\ requests > 0 BY <2>1 DEF HttpInv
    <3> QED BY <3>1
  <2> QED BY <2>1, <2>2 DEF HttpInv, OnItsWay
<1>10. CASE ChunkDropped BY <1>10 DEF HttpInv, OnItsWay, ChunkDropped
<1>11. CASE PeerCloses BY <1>11 DEF HttpInv, OnItsWay, PeerCloses, requestVars
<1>12. CASE FinishRequest
  <2>1. /\ at_step = "over" /\ at_step' = "none" /\ UNCHANGED <<sockfd, chunks, status_code, failed, requests>>
        /\ returned' = status_code
        /\ heap' = heap \ ({requests} \X {"request", "header", "body", "response"})
    BY <1>12 DEF FinishRequest, RequestDestroy
  <2>2. ASSUME NEW block \in heap' PROVE block[2] \in {"host", "path"}
    BY <2>1, <2>2 DEF HttpInv
  <2> QED BY <2>1, <2>2 DEF HttpInv, OnItsWay
<1>13. CASE FinishEmpty BY <1>13 DEF HttpInv, OnItsWay, FinishEmpty, Proceed, requestVars
<1>14. CASE UNCHANGED httpVars BY <1>14 DEF HttpInv, OnItsWay, httpVars, requestVars
<1> QED
  BY <1>1, <1>2, <1>5, <1>6, <1>7, <1>8, <1>9, <1>10, <1>11, <1>12, <1>13, <1>14 DEF HttpNext

\* Whichever step fails, the socket is closed and no block but host and path stays.
THEOREM RequestsRelease == HttpSpec => []HttpReleases
<1>1. HttpInit => HttpInv BY DEF HttpInit, HttpInv, OnItsWay
<1>2. HttpInv => HttpReleases BY DEF HttpInv, HttpReleases, Owned
<1>3. QED BY <1>1, <1>2, HttpStepInv, PTL DEF HttpSpec
-----------------------------------------------------------------------------
(***************************************************************************)
(* The log.  As long as nothing is muddled one writer at most is in        *)
(* mp_log, its byte is at log_head once stored, and what is unread lies    *)
(* from log_tail on.                                                       *)
(***************************************************************************)
Indices == 0 .. RingSize - 1
Bytes == (Writers \X Int) \cup {<< >>}

\* The number of bytes from log_tail up to log_head, and the place of the n-th.
Pending == IF log_head >= log_tail THEN log_head - log_tail ELSE log_head - log_tail + RingSize
Place(n) == IF log_tail + n - 1 < RingSize THEN log_tail + n - 1 ELSE log_tail + n - 1 - RingSize

LogTypes == /\ log_head \in Indices /\ log_tail \in Indices
            /\ log_buffer \in [Indices -> Bytes] /\ unread \in Seq(Bytes)
            /\ copying \in [Writers -> Int] /\ stored \in [Writers -> BOOLEAN]
            /\ muddled \in BOOLEAN

OneWriter == \A v, w \in Writers : copying[v] # -1 /\ copying[w] # -1 => v = w
AtHead == \A w \in Writers : stored[w] =>
            copying[w] # -1 /\ copying[w] # EntryBytes /\ log_buffer[log_head] = LogByte(w, copying[w])
FromTail == Len(unread) = Pending /\ \A n \in 1 .. Pending : unread[n] = log_buffer[Place(n)]

LogInv == LogTypes /\ (~muddled => OneWriter /\ AtHead /\ FromTail)

\* The ring's arithmetic without its remainders.
LEMMA Remainder ==
  ASSUME NEW R \in Nat \ {0}, NEW x \in 0 .. R - 1
  PROVE  x % R = x /\ (x + R) % R = x /\ (x - R) % R = x
<1>1. x % R = x OBVIOUS
<1>2. (x + R) % R = x OBVIOUS
<1>3. (x - R) % R = x OBVIOUS
<1>4. QED BY <1>1, <1>2, <1>3

LEMMA RingArithmetic ==
  ASSUME LogTypes
  PROVE  /\ RingSize \in Nat /\ RingSize > 0
         /\ log_head \in 0 .. RingSize - 1 /\ log_tail \in 0 .. RingSize - 1
         /\ \A i \in Indices : /\ RingAfter(i) = IF i = RingSize - 1 THEN 0 ELSE i + 1
                               /\ RingAfter(i) \in Indices
         /\ (log_head - log_tail) % RingSize = Pending /\ Pending \in 0 .. RingSize - 1
         /\ \A n \in 1 .. Pending : /\ (log_tail + n - 1) % RingSize = Place(n)
                                    /\ Place(n) \in Indices /\ Place(n) # log_head
<1>1. /\ RingSize \in Nat \ {0} /\ RingSize > 0
      /\ log_head \in 0 .. RingSize - 1 /\ log_tail \in 0 .. RingSize - 1
  BY RingSizeAssumption DEF LogTypes, Indices
<1>2. ASSUME NEW i \in Indices
      PROVE  /\ RingAfter(i) = IF i = RingSize - 1 THEN 0 ELSE i + 1
             /\ RingAfter(i) \in Indices
  <2>1. CASE i = RingSize - 1
    <3>1. (0 + RingSize) % RingSize = 0 BY <1>1, Remainder
    <3>2. QED BY <1>1, <2>1, <3>1 DEF RingAfter, Indices
  <2>2. CASE i # RingSize - 1
    <3>1. i + 1 \in 0 .. RingSize - 1 BY <1>1, <2>2 DEF Indices
    <3>2. (i + 1) % RingSize = i + 1 BY <1>1, <3>1, Remainder
    <3>3. QED BY <2>2, <3>1, <3>2 DEF RingAfter, Indices
  <2>3. QED BY <2>1, <2>2
<1>3. Pending \in 0 .. RingSize - 1 BY <1>1 DEF Pending
<1>4. (log_head - log_tail) % RingSize = Pending
  <2>1. CASE log_head >= log_tail
    <3>1. Pending = log_head - log_tail BY <2>1 DEF Pending
    <3>2. QED BY <1>1, <1>3, <3>1, Remainder
  <2>2. CASE ~(log_head >= log_tail)
    <3>1. log_head - log_tail = Pending - RingSize BY <1>1, <2>2 DEF Pending
    <3>2. (Pending - RingSize) % RingSize = Pending BY <1>1, <1>3, Remainder
    <3>3. QED BY <3>1, <3>2
  <2>3. QED BY <2>1, <2>2
<1>5. ASSUME NEW n \in 1 .. Pending
      PROVE  /\ (log_tail + n - 1) % RingSize = Place(n)
             /\ Place(n) \in Indices /\ Place(n) # log_head
  <2>1. n \in 1 .. RingSize - 1 BY <1>1, <1>3
  <2>2. Place(n) \in 0 .. RingSize - 1 /\ Place(n) # log_head
    BY <1>1, <2>1 DEF Place, Pending
  <2>3. CASE log_tail + n - 1 < RingSize
    <3>1. Place(n) = log_tail + n - 1 BY <2>3 DEF Place
    <3>2. Place(n) % RingSize = Place(n) BY <1>1, <2>2, Remainder
    <3>3. QED BY <2>2, <3>1, <3>2 DEF Indices
  <2>4. CASE ~(log_tail + n - 1 < RingSize)
    <3>1. log_tail + n - 1 = Place(n) + RingSize BY <1>1, <2>1, <2>4 DEF Place
    <3>2. (Place(n) + RingSize) % RingSize = Place(n) BY <1>1, <2>2, Remainder
    <3>3. QED BY <2>2, <3>1, <3>2 DEF Indices
  <2>5. QED BY <2>3, <2>4
<1>6. QED BY <1>1, <1>2, <1>3, <1>4, <1>5

\* The ring as its head or its tail moves on.
LEMMA RingMoves ==
  ASSUME LogTypes
  PROVE  /\ log_tail' = log_tail /\ log_head' = RingAfter(log_head) /\ log_head' # log_tail
              => Pending' = Pending + 1 /\ Place(Pending + 1) = log_head
         /\ log_head' = log_head /\ log_tail' = RingAfter(log_tail) /\ log_tail # log_head
              => /\ Pending' = Pending - 1 /\ Pending >= 1 /\ Place(1) = log_tail
                 /\ \A n \in 1 .. Pending - 1 : Place(n)' = Place(n + 1)
<1>1. /\ RingSize \in Nat /\ RingSize > 0
      /\ log_head \in 0 .. RingSize - 1 /\ log_tail \in 0 .. RingSize - 1
      /\ RingAfter(log_head) = IF log_head = RingSize - 1 THEN 0 ELSE log_head + 1
      /\ RingAfter(log_tail) = IF log_tail = RingSize - 1 THEN 0 ELSE log_tail + 1
      /\ Pending \in 0 .. RingSize - 1
  BY RingArithmetic DEF Indices
<1>2. ASSUME log_tail' = log_tail, log_head' = RingAfter(log_head), log_head' # log_tail
      PROVE  Pending' = Pending + 1 /\ Place(Pending + 1) = log_head
  BY <1>1, <1>2 DEF Pending, Place
<1>3. ASSUME log_head' = log_head, log_tail' = RingAfter(log_tail), log_tail # log_head
      PROVE  /\ Pending' = Pending - 1 /\ Pending >= 1 /\ Place(1) = log_tail
             /\ \A n \in 1 .. Pending - 1 : Place(n)' = Place(n + 1)
  <2>1. Pending' = Pending - 1 /\ Pending >= 1 /\ Place(1) = log_tail
    BY <1>1, <1>3 DEF Pending, Place
  <2>2. ASSUME NEW n \in 1 .. Pending - 1 PROVE Place(n)' = Place(n + 1)
    <3>1. n \in 1 .. RingSize - 2 BY <1>1
    <3>2. QED BY <1>1, <1>3, <3>1 DEF Place
  <2>3. QED BY <2>1, <2>2
<1>4. QED BY <1>2, <1>3

LEMMA TailOf ==
  ASSUME NEW S, NEW s \in Seq(S), s # << >>
  PROVE  Tail(s) \in Seq(S)
OBVIOUS

LEMMA LogStepInv == LogInv /\ [LogNext]_logVars => LogInv'
<1> SUFFICES ASSUME LogInv, [LogNext]_logVars PROVE LogInv'
  OBVIOUS
<1> USE DEF LogInv
<1>1. ASSUME NEW w \in Writers, LogCall(w) PROVE LogInv'
  <2>1. /\ copying' \in [Writers -> Int]
        /\ \A v \in Writers : copying'[v] = IF v = w THEN 0 ELSE copying[v]
    BY <1>1 DEF LogCall, LogTypes
  <2>2. muddled' \in BOOLEAN /\ (~muddled' => ~muddled /\ \A v \in Writers : copying[v] = -1)
    BY <1>1 DEF LogCall, LogTypes
  <2>3. UNCHANGED <<log_buffer, log_head, log_tail, stored, unread>> BY <1>1 DEF LogCall
  <2>4. LogTypes' BY <2>1, <2>2, <2>3 DEF LogTypes
  <2>5. ~muddled' => OneWriter' BY <2>1, <2>2 DEF OneWriter
  <2>6. ~muddled' => AtHead' BY <2>1, <2>2, <2>3 DEF AtHead
  <2>7. ~muddled' => FromTail' BY <2>2, <2>3 DEF FromTail, Pending, Place
  <2>8. QED BY <2>4, <2>5, <2>6, <2>7
<1>2. ASSUME NEW w \in Writers, LogStore(w) PROVE LogInv'
  <2>1. UNCHANGED <<log_head, log_tail, copying, unread, muddled>> BY <1>2 DEF LogStore
  <2>2. copying[w] \in 0 .. EntryBytes - 1 BY <1>2 DEF LogStore
  <2>3. /\ log_buffer' \in [Indices -> Bytes]
        /\ \A i \in Indices :
             log_buffer'[i] = IF i = log_head THEN LogByte(w, copying[w]) ELSE log_buffer[i]
    BY <1>2 DEF LogStore, LogTypes, LogByte, Bytes
  <2>4. /\ stored' \in [Writers -> BOOLEAN]
        /\ \A v \in Writers : v # w => stored'[v] = stored[v]
    BY <1>2 DEF LogStore, LogTypes
  <2>5. LogTypes' BY <2>1, <2>3, <2>4 DEF LogTypes
  <2>6. ~muddled' => OneWriter' BY <2>1 DEF OneWriter
  <2>7. ~muddled' => AtHead'
    BY <2>1, <2>2, <2>3, <2>4 DEF AtHead, OneWriter, LogTypes
  <2>8. ~muddled' => FromTail'
    <3>1. Pending' = Pending /\ \A n : Place(n)' = Place(n) BY <2>1 DEF Pending, Place
    <3>2. \A n \in 1 .. Pending : log_buffer'[Place(n)] = log_buffer[Place(n)]
      BY <2>3, RingArithmetic
    <3>3. QED BY <2>1, <3>1, <3>2 DEF FromTail
  <2>9. QED BY <2>5, <2>6, <2>7, <2>8
<1>3. ASSUME NEW w \in Writers, LogAdvance(w) PROVE LogInv'
  <2>1. UNCHANGED <<log_buffer, log_tail>> /\ stored[w] BY <1>3 DEF LogAdvance
  <2>2. log_head' = RingAfter(log_head) /\ log_head' \in Indices
    BY <1>3, RingArithmetic DEF LogAdvance, LogTypes
  <2>3. /\ copying' \in [Writers -> Int]
        /\ \A v \in Writers : copying'[v] = IF v = w THEN copying[v] + 1 ELSE copying[v]
        /\ stored' \in [Writers -> BOOLEAN]
        /\ \A v \in Writers : stored'[v] = IF v = w THEN FALSE ELSE stored[v]
    BY <1>3 DEF LogAdvance, LogTypes
  <2>4. unread' = Append(unread, LogByte(w, copying[w])) /\ LogByte(w, copying[w]) \in Bytes
    BY <1>3 DEF LogAdvance, LogByte, Bytes, LogTypes
  <2>5. muddled' \in BOOLEAN /\ (~muddled' => ~muddled /\ log_head' # log_tail)
    BY <1>3 DEF LogAdvance, LogTypes
  <2>6. unread' \in Seq(Bytes) BY <2>4 DEF LogTypes
  <2>7. LogTypes' BY <2>1, <2>2, <2>3, <2>5, <2>6 DEF LogTypes
  <2>8. ~muddled' => OneWriter'
    BY <2>1, <2>3, <2>5 DEF OneWriter, AtHead
  <2>9. ~muddled' => AtHead'
    BY <2>1, <2>3, <2>5 DEF AtHead, OneWriter
  <2>10. ASSUME ~muddled' PROVE FromTail'
    <3>1. Len(unread) = Pending /\ unread \in Seq(Bytes) BY <2>5, <2>10 DEF FromTail, LogTypes
    <3>2. Pending' = Pending + 1
      BY <2>1, <2>2, <2>5, <2>10, RingMoves
    <3>3. Len(unread') = Pending' BY <2>4, <3>1, <3>2
    <3>4. \A n : Place(n)' = Place(n) BY <2>1 DEF Place
    <3>5. Place(Pending + 1) = log_head
      BY <2>1, <2>2, <2>5, <2>10, RingMoves
    <3>6. ASSUME NEW n \in 1 .. Pending + 1 PROVE unread'[n] = log_buffer[Place(n)]
      <4>1. Pending \in Nat BY RingArithmetic
      <4>2. CASE n = Pending + 1
        <5>1. unread'[n] = LogByte(w, copying[w]) BY <2>4, <3>1, <4>2
        <5>2. log_buffer[log_head] = LogByte(w, copying[w]) BY <2>1, <2>5, <2>10 DEF AtHead
        <5>3. QED BY <3>5, <4>2, <5>1, <5>2
      <4>3. CASE n \in 1 .. Pending
        <5>1. unread'[n] = unread[n] BY <2>4, <3>1, <4>3
        <5>2. QED BY <2>5, <2>10, <4>3, <5>1 DEF FromTail
      <4>4. QED BY <4>1, <4>2, <4>3
    <3>7. QED BY <2>1, <3>2, <3>3, <3>4, <3>6 DEF FromTail
  <2>11. QED BY <2>7, <2>8, <2>9, <2>10
<1>4. ASSUME NEW w \in Writers, LogReturn(w) PROVE LogInv'
  <2>1. UNCHANGED <<log_buffer, log_head, log_tail, stored, unread, muddled>>
    BY <1>4 DEF LogReturn
  <2>2. /\ copying' \in [Writers -> Int] /\ copying[w] = EntryBytes
        /\ \A v \in Writers : copying'[v] = IF v = w THEN -1 ELSE copying[v]
    BY <1>4 DEF LogReturn, LogTypes
  <2>3. LogTypes' BY <2>1, <2>2 DEF LogTypes
  <2>4. ~muddled' => OneWriter' BY <2>1, <2>2 DEF OneWriter
  <2>5. ~muddled' => AtHead' BY <2>1, <2>2 DEF AtHead
  <2>6. ~muddled' => FromTail' BY <2>1 DEF FromTail, Pending, Place
  <2>7. QED BY <2>3, <2>4, <2>5, <2>6
<1>5. CASE Drain
  <2>1. UNCHANGED <<log_buffer, log_head, copying, stored, muddled>> /\ log_tail # log_head
    BY <1>5 DEF Drain
  <2>2. log_tail' = RingAfter(log_tail) /\ log_tail' \in Indices
    BY <1>5, RingArithmetic DEF Drain, LogTypes
  <2>3. unread' = unread \/ (unread # << >> /\ unread' = Tail(unread)) BY <1>5 DEF Drain
  <2>4. unread' \in Seq(Bytes)
    <3>1. unread \in Seq(Bytes) BY DEF LogTypes
    <3>2. QED BY ONLY <2>3, <3>1, TailOf
  <2>5. LogTypes' BY <2>1, <2>2, <2>4 DEF LogTypes
  <2>6. ASSUME ~muddled' PROVE OneWriter' /\ AtHead' BY <2>1, <2>6 DEF OneWriter, AtHead
  <2>7. ASSUME ~muddled' PROVE FromTail'
    <3>1. FromTail /\ Pending \in 1 .. RingSize - 1 /\ Place(1) = log_tail
      <4>1. FromTail BY <2>1, <2>7
      <4>2. Pending \in 0 .. RingSize - 1 BY RingArithmetic
      <4>3. Pending >= 1 /\ Place(1) = log_tail BY <2>1, <2>2, RingMoves
      <4>4. QED BY ONLY <4>1, <4>2, <4>3
    <3>2. Len(unread) = Pending /\ unread \in Seq(Bytes) BY <3>1 DEF FromTail, LogTypes
    <3>3. unread # << >> /\ Head(unread) = log_buffer[log_tail]
      BY <3>1, <3>2 DEF FromTail
    <3>4. unread' = Tail(unread) BY <1>5, <3>3 DEF Drain
    <3>5. Pending' = Pending - 1
      BY <2>1, <2>2, RingMoves
    <3>6. \A n \in 1 .. Pending - 1 : Place(n)' = Place(n + 1)
      BY <2>1, <2>2, RingMoves
    <3>7. Len(unread') = Pending - 1 /\ \A n \in 1 .. Pending - 1 : unread'[n] = unread[n + 1]
      BY <3>1, <3>2, <3>4
    <3>8. \A n \in 1 .. Pending - 1 : unread[n + 1] = log_buffer[Place(n + 1)]
      BY <3>1 DEF FromTail
    <3>9. QED BY <2>1, <3>5, <3>6, <3>7, <3>8 DEF FromTail
  <2>8. QED BY <2>5, <2>6, <2>7
<1>6. CASE UNCHANGED logVars
  BY <1>6 DEF logVars, LogTypes, OneWriter, AtHead, FromTail, Pending, Place
<1>7. QED BY <1>1, <1>2, <1>3, <1>4, <1>5, <1>6 DEF LogNext

(***************************************************************************)
(* The drain finds what was logged, in order and uncut, unless the ring    *)
(* came round or two writers met.                                          *)
(***************************************************************************)
THEOREM LogReadsBack == LogSpec => []LogInOrder
<1>1. LogInit => LogInv
  <2> SUFFICES ASSUME LogInit PROVE LogInv
    OBVIOUS
  <2> USE RingSizeAssumption DEF LogInit
  <2>1. log_head \in Indices /\ log_tail \in Indices BY DEF Indices
  <2>2. log_buffer \in [Indices -> Bytes] /\ unread \in Seq(Bytes) BY DEF Indices, Bytes
  <2>3. copying \in [Writers -> Int] /\ stored \in [Writers -> BOOLEAN] OBVIOUS
  <2>4. muddled \in BOOLEAN OBVIOUS
  <2>5. OneWriter /\ AtHead /\ FromTail BY DEF OneWriter, AtHead, FromTail, Pending
  <2>6. QED BY <2>1, <2>2, <2>3, <2>4, <2>5 DEF LogInv, LogTypes
<1>2. ASSUME LogInv PROVE LogInOrder
  <2> SUFFICES ASSUME ~muddled
               PROVE  unread = [n \in 1 .. (log_head - log_tail) % RingSize |->
                                  log_buffer[(log_tail + n - 1) % RingSize]]
    BY DEF LogInOrder
  <2>1. (log_head - log_tail) % RingSize = Pending
    BY <1>2, RingArithmetic DEF LogInv
  <2>2. \A n \in 1 .. Pending : unread[n] = log_buffer[(log_tail + n - 1) % RingSize]
    BY <1>2, RingArithmetic DEF LogInv, FromTail
  <2>3. unread \in Seq(Bytes) /\ Len(unread) = Pending
    BY <1>2 DEF LogInv, LogTypes, FromTail
  <2>4. QED BY <2>1, <2>2, <2>3
<1>3. QED BY <1>1, <1>2, LogStepInv, PTL DEF LogSpec
-----------------------------------------------------------------------------
(***************************************************************************)
(* The socket table.  As long as no two calls met in a window: one thread  *)
(* at most is between the lock's test and its release, one at most is      *)
(* about to store a descriptor, a slot in use by a call is valid and used  *)
(* by that call alone, and every descriptor is accounted for.              *)
(***************************************************************************)
Holding == {"create: find", "create: store", "close: drop"}
Inside == Holding \cup {"create: set", "close: set"}
Storing == {"create: store", "accept: store"}
Using == {"close: lock", "close: set", "close: drop", "connect: mark"}
SocketPlaces == Inside \cup Storing \cup Using \cup {"out", "create: lock"}

SocketTypes ==
  /\ at \in [SockThreads -> SocketPlaces] /\ slot \in [SockThreads -> SockSlots]
  /\ fresh \in [SockThreads -> Int] /\ fd \in [SockSlots -> Int]
  /\ open \in SUBSET Descriptors /\ connected \in SUBSET SockSlots
  /\ socket_mutex_locked \in BOOLEAN /\ raced \in BOOLEAN

OneIn == /\ \A t, u \in SockThreads : at[t] \in Inside /\ at[u] \in Inside => t = u
         /\ \A t \in SockThreads : at[t] \in Holding => socket_mutex_locked

OneStores == \A t, u \in SockThreads : at[t] \in Storing /\ at[u] \in Storing => t = u

FreshStands == \A t \in SockThreads :
  IF at[t] \in Storing
  THEN /\ fd[slot[t]] = -1 /\ fresh[t] \in open
       /\ \A s \in SockSlots : fd[s] # fresh[t]
       /\ at[t] = "accept: store" => fresh[t] \in wired
  ELSE fresh[t] = -1

UseStands == \A t \in SockThreads : at[t] \in Using =>
  /\ fd[slot[t]] # -1
  /\ \A u \in SockThreads : at[u] \in Using /\ slot[u] = slot[t] => u = t
  /\ at[t] = "connect: mark" => fd[slot[t]] \in wired

Accounted ==
  /\ \A s \in SockSlots : fd[s] \in open \cup {-1, 0}
  /\ \A d \in open : (\E s \in SockSlots : fd[s] = d) \/ (\E t \in SockThreads : fresh[t] = d)
  /\ \A r, s \in SockSlots : r # s /\ fd[r] = fd[s] => fd[r] \in {-1, 0}
  /\ wired \subseteq open
  /\ \A s \in connected : fd[s] \in wired

SocketInv == /\ SocketTypes
             /\ ~raced => OneIn /\ OneStores /\ FreshStands /\ UseStands /\ Accounted

\* What a step of a call does to at.
Arrives(t, place) == /\ at' \in [SockThreads -> SocketPlaces]
                    /\ \A u \in SockThreads : at'[u] = IF u = t THEN place ELSE at[u]

LEMMA GoesSteps ==
  ASSUME at \in [SockThreads -> SocketPlaces], NEW t \in SockThreads,
         NEW place \in SocketPlaces, Goes(t, place)
  PROVE  Arrives(t, place)
BY DEF Goes, Arrives

\* No descriptor is -1 or 0.
LEMMA DescriptorsPositive == /\ -1 \notin Descriptors /\ 0 \notin Descriptors
                             /\ \A d \in Descriptors : d \in Int /\ d # -1 /\ d # 0
BY DescriptorsAssumption

\* The mark of a free entry is a number, and writing an entry keeps a table's type.
LEMMA FreeMark == -1 \in Int
OBVIOUS

LEMMA ExceptTyped ==
  ASSUME NEW S, NEW T, NEW f \in [S -> T], NEW x, NEW v \in T
  PROVE  [f EXCEPT ![x] = v] \in [S -> T]
OBVIOUS

LEMMA SocketCallInv == ASSUME SocketInv, NEW t \in SockThreads, SocketCall(t) PROVE SocketInv'
<1>1. Arrives(t, "create: lock") /\ at[t] = "out"
  BY GoesSteps DEF SocketCall, SocketInv, SocketTypes, SocketPlaces
<1>2. UNCHANGED <<fd, connected, socket_mutex_locked, slot, fresh, open, wired, raced>>
  BY DEF SocketCall
<1>3. SocketTypes' BY <1>1, <1>2 DEF Arrives, SocketInv, SocketTypes
<1>4. ~raced' => OneIn' /\ OneStores'
  BY <1>1, <1>2 DEF Arrives, SocketInv, OneIn, OneStores, Inside, Holding, Storing
<1>5. ~raced' => FreshStands' BY <1>1, <1>2 DEF Arrives, SocketInv, FreshStands, Storing
<1>6. ~raced' => UseStands' BY <1>1, <1>2 DEF Arrives, SocketInv, UseStands, Using
<1>7. ~raced' => Accounted' BY <1>2 DEF SocketInv, Accounted
<1>8. QED BY <1>3, <1>4, <1>5, <1>6, <1>7 DEF SocketInv

LEMMA CloseCallInv ==
  ASSUME SocketInv, NEW t \in SockThreads, NEW s \in SockSlots, CloseCall(t, s)
  PROVE  SocketInv'
<1>1. Arrives(t, "close: lock") /\ at[t] = "out"
  BY GoesSteps DEF CloseCall, SocketInv, SocketTypes, SocketPlaces, Using
<1>2. /\ slot' \in [SockThreads -> SockSlots] /\ fd[s] # -1
      /\ \A u \in SockThreads : slot'[u] = IF u = t THEN s ELSE slot[u]
  BY DEF CloseCall, Valid, SocketInv, SocketTypes
<1>3. /\ raced' \in BOOLEAN
      /\ ~raced' => ~raced /\ \A u \in SockThreads \ {t} : at[u] = "out" \/ slot[u] # s
  BY DEF CloseCall, Met, Others, SocketInv, SocketTypes
<1>4. UNCHANGED <<fd, connected, socket_mutex_locked, fresh, open, wired>> BY DEF CloseCall
<1>5. SocketTypes' BY <1>1, <1>2, <1>3, <1>4 DEF Arrives, SocketInv, SocketTypes
<1>6. ~raced' => OneIn' /\ OneStores' /\ Accounted'
  <2>1. ~raced' => OneIn' /\ OneStores'
    BY <1>1, <1>3, <1>4 DEF Arrives, SocketInv, OneIn, OneStores, Inside, Holding, Storing
  <2>2. ~raced' => Accounted' BY <1>3, <1>4 DEF SocketInv, Accounted
  <2>3. QED BY <2>1, <2>2
<1>7. ~raced' => FreshStands'
  BY <1>1, <1>2, <1>3, <1>4 DEF Arrives, SocketInv, FreshStands, Storing
<1>8. ~raced' => UseStands'
  <2> SUFFICES ASSUME ~raced', NEW u \in SockThreads, at'[u] \in Using
               PROVE  /\ fd'[slot'[u]] # -1
                      /\ \A v \in SockThreads : at'[v] \in Using /\ slot'[v] = slot'[u] => v = u
                      /\ at'[u] = "connect: mark" => fd'[slot'[u]] \in wired'
    BY DEF UseStands
  <2>1. "out" \notin Using /\ "close: lock" # "connect: mark" BY DEF Using
  <2>2. UseStands BY <1>3 DEF SocketInv
  <2>3. CASE u = t
    BY <1>1, <1>2, <1>3, <1>4, <2>1, <2>3 DEF Arrives
  <2>4. CASE u # t
    <3>1. at[u] \in Using /\ at'[u] = at[u] /\ slot'[u] = slot[u] /\ slot[u] # s
      BY <1>1, <1>2, <1>3, <2>1, <2>4 DEF Arrives
    <3>2. QED BY <1>1, <1>2, <1>4, <2>2, <3>1 DEF Arrives, UseStands
  <2>5. QED BY <2>3, <2>4
<1>9. QED BY <1>5, <1>6, <1>7, <1>8 DEF SocketInv

LEMMA LockTestedInv == ASSUME SocketInv, NEW t \in SockThreads, LockTested(t) PROVE SocketInv'
<1> DEFINE From(place) == \/ place = "create: set" /\ at[t] = "create: lock"
                          \/ place = "close: set" /\ at[t] = "close: lock"
<1>1. PICK place \in {"create: set", "close: set"} : Goes(t, place) /\ From(place)
  <2>1. CASE at[t] = "create: lock" /\ Goes(t, "create: set") BY <2>1
  <2>2. CASE at[t] = "close: lock" /\ Goes(t, "close: set") BY <2>2
  <2>3. QED BY <2>1, <2>2 DEF LockTested
<1>2. Arrives(t, place)
  BY <1>1, GoesSteps DEF SocketInv, SocketTypes, SocketPlaces, Inside
<1>3. /\ raced' \in BOOLEAN /\ ~socket_mutex_locked
      /\ ~raced' => ~raced /\ \A u \in SockThreads \ {t} : at[u] \notin {"create: set", "close: set"}
  BY DEF LockTested, Met, Others, SocketInv, SocketTypes
<1>4. UNCHANGED <<fd, connected, socket_mutex_locked, slot, fresh, open, wired>> BY DEF LockTested
<1>5. SocketTypes' BY <1>2, <1>3, <1>4 DEF Arrives, SocketInv, SocketTypes
<1>6. ~raced' => OneIn' BY <1>1, <1>2, <1>3, <1>4 DEF Arrives, SocketInv, OneIn, Inside, Holding
<1>7. ~raced' => OneStores' /\ FreshStands' /\ Accounted'
  <2>1. ~raced' => OneStores' /\ FreshStands'
    BY <1>1, <1>2, <1>3, <1>4 DEF Arrives, SocketInv, OneStores, FreshStands, Storing
  <2>2. ~raced' => Accounted' BY <1>3, <1>4 DEF SocketInv, Accounted
  <2>3. QED BY <2>1, <2>2
<1>8. ~raced' => UseStands'
  <2>1. \A u \in SockThreads : /\ at'[u] \in Using => at[u] \in Using
                               /\ at'[u] = "connect: mark" => at[u] = "connect: mark"
    BY <1>1, <1>2 DEF Arrives, Using
  <2>2. QED BY <1>3, <1>4, <2>1 DEF SocketInv, UseStands
<1>9. QED BY <1>5, <1>6, <1>7, <1>8 DEF SocketInv

LEMMA LockSetInv == ASSUME SocketInv, NEW t \in SockThreads, LockSet(t) PROVE SocketInv'
<1> DEFINE From(place) == \/ place = "create: find" /\ at[t] = "create: set"
                          \/ place = "close: drop" /\ at[t] = "close: set"
<1>1. PICK place \in {"create: find", "close: drop"} : Goes(t, place) /\ From(place)
  <2>1. CASE at[t] = "create: set" /\ Goes(t, "create: find") BY <2>1
  <2>2. CASE at[t] = "close: set" /\ Goes(t, "close: drop") BY <2>2
  <2>3. QED BY <2>1, <2>2 DEF LockSet
<1>2. Arrives(t, place)
  BY <1>1, GoesSteps DEF SocketInv, SocketTypes, SocketPlaces, Inside, Holding
<1>3. UNCHANGED <<fd, connected, slot, fresh, open, wired, raced>> /\ socket_mutex_locked' = TRUE
  BY DEF LockSet
<1>4. SocketTypes' BY <1>2, <1>3 DEF Arrives, SocketInv, SocketTypes
<1>5. ~raced' => OneIn' BY <1>1, <1>2, <1>3 DEF Arrives, SocketInv, OneIn, Inside, Holding
<1>6. ~raced' => OneStores' /\ FreshStands' /\ Accounted'
  <2>1. ~raced' => OneStores' BY <1>1, <1>2, <1>3 DEF Arrives, SocketInv, OneStores, Storing
  <2>2. ~raced' => FreshStands' BY <1>1, <1>2, <1>3 DEF Arrives, SocketInv, FreshStands, Storing
  <2>3. ~raced' => Accounted' BY <1>3 DEF SocketInv, Accounted
  <2>4. QED BY <2>1, <2>2, <2>3
<1>7. ~raced' => UseStands'
  <2>1. \A u \in SockThreads : /\ at'[u] \in Using => at[u] \in Using
                               /\ at'[u] = "connect: mark" => at[u] = "connect: mark"
    BY <1>1, <1>2 DEF Arrives, Using
  <2>2. QED BY <1>3, <2>1 DEF SocketInv, UseStands
<1>8. QED BY <1>4, <1>5, <1>6, <1>7 DEF SocketInv

\* A descriptor is made for a call: for create, which holds the lock, or for accept.
LEMMA FindsInv ==
  ASSUME SocketInv, NEW t \in SockThreads, NEW place \in Storing, Arrives(t, place),
         at[t] = IF place = "create: store" THEN "create: find" ELSE "out",
         NEW s \in Free, NEW d \in Spare,
         slot' = [slot EXCEPT ![t] = s], fresh' = [fresh EXCEPT ![t] = d],
         open' = open \cup {d},
         wired' = IF place = "create: store" THEN wired ELSE wired \cup {d},
         Met(\E u \in Others(t) : at[u] \in {"create: store", "accept: store", "close: drop"}),
         UNCHANGED <<fd, connected, socket_mutex_locked>>
  PROVE  SocketInv'
<1>1. /\ slot' \in [SockThreads -> SockSlots]
      /\ \A u \in SockThreads : slot'[u] = IF u = t THEN s ELSE slot[u]
      /\ fd[s] = -1 /\ s \in SockSlots
  BY DEF SocketInv, SocketTypes, Free
<1>2. /\ fresh' \in [SockThreads -> Int]
      /\ \A u \in SockThreads : fresh'[u] = IF u = t THEN d ELSE fresh[u]
      /\ d \in Descriptors /\ d \notin open /\ d # -1 /\ d # 0
  <2>1. d \in Descriptors /\ d \notin open BY DEF Spare
  <2>2. d \in Int /\ d # -1 /\ d # 0 BY <2>1, DescriptorsPositive
  <2>3. fresh \in [SockThreads -> Int] BY DEF SocketInv, SocketTypes
  <2>4. QED BY <2>1, <2>2, <2>3
<1>3. /\ raced' \in BOOLEAN
      /\ ~raced' => ~raced /\ \A u \in SockThreads \ {t} : at[u] \notin Storing
  BY DEF Met, Others, SocketInv, SocketTypes, Storing
<1>4. SocketTypes' BY <1>1, <1>2, <1>3 DEF Arrives, SocketInv, SocketTypes
<1>5. ~raced' => OneIn' BY <1>3 DEF Arrives, SocketInv, OneIn, Inside, Holding, Storing
<1>6. ~raced' => OneStores' BY <1>3 DEF Arrives, SocketInv, OneStores, Storing
<1>7. ~raced' => UseStands' BY <1>1, <1>3 DEF Arrives, SocketInv, UseStands, Using, Storing
<1>8. ASSUME ~raced' PROVE FreshStands'
  <2>1. \A r \in SockSlots : fd[r] # d
    <3>1. Accounted BY <1>3, <1>8 DEF SocketInv
    <3>2. QED BY <1>2, <3>1 DEF Accounted
  <2>2. QED
    BY <1>1, <1>2, <1>3, <1>8, <2>1 DEF Arrives, SocketInv, FreshStands, Storing
<1>9. ASSUME ~raced' PROVE Accounted'
  <2>1. fresh[t] = -1 BY <1>3, <1>9 DEF SocketInv, FreshStands, Storing
  <2>2. ASSUME NEW e \in open'
        PROVE  (\E r \in SockSlots : fd[r] = e) \/ (\E u \in SockThreads : fresh'[u] = e)
    <3>1. CASE e = d BY <1>2, <3>1
    <3>2. CASE e \in open
      <4>1. e # -1 BY <3>2, DescriptorsPositive DEF SocketInv, SocketTypes
      <4>2. (\E r \in SockSlots : fd[r] = e) \/ (\E u \in SockThreads : fresh[u] = e)
        BY <1>3, <1>9, <3>2 DEF SocketInv, Accounted
      <4>3. QED BY <1>2, <2>1, <4>1, <4>2
    <3>3. QED BY <3>1, <3>2
  <2>3. QED BY <1>3, <1>9, <2>2 DEF SocketInv, Accounted
<1>10. QED BY <1>4, <1>5, <1>6, <1>7, <1>8, <1>9 DEF SocketInv

LEMMA CreateFindsInv == ASSUME SocketInv, NEW t \in SockThreads, CreateFinds(t) PROVE SocketInv'
<1>1. PICK s \in Free, d \in Spare :
        slot' = [slot EXCEPT ![t] = s] /\ fresh' = [fresh EXCEPT ![t] = d] /\ open' = open \cup {d}
  BY DEF CreateFinds, Lowest
<1>2. Arrives(t, "create: store")
  BY GoesSteps DEF CreateFinds, SocketInv, SocketTypes, SocketPlaces, Storing
<1>3. /\ at[t] = "create: find" /\ UNCHANGED <<fd, connected, socket_mutex_locked, wired>>
      /\ Met(\E u \in Others(t) : at[u] \in {"create: store", "accept: store", "close: drop"})
  BY DEF CreateFinds
<1>4. QED BY <1>1, <1>2, <1>3, FindsInv DEF Storing

LEMMA AcceptFindsInv ==
  ASSUME SocketInv, NEW t \in SockThreads, NEW r \in SockSlots, AcceptFinds(t, r)
  PROVE  SocketInv'
<1>1. PICK s \in Free, d \in Spare :
        /\ slot' = [slot EXCEPT ![t] = s] /\ fresh' = [fresh EXCEPT ![t] = d]
        /\ open' = open \cup {d} /\ wired' = wired \cup {d}
  BY DEF AcceptFinds, Lowest
<1>2. Arrives(t, "accept: store")
  BY GoesSteps DEF AcceptFinds, SocketInv, SocketTypes, SocketPlaces, Storing
<1>3. /\ at[t] = "out" /\ UNCHANGED <<fd, connected, socket_mutex_locked>>
      /\ Met(\E u \in Others(t) : at[u] \in {"create: store", "accept: store", "close: drop"})
  BY DEF AcceptFinds
<1>4. QED BY <1>1, <1>2, <1>3, FindsInv DEF Storing

\* The descriptor is stored; create's socket is not connected, accept's is.
LEMMA StoresInv ==
  ASSUME SocketInv, NEW t \in SockThreads, at[t] \in Storing, Arrives(t, "out"),
         fd' = [fd EXCEPT ![slot[t]] = fresh[t]], fresh' = [fresh EXCEPT ![t] = -1],
         connected' = IF at[t] = "create: store" THEN connected \ {slot[t]}
                      ELSE connected \cup {slot[t]},
         socket_mutex_locked' = IF at[t] = "create: store" THEN FALSE ELSE socket_mutex_locked,
         UNCHANGED <<slot, open, wired, raced>>
  PROVE  SocketInv'
<1>1. /\ slot[t] \in SockSlots /\ fd' \in [SockSlots -> Int]
      /\ \A s \in SockSlots : fd'[s] = IF s = slot[t] THEN fresh[t] ELSE fd[s]
  BY DEF SocketInv, SocketTypes
<1>2. /\ fresh' \in [SockThreads -> Int]
      /\ \A u \in SockThreads : fresh'[u] = IF u = t THEN -1 ELSE fresh[u]
  <2>1. fresh \in [SockThreads -> Int] BY DEF SocketInv, SocketTypes
  <2>2. fresh' = [fresh EXCEPT ![t] = -1] OBVIOUS
  <2>3. fresh' \in [SockThreads -> Int] BY <2>1, <2>2, FreeMark, ExceptTyped
  <2>4. QED BY <2>1, <2>2, <2>3
<1>3. SocketTypes'
  <2>1. socket_mutex_locked' \in BOOLEAN BY DEF SocketInv, SocketTypes
  <2>2. connected' \in SUBSET SockSlots BY <1>1 DEF SocketInv, SocketTypes
  <2>3. QED BY <1>1, <1>2, <2>1, <2>2 DEF Arrives, SocketInv, SocketTypes
<1>4. CASE raced BY <1>3, <1>4 DEF SocketInv
<1>5. CASE ~raced
  <2>1. /\ fd[slot[t]] = -1 /\ fresh[t] \in open /\ \A s \in SockSlots : fd[s] # fresh[t]
        /\ at[t] = "accept: store" => fresh[t] \in wired
        /\ fresh[t] # -1 /\ fresh[t] # 0
    BY <1>5, DescriptorsPositive DEF SocketInv, SocketTypes, FreshStands
  <2>2. OneIn' BY <1>5 DEF Arrives, SocketInv, OneIn, Inside, Holding, Storing
  <2>3. OneStores' BY <1>5 DEF Arrives, SocketInv, OneStores, Storing
  <2>4. FreshStands'
    BY <1>2, <1>5 DEF Arrives, SocketInv, OneStores, FreshStands, Storing
  <2>5. UseStands'
    BY <1>1, <1>5, <2>1 DEF Arrives, SocketInv, SocketTypes, UseStands, Using
  <2>6. Accounted'
    <3>1. \A s \in SockSlots : fd'[s] \in open \cup {-1, 0}
      BY <1>1, <1>5, <2>1 DEF SocketInv, Accounted
    <3>2. \A d \in open : \/ \E s \in SockSlots : fd'[s] = d
                          \/ \E u \in SockThreads : fresh'[u] = d
      <4>1. SUFFICES ASSUME NEW d \in open
                     PROVE  \/ \E s \in SockSlots : fd'[s] = d
                            \/ \E u \in SockThreads : fresh'[u] = d
        OBVIOUS
      <4>2. d # -1 BY DescriptorsPositive DEF SocketInv, SocketTypes
      <4>3. CASE \E s \in SockSlots : fd[s] = d BY <1>1, <2>1, <4>2, <4>3
      <4>4. CASE \E u \in SockThreads : fresh[u] = d BY <1>1, <1>2, <4>4
      <4>5. QED BY <1>5, <4>3, <4>4 DEF SocketInv, Accounted
    <3>3. \A r, s \in SockSlots : r # s /\ fd'[r] = fd'[s] => fd'[r] \in {-1, 0}
      BY <1>1, <1>5, <2>1 DEF SocketInv, Accounted
    <3>4. \A s \in connected' : fd'[s] \in wired
      BY <1>1, <1>5, <2>1 DEF SocketInv, SocketTypes, Accounted, Storing
    <3>5. QED BY <1>5, <3>1, <3>2, <3>3, <3>4 DEF SocketInv, Accounted
  <2>7. QED BY <1>3, <2>2, <2>3, <2>4, <2>5, <2>6 DEF SocketInv
<1>6. QED BY <1>4, <1>5

LEMMA CreateStoresInv == ASSUME SocketInv, NEW t \in SockThreads, CreateStores(t) PROVE SocketInv'
<1>1. Arrives(t, "out") BY GoesSteps DEF CreateStores, SocketInv, SocketTypes, SocketPlaces
<1>2. QED BY <1>1, StoresInv DEF CreateStores, Storing

LEMMA AcceptStoresInv == ASSUME SocketInv, NEW t \in SockThreads, AcceptStores(t) PROVE SocketInv'
<1>1. Arrives(t, "out") BY GoesSteps DEF AcceptStores, SocketInv, SocketTypes, SocketPlaces
<1>2. QED BY <1>1, StoresInv DEF AcceptStores, Storing

LEMMA CreateFailsInv == ASSUME SocketInv, NEW t \in SockThreads, CreateFails(t) PROVE SocketInv'
<1>1. Arrives(t, "out") /\ at[t] = "create: find"
  BY GoesSteps DEF CreateFails, SocketInv, SocketTypes, SocketPlaces
<1>2. UNCHANGED <<fd, connected, slot, fresh, open, wired, raced>> /\ socket_mutex_locked' = FALSE
  BY DEF CreateFails
<1>3. SocketTypes' BY <1>1, <1>2 DEF Arrives, SocketInv, SocketTypes
<1>4. ~raced' => OneIn' BY <1>1, <1>2 DEF Arrives, SocketInv, OneIn, Inside, Holding
<1>5. ~raced' => OneStores' /\ FreshStands' /\ Accounted'
  <2>1. ~raced' => OneStores' BY <1>1, <1>2 DEF Arrives, SocketInv, OneStores, Storing
  <2>2. ~raced' => FreshStands' BY <1>1, <1>2 DEF Arrives, SocketInv, FreshStands, Storing
  <2>3. ~raced' => Accounted' BY <1>2 DEF SocketInv, Accounted
  <2>4. QED BY <2>1, <2>2, <2>3
<1>6. ~raced' => UseStands' BY <1>1, <1>2 DEF Arrives, SocketInv, UseStands, Using
<1>7. QED BY <1>3, <1>4, <1>5, <1>6 DEF SocketInv

LEMMA CloseDropsInv == ASSUME SocketInv, NEW t \in SockThreads, CloseDrops(t) PROVE SocketInv'
<1>1. Arrives(t, "out") /\ at[t] = "close: drop"
  BY GoesSteps DEF CloseDrops, SocketInv, SocketTypes, SocketPlaces
<1>2. /\ slot[t] \in SockSlots /\ fd' \in [SockSlots -> Int]
      /\ \A s \in SockSlots : fd'[s] = IF s = slot[t] THEN -1 ELSE fd[s]
  <2>1. slot[t] \in SockSlots /\ fd \in [SockSlots -> Int] BY DEF SocketInv, SocketTypes
  <2>2. fd' = [fd EXCEPT ![slot[t]] = -1] BY DEF CloseDrops
  <2>3. QED BY <2>1, <2>2
<1>3. /\ open' = open \ {fd[slot[t]]} /\ wired' = wired \ {fd[slot[t]]}
      /\ connected' = connected \ {slot[t]} /\ socket_mutex_locked' = FALSE
      /\ UNCHANGED <<slot, fresh, raced>>
  BY DEF CloseDrops
<1>4. SocketTypes' BY <1>1, <1>2, <1>3 DEF Arrives, SocketInv, SocketTypes
<1>5. CASE raced BY <1>3, <1>4, <1>5 DEF SocketInv
<1>6. CASE ~raced
  <2>1. /\ fd[slot[t]] # -1
        /\ \A u \in SockThreads : at[u] \in Using /\ slot[u] = slot[t] => u = t
    BY <1>1, <1>6 DEF SocketInv, UseStands, Using
  <2>2. OneIn' BY <1>1, <1>3, <1>6 DEF Arrives, SocketInv, OneIn, Inside, Holding
  <2>3. OneStores' BY <1>1, <1>6 DEF Arrives, SocketInv, OneStores, Storing
  <2>4. FreshStands'
    <3>1. \A u \in SockThreads : at'[u] \in Storing <=> at[u] \in Storing
      BY <1>1 DEF Arrives, Storing
    <3>2. \A u \in SockThreads : at'[u] \in Storing => at'[u] = at[u] BY <1>1 DEF Arrives, Storing
    <3>3. FreshStands BY <1>6 DEF SocketInv
    <3>4. ASSUME NEW u \in SockThreads, at[u] \in Storing
          PROVE  /\ fd'[slot[u]] = -1 /\ fresh[u] \in open'
                 /\ \A s \in SockSlots : fd'[s] # fresh[u]
                 /\ at[u] = "accept: store" => fresh[u] \in wired'
      <4>1. /\ fd[slot[u]] = -1 /\ fresh[u] \in open
            /\ \A s \in SockSlots : fd[s] # fresh[u]
            /\ at[u] = "accept: store" => fresh[u] \in wired
        BY <3>3, <3>4 DEF FreshStands
      <4>2. slot[u] \in SockSlots /\ fresh[u] # -1
        BY <4>1, DescriptorsPositive DEF SocketInv, SocketTypes
      <4>3. fd[slot[t]] # fresh[u] BY <1>2, <4>1
      <4>4. QED BY <1>2, <1>3, <4>1, <4>2, <4>3
    <3>5. QED BY <1>3, <3>1, <3>2, <3>3, <3>4 DEF FreshStands
  <2>5. UseStands'
    <3>1. SUFFICES ASSUME NEW u \in SockThreads, at'[u] \in Using
          PROVE  /\ fd'[slot[u]] # -1
                 /\ \A v \in SockThreads : at'[v] \in Using /\ slot[v] = slot[u] => v = u
                 /\ at'[u] = "connect: mark" => fd'[slot[u]] \in wired'
      BY <1>3 DEF UseStands
    <3>2. /\ u # t /\ at[u] = at'[u] /\ at[u] \in Using /\ slot[u] \in SockSlots
          /\ \A v \in SockThreads : at'[v] \in Using => at[v] \in Using
      BY <1>1, <3>1 DEF Arrives, Using, SocketInv, SocketTypes
    <3>3. slot[u] # slot[t] /\ fd'[slot[u]] = fd[slot[u]] /\ fd[slot[u]] # -1
      BY <1>2, <1>6, <2>1, <3>2 DEF SocketInv, UseStands
    <3>4. \A v \in SockThreads : at'[v] \in Using /\ slot[v] = slot[u] => v = u
      BY <1>6, <3>2 DEF SocketInv, UseStands
    <3>5. ASSUME at[u] = "connect: mark" PROVE fd[slot[u]] \in wired'
      <4>1. fd[slot[u]] \in wired /\ fd[slot[u]] \in open
        BY <1>6, <3>2, <3>5 DEF SocketInv, UseStands, Accounted
      <4>2. fd[slot[u]] # 0 BY <4>1, DescriptorsPositive DEF SocketInv, SocketTypes
      <4>3. fd[slot[u]] # fd[slot[t]]
        BY <1>2, <1>6, <3>2, <3>3, <4>2 DEF SocketInv, Accounted
      <4>4. QED BY <1>3, <4>1, <4>3
    <3>6. QED BY <3>2, <3>3, <3>4, <3>5
  <2>6. Accounted'
    <3>1. \A s \in SockSlots : fd'[s] \in open' \cup {-1, 0}
      BY <1>2, <1>3, <1>6 DEF SocketInv, Accounted
    <3>2. \A d \in open' : \/ \E s \in SockSlots : fd'[s] = d
                           \/ \E u \in SockThreads : fresh'[u] = d
      BY <1>2, <1>3, <1>6 DEF SocketInv, Accounted
    <3>3. \A r, s \in SockSlots : r # s /\ fd'[r] = fd'[s] => fd'[r] \in {-1, 0}
      BY <1>2, <1>6 DEF SocketInv, Accounted
    <3>4. wired' \subseteq open' BY <1>3, <1>6 DEF SocketInv, Accounted
    <3>5. \A s \in connected' : fd'[s] \in wired'
      <4>1. SUFFICES ASSUME NEW s \in connected, s # slot[t] PROVE fd'[s] \in wired'
        BY <1>3
      <4>2. s \in SockSlots /\ fd'[s] = fd[s] /\ fd[s] \in wired
        BY <1>2, <1>6, <4>1 DEF SocketInv, SocketTypes, Accounted
      <4>3. fd[s] \in Descriptors BY <1>6, <4>2 DEF SocketInv, SocketTypes, Accounted
      <4>4. fd[s] # fd[slot[t]]
        BY <1>2, <1>6, <4>1, <4>2, <4>3, DescriptorsPositive DEF SocketInv, Accounted
      <4>5. QED BY <1>3, <4>2, <4>4
    <3>6. QED BY <3>1, <3>2, <3>3, <3>4, <3>5 DEF Accounted
  <2>7. QED BY <1>4, <2>2, <2>3, <2>4, <2>5, <2>6 DEF SocketInv
<1>7. QED BY <1>5, <1>6

LEMMA ConnectCallInv ==
  ASSUME SocketInv, NEW t \in SockThreads, NEW s \in SockSlots, ConnectCall(t, s)
  PROVE  SocketInv'
<1>1. Arrives(t, "connect: mark") /\ at[t] = "out"
  BY GoesSteps DEF ConnectCall, SocketInv, SocketTypes, SocketPlaces, Using
<1>2. /\ slot' \in [SockThreads -> SockSlots] /\ fd[s] # -1 /\ fd[s] \in open
      /\ \A u \in SockThreads : slot'[u] = IF u = t THEN s ELSE slot[u]
      /\ wired' = wired \cup {fd[s]}
  BY DEF ConnectCall, Valid, SocketInv, SocketTypes
<1>3. /\ raced' \in BOOLEAN
      /\ ~raced' => ~raced /\ \A u \in SockThreads \ {t} : at[u] = "out" \/ slot[u] # s
  BY DEF ConnectCall, Met, Others, SocketInv, SocketTypes
<1>4. UNCHANGED <<fd, connected, socket_mutex_locked, fresh, open>> BY DEF ConnectCall
<1>5. SocketTypes' BY <1>1, <1>2, <1>3, <1>4 DEF Arrives, SocketInv, SocketTypes
<1>6. ~raced' => OneIn' /\ OneStores'
  BY <1>1, <1>3, <1>4 DEF Arrives, SocketInv, OneIn, OneStores, Inside, Holding, Storing
<1>7. ~raced' => Accounted' BY <1>2, <1>3, <1>4 DEF SocketInv, Accounted
<1>8. ~raced' => FreshStands'
  BY <1>1, <1>2, <1>3, <1>4 DEF Arrives, SocketInv, FreshStands, Storing
<1>9. ASSUME ~raced' PROVE UseStands'
  <2>1. UseStands BY <1>3, <1>9 DEF SocketInv
  <2>2. \A u \in SockThreads \ {t} :
          at'[u] \in Using => at[u] = at'[u] /\ slot'[u] = slot[u] /\ slot[u] # s
    BY <1>1, <1>2, <1>3, <1>9 DEF Arrives, Using
  <2>3. slot'[t] = s /\ fd'[s] # -1 /\ fd'[s] \in wired' BY <1>2, <1>4
  <2>4. UNCHANGED fd /\ wired \subseteq wired' BY <1>2, <1>4
  <2>5. QED BY <2>1, <2>2, <2>3, <2>4 DEF UseStands
<1>10. QED BY <1>5, <1>6, <1>7, <1>8, <1>9 DEF SocketInv

LEMMA ConnectMarksInv == ASSUME SocketInv, NEW t \in SockThreads, ConnectMarks(t) PROVE SocketInv'
<1>1. Arrives(t, "out") /\ at[t] = "connect: mark"
  BY GoesSteps DEF ConnectMarks, SocketInv, SocketTypes, SocketPlaces
<1>2. /\ UNCHANGED <<fd, socket_mutex_locked, slot, fresh, open, wired, raced>>
      /\ connected' = connected \cup {slot[t]} /\ slot[t] \in SockSlots
  BY DEF ConnectMarks, SocketInv, SocketTypes
<1>3. SocketTypes' BY <1>1, <1>2 DEF Arrives, SocketInv, SocketTypes
<1>4. ~raced' => OneIn' /\ OneStores' /\ FreshStands'
  BY <1>1, <1>2 DEF Arrives, SocketInv, OneIn, OneStores, FreshStands, Inside, Holding, Storing
<1>5. ~raced' => UseStands' BY <1>1, <1>2 DEF Arrives, SocketInv, UseStands, Using
<1>6. ~raced' => Accounted' BY <1>1, <1>2 DEF SocketInv, UseStands, Using, Accounted
<1>7. QED BY <1>3, <1>4, <1>5, <1>6 DEF SocketInv

(***************************************************************************)
(* No descriptor is lost or shared and no slot wrongly marked connected,   *)
(* for any number of threads, slots and descriptors, unless two calls met. *)
(***************************************************************************)
THEOREM SocketsStayExact == SocketSpec => []SocketsExact
<1>1. ASSUME SocketInit PROVE SocketInv
  <2>1. at \in [SockThreads -> SocketPlaces] /\ \A t \in SockThreads : at[t] = "out"
    BY <1>1 DEF SocketInit, SocketPlaces
  <2>2. slot \in [SockThreads -> SockSlots] BY <1>1, SockSlotsAssumption DEF SocketInit
  <2>3. fresh \in [SockThreads -> Int] /\ fd \in [SockSlots -> Int] BY <1>1 DEF SocketInit
  <2>4. socket_mutex_locked \in BOOLEAN /\ raced \in BOOLEAN BY <1>1 DEF SocketInit
  <2>5. SocketTypes BY <1>1, <2>1, <2>2, <2>3, <2>4 DEF SocketInit, SocketTypes
  <2>6. OneIn /\ OneStores /\ UseStands
    BY <2>1 DEF OneIn, OneStores, UseStands, Inside, Holding, Storing, Using
  <2>7. FreshStands BY <1>1, <2>1 DEF SocketInit, FreshStands, Storing
  <2>8. Accounted BY <1>1 DEF SocketInit, Accounted
  <2>9. QED BY <2>5, <2>6, <2>7, <2>8 DEF SocketInv
<1>2. ASSUME SocketInv, [SocketNext]_socketVars PROVE SocketInv'
  <2>1. ASSUME UNCHANGED socketVars PROVE SocketInv'
    BY <1>2, <2>1 DEF socketVars, SocketInv, SocketTypes, OneIn, OneStores, FreshStands, UseStands,
       Accounted
  <2>2. ASSUME NEW t \in SockThreads, NEW s \in SockSlots, AcceptNoSlot(t, s) PROVE SocketInv'
    BY <2>1, <2>2 DEF AcceptNoSlot
  <2>3. QED
    BY <1>2, <2>1, <2>2, SocketCallInv, CloseCallInv, LockTestedInv, LockSetInv, CreateFindsInv,
       CreateFailsInv, CreateStoresInv, CloseDropsInv, ConnectCallInv, ConnectMarksInv,
       AcceptFindsInv, AcceptStoresInv
    DEF SocketNext
<1>3. ASSUME SocketInv PROVE SocketsExact
  <2> SUFFICES ASSUME ~raced
      PROVE /\ open = ({fd[s] : s \in SockSlots} \cup {fresh[t] : t \in SockThreads}) \ {-1, 0}
            /\ \A r, s \in SockSlots : r # s /\ fd[r] = fd[s] => fd[r] \in {-1, 0}
            /\ \A s \in connected : fd[s] \in wired
    BY DEF SocketsExact
  <2>1. \A t \in SockThreads : fresh[t] \in open \cup {-1}
    BY <1>3 DEF SocketInv, FreshStands
  <2>2. open = ({fd[s] : s \in SockSlots} \cup {fresh[t] : t \in SockThreads}) \ {-1, 0}
    BY <1>3, <2>1, DescriptorsPositive DEF SocketInv, SocketTypes, Accounted
  <2>3. QED BY <1>3, <2>2 DEF SocketInv, Accounted
<1>4. QED BY <1>1, <1>2, <1>3, PTL DEF SocketSpec

-----------------------------------------------------------------------------
(***************************************************************************)
(* JSON objects.  The pairs of an object that have a key k hold, from      *)
(* first to last, the values that are queued for k: there is an increasing *)
(* enumeration of their places.                                            *)
(***************************************************************************)
Pairs == Names \X Numbers

Places(f, m, n, p, q, k) ==
  /\ f \in [1 .. n -> 1 .. m]
  /\ \A i, j \in 1 .. n : i < j => f[i] < f[j]
  /\ \A i \in 1 .. n : p[f[i]][1] = k /\ p[f[i]][2] = q[i]
  /\ \A l \in 1 .. m : p[l][1] = k => \E i \in 1 .. n : f[i] = l

Holds(p, q, k) == \E f : Places(f, Len(p), Len(q), p, q, k)

TreeInv == /\ pairs \in [Trees -> Seq(Pairs)]
           /\ queued \in [Trees -> [Names -> Seq(Numbers)]]
           /\ \A o \in Trees, k \in Names : Holds(pairs[o], queued[o][k], k)
           /\ twin => pairs[1] = pairs[2] /\ queued[1] = queued[2]

\* The strings of the keys that are allocated.
KeysCounted == lost \in Int /\ key_blocks = Len(pairs[1]) + Len(pairs[2]) + lost

\* A pair is put behind the others.
LEMMA HoldsAdded ==
  ASSUME NEW p \in Seq(Pairs), NEW q \in Seq(Numbers), NEW k \in Names, Holds(p, q, k),
         NEW l \in Names, NEW v \in Numbers
  PROVE  IF l = k THEN Holds(Append(p, <<l, v>>), Append(q, v), k) ELSE Holds(Append(p, <<l, v>>), q, k)
<1>1. PICK f : Places(f, Len(p), Len(q), p, q, k) BY DEF Holds
<1> DEFINE a == Append(p, <<l, v>>)
           b == Append(q, v)
           M == Len(p)
           N == Len(q)
<1>2. /\ M \in Nat /\ Len(a) = M + 1
      /\ \A n \in 1 .. M : a[n] = p[n]
      /\ a[M + 1][1] = l /\ a[M + 1][2] = v
  BY DEF Pairs
<1>3. /\ N \in Nat /\ Len(b) = N + 1
      /\ \A n \in 1 .. N : b[n] = q[n]
      /\ b[N + 1] = v
  OBVIOUS
<1> HIDE DEF a, b, M, N
<1>4. /\ f \in [1 .. N -> 1 .. M]
      /\ \A i, j \in 1 .. N : i < j => f[i] < f[j]
      /\ \A i \in 1 .. N : p[f[i]][1] = k /\ p[f[i]][2] = q[i]
      /\ \A n \in 1 .. M : p[n][1] = k => \E i \in 1 .. N : f[i] = n
  BY <1>1 DEF Places, M, N
<1>5. CASE l = k
  <2> DEFINE g == [i \in 1 .. N + 1 |-> IF i = N + 1 THEN M + 1 ELSE f[i]]
  <2>1. \A i \in 1 .. N : i \in 1 .. N + 1 /\ g[i] = f[i] /\ f[i] \in 1 .. M BY <1>3, <1>4
  <2>2. g[N + 1] = M + 1 /\ N + 1 \in 1 .. N + 1 BY <1>3
  <2>3. \A i \in 1 .. N + 1 : i \in 1 .. N \/ i = N + 1 BY <1>3
  <2>4. \A n \in 1 .. M + 1 : n \in 1 .. M \/ n = M + 1 BY <1>2
  <2>5. g \in [1 .. N + 1 -> 1 .. M + 1]
    <3>1. \A i \in 1 .. N : g[i] \in 1 .. M + 1
      <4>1. \A n \in 1 .. M : n \in 1 .. M + 1 BY <1>2
      <4> QED BY <2>1, <4>1
    <3>2. g[N + 1] \in 1 .. M + 1 BY <1>2, <2>2
    <3>3. \A i \in 1 .. N + 1 : g[i] \in 1 .. M + 1 BY <2>3, <3>1, <3>2
    <3> QED BY <3>3
  <2> HIDE DEF g
  <2>6. \A i, j \in 1 .. N + 1 : i < j => g[i] < g[j]
    <3> SUFFICES ASSUME NEW i \in 1 .. N + 1, NEW j \in 1 .. N + 1, i < j PROVE g[i] < g[j]
      OBVIOUS
    <3>1. i \in 1 .. N BY <1>3
    <3>2. CASE j \in 1 .. N BY <1>4, <2>1, <3>1, <3>2
    <3>3. CASE j = N + 1 BY <1>2, <2>1, <2>2, <3>1, <3>3
    <3> QED BY <2>3, <3>2, <3>3
  <2>7. \A i \in 1 .. N + 1 : a[g[i]][1] = k /\ a[g[i]][2] = b[i]
    <3> SUFFICES ASSUME NEW i \in 1 .. N + 1 PROVE a[g[i]][1] = k /\ a[g[i]][2] = b[i]
      OBVIOUS
    <3>1. CASE i \in 1 .. N
      <4>1. g[i] = f[i] /\ f[i] \in 1 .. M BY <2>1, <3>1
      <4>2. a[g[i]] = p[f[i]] BY <1>2, <4>1
      <4> QED BY <1>3, <1>4, <3>1, <4>2
    <3>2. CASE i = N + 1 BY <1>2, <1>3, <1>5, <2>2, <3>2
    <3> QED BY <2>3, <3>1, <3>2
  <2>8. \A n \in 1 .. M + 1 : a[n][1] = k => \E i \in 1 .. N + 1 : g[i] = n
    <3> SUFFICES ASSUME NEW n \in 1 .. M + 1, a[n][1] = k PROVE \E i \in 1 .. N + 1 : g[i] = n
      OBVIOUS
    <3>1. CASE n \in 1 .. M
      <4>1. PICK i \in 1 .. N : f[i] = n BY <1>2, <1>4, <3>1
      <4> QED BY <2>1, <4>1
    <3>2. CASE n = M + 1 BY <2>2, <3>2
    <3> QED BY <2>4, <3>1, <3>2
  <2>9. Places(g, M + 1, N + 1, a, b, k) BY <2>5, <2>6, <2>7, <2>8 DEF Places
  <2>10. Holds(a, b, k) BY <1>2, <1>3, <2>9 DEF Holds
  <2> QED BY <1>5, <2>10 DEF a, b
<1>6. CASE l # k
  <2>1. f \in [1 .. N -> 1 .. M + 1] BY <1>2, <1>4
  <2>2. \A i \in 1 .. N : a[f[i]][1] = k /\ a[f[i]][2] = q[i] BY <1>2, <1>4
  <2>3. \A n \in 1 .. M + 1 : a[n][1] = k => \E i \in 1 .. N : f[i] = n
    <3> SUFFICES ASSUME NEW n \in 1 .. M + 1, a[n][1] = k PROVE \E i \in 1 .. N : f[i] = n
      OBVIOUS
    <3>1. n # M + 1 BY <1>2, <1>6
    <3>2. n \in 1 .. M BY <1>2, <3>1
    <3> QED BY <1>2, <1>4, <3>2
  <2>4. Places(f, M + 1, N, a, q, k) BY <1>4, <2>1, <2>2, <2>3 DEF Places
  <2>5. Holds(a, q, k) BY <1>2, <2>4 DEF Holds, N
  <2> QED BY <1>6, <2>5 DEF a
<1> QED BY <1>5, <1>6

\* A pair is taken out, and those behind it move up.
Taken(p, j) == SubSeq(p, 1, j - 1) \o SubSeq(p, j + 1, Len(p))

LEMMA TakenIs ==
  ASSUME NEW p \in Seq(Pairs), NEW j \in 1 .. Len(p)
  PROVE  /\ Taken(p, j) \in Seq(Pairs) /\ Len(Taken(p, j)) = Len(p) - 1
         /\ \A n \in 1 .. Len(p) - 1 : Taken(p, j)[n] = IF n < j THEN p[n] ELSE p[n + 1]
<1> HIDE DEF Pairs
<1> DEFINE b == SubSeq(p, 1, j - 1)
           e == SubSeq(p, j + 1, Len(p))
<1>0. Len(p) \in Nat /\ j \in Nat OBVIOUS
<1>1. b \in Seq(Pairs) /\ Len(b) = j - 1 /\ \A n \in 1 .. j - 1 : b[n] = p[n] OBVIOUS
<1>2. e \in Seq(Pairs) /\ Len(e) = Len(p) - j /\ \A n \in 1 .. Len(p) - j : e[n] = p[j + n] OBVIOUS
<1> HIDE DEF b, e
<1>3. /\ b \o e \in Seq(Pairs) /\ Len(b \o e) = Len(b) + Len(e)
      /\ \A n \in 1 .. Len(b) + Len(e) : (b \o e)[n] = IF n <= Len(b) THEN b[n] ELSE e[n - Len(b)]
  BY <1>1, <1>2, ConcatProperties
<1>4. Len(b) + Len(e) = Len(p) - 1 BY <1>0, <1>1, <1>2
<1>5. ASSUME NEW n \in 1 .. Len(p) - 1 PROVE (b \o e)[n] = IF n < j THEN p[n] ELSE p[n + 1]
  <2>1. CASE n < j
    <3>1. n \in 1 .. j - 1 /\ n <= Len(b) BY <1>0, <1>1, <2>1
    <3> QED BY <1>1, <1>3, <1>4, <2>1, <3>1
  <2>2. CASE ~(n < j)
    <3>1. /\ n - (j - 1) \in 1 .. Len(p) - j /\ j + (n - (j - 1)) = n + 1 /\ ~(n <= Len(b))
          /\ n - Len(b) = n - (j - 1)
      BY <1>0, <1>1, <2>2
    <3>2. (b \o e)[n] = e[n - (j - 1)] BY <1>3, <1>4, <3>1
    <3> QED BY <1>2, <2>2, <3>1, <3>2
  <2> QED BY <2>1, <2>2
<1> QED BY <1>3, <1>4, <1>5 DEF Taken, b, e

LEMMA HoldsRemoved ==
  ASSUME NEW p \in Seq(Pairs), NEW q \in Seq(Numbers), NEW k \in Names, Holds(p, q, k),
         NEW j \in 1 .. Len(p),
         p[j][1] = k => \A n \in 1 .. Len(p) : p[n][1] = k => j <= n
  PROVE  IF p[j][1] = k THEN Holds(Taken(p, j), Tail(q), k) ELSE Holds(Taken(p, j), q, k)
<1>1. PICK f : Places(f, Len(p), Len(q), p, q, k) BY DEF Holds
<1> DEFINE a == Taken(p, j)
           M == Len(p)
           N == Len(q)
<1>2. /\ M \in Nat /\ j \in 1 .. M /\ Len(a) = M - 1
      /\ \A n \in 1 .. M - 1 : a[n] = IF n < j THEN p[n] ELSE p[n + 1]
  BY TakenIs
<1>3. N \in Nat OBVIOUS
<1> HIDE DEF a, M, N
<1>4. /\ f \in [1 .. N -> 1 .. M]
      /\ \A i, n \in 1 .. N : i < n => f[i] < f[n]
      /\ \A i \in 1 .. N : p[f[i]][1] = k /\ p[f[i]][2] = q[i]
      /\ \A n \in 1 .. M : p[n][1] = k => \E i \in 1 .. N : f[i] = n
  BY <1>1 DEF Places, M, N
<1> DEFINE Down(n) == IF n < j THEN n ELSE n - 1
\* The places that are left keep their order and what they hold.
<1>5. \A n \in 1 .. M : n # j => Down(n) \in 1 .. M - 1 /\ a[Down(n)] = p[n]
  <2> SUFFICES ASSUME NEW n \in 1 .. M, n # j PROVE Down(n) \in 1 .. M - 1 /\ a[Down(n)] = p[n]
    OBVIOUS
  <2>1. CASE n < j
    <3>1. n \in 1 .. M - 1 BY <1>2, <2>1
    <3> QED BY <1>2, <2>1, <3>1
  <2>2. CASE ~(n < j)
    <3>1. n - 1 \in 1 .. M - 1 /\ ~(n - 1 < j) /\ (n - 1) + 1 = n BY <1>2, <2>2
    <3> QED BY <1>2, <2>2, <3>1
  <2> QED BY <2>1, <2>2
<1>6. \A m, n \in 1 .. M : m # j /\ n # j /\ m < n => Down(m) < Down(n) BY <1>2
<1>7. \A m \in 1 .. M - 1 : \E n \in 1 .. M : n # j /\ Down(n) = m
  <2> SUFFICES ASSUME NEW m \in 1 .. M - 1 PROVE \E n \in 1 .. M : n # j /\ Down(n) = m
    OBVIOUS
  <2>1. CASE m < j
    <3>1. m \in 1 .. M /\ m # j /\ Down(m) = m BY <1>2, <2>1
    <3> QED BY <3>1
  <2>2. CASE ~(m < j)
    <3>1. m + 1 \in 1 .. M /\ m + 1 # j /\ Down(m + 1) = m BY <1>2, <2>2
    <3> QED BY <3>1
  <2> QED BY <2>1, <2>2
<1> HIDE DEF Down
<1>8. CASE p[j][1] = k
  <2>1. PICK first \in 1 .. N : f[first] = j BY <1>2, <1>4, <1>8
  <2>2. first = 1
    <3>1. 1 \in 1 .. N /\ f[1] \in 1 .. M BY <1>3, <1>4, <2>1
    <3>2. p[f[1]][1] = k BY <1>4, <3>1
    <3>3. j <= f[1] BY <1>8, <3>1, <3>2 DEF M
    <3>4. 1 < first => f[1] < j BY <1>4, <2>1, <3>1
    <3> QED BY <1>2, <2>1, <3>1, <3>3, <3>4
  <2> DEFINE t == Tail(q)
             g == [i \in 1 .. N - 1 |-> Down(f[i + 1])]
  <2>3. Len(t) = N - 1 /\ \A i \in 1 .. N - 1 : t[i] = q[i + 1]
    <3>1. q # << >>
      <4>1. N # 0 BY <1>3, <2>1
      <4> QED BY <4>1 DEF N
    <3> QED BY <3>1 DEF N
  <2>4. \A i \in 1 .. N - 1 : i + 1 \in 1 .. N /\ i + 1 # 1 BY <1>3
  <2>5. \A i \in 1 .. N - 1 : f[i + 1] \in 1 .. M /\ f[i + 1] # j
    <3> SUFFICES ASSUME NEW i \in 1 .. N - 1 PROVE f[i + 1] \in 1 .. M /\ f[i + 1] # j
      OBVIOUS
    <3>1. i + 1 \in 1 .. N /\ 1 \in 1 .. N /\ 1 < i + 1 BY <1>3
    <3>2. f[1] < f[i + 1] /\ f[1] = j /\ f[i + 1] \in 1 .. M BY <1>4, <2>1, <2>2, <3>1
    <3> QED BY <1>2, <3>2
  <2>6. g \in [1 .. N - 1 -> 1 .. M - 1] BY <1>5, <2>5
  <2>7. \A i, n \in 1 .. N - 1 : i < n => g[i] < g[n]
    <3> SUFFICES ASSUME NEW i \in 1 .. N - 1, NEW n \in 1 .. N - 1, i < n PROVE g[i] < g[n]
      OBVIOUS
    <3>1. f[i + 1] < f[n + 1] BY <1>3, <1>4, <2>4
    <3> QED BY <1>6, <2>5, <3>1
  <2>8. \A i \in 1 .. N - 1 : a[g[i]][1] = k /\ a[g[i]][2] = t[i]
    <3> SUFFICES ASSUME NEW i \in 1 .. N - 1 PROVE a[g[i]][1] = k /\ a[g[i]][2] = t[i]
      OBVIOUS
    <3>1. p[f[i + 1]][1] = k /\ p[f[i + 1]][2] = q[i + 1] BY <1>4, <2>4
    <3>2. a[Down(f[i + 1])] = p[f[i + 1]] BY <1>5, <2>5
    <3> QED BY <2>3, <3>1, <3>2
  <2>9. \A m \in 1 .. M - 1 : a[m][1] = k => \E i \in 1 .. N - 1 : g[i] = m
    <3> SUFFICES ASSUME NEW m \in 1 .. M - 1, a[m][1] = k PROVE \E i \in 1 .. N - 1 : g[i] = m
      OBVIOUS
    <3>1. PICK n \in 1 .. M : n # j /\ Down(n) = m BY <1>7
    <3>2. p[n][1] = k BY <1>5, <3>1
    <3>3. PICK i \in 1 .. N : f[i] = n BY <1>4, <3>2
    <3>4. i # 1 BY <2>1, <2>2, <3>1, <3>3
    <3>5. i - 1 \in 1 .. N - 1 /\ (i - 1) + 1 = i BY <1>3, <3>4
    <3>6. g[i - 1] = m BY <3>1, <3>3, <3>5
    <3> QED BY <3>5, <3>6
  <2> HIDE DEF g, t
  <2>10. Places(g, M - 1, N - 1, a, t, k) BY <2>6, <2>7, <2>8, <2>9 DEF Places
  <2>11. Holds(a, t, k) BY <1>2, <2>3, <2>10 DEF Holds
  <2> QED BY <1>8, <2>11 DEF a, t
<1>9. CASE p[j][1] # k
  <2> DEFINE g == [i \in 1 .. N |-> Down(f[i])]
  <2>1. \A i \in 1 .. N : f[i] \in 1 .. M /\ f[i] # j BY <1>4, <1>9
  <2>2. g \in [1 .. N -> 1 .. M - 1] BY <1>5, <2>1
  <2>3. \A i, n \in 1 .. N : i < n => g[i] < g[n] BY <1>4, <1>6, <2>1
  <2>4. \A i \in 1 .. N : a[g[i]][1] = k /\ a[g[i]][2] = q[i] BY <1>4, <1>5, <2>1
  <2>5. \A m \in 1 .. M - 1 : a[m][1] = k => \E i \in 1 .. N : g[i] = m
    <3> SUFFICES ASSUME NEW m \in 1 .. M - 1, a[m][1] = k PROVE \E i \in 1 .. N : g[i] = m
      OBVIOUS
    <3>1. PICK n \in 1 .. M : n # j /\ Down(n) = m BY <1>7
    <3>2. p[n][1] = k BY <1>5, <3>1
    <3>3. PICK i \in 1 .. N : f[i] = n BY <1>4, <3>2
    <3> QED BY <3>1, <3>3
  <2> HIDE DEF g
  <2>6. Places(g, M - 1, N, a, q, k) BY <2>2, <2>3, <2>4, <2>5 DEF Places
  <2>7. Holds(a, q, k) BY <1>2, <2>6 DEF Holds, N
  <2> QED BY <1>9, <2>7 DEF a
<1> QED BY <1>8, <1>9

\* The places of a key.
Having(p, k) == {n \in 1 .. Len(p) : p[n][1] = k}

\* What the places tell of a key: how often it is there, and what answers to it.
LEMMA HoldsTells ==
  ASSUME NEW p \in Seq(Pairs), NEW q \in Seq(Numbers), NEW k \in Names, Holds(p, q, k)
  PROVE  /\ IsFiniteSet(Having(p, k)) /\ Cardinality(Having(p, k)) = Len(q)
         /\ Having(p, k) = {} <=> q = << >>
         /\ q # << >> => \E first \in Having(p, k) : /\ \A n \in Having(p, k) : first <= n
                                                     /\ p[first][2] = Head(q)
<1>1. PICK f : Places(f, Len(p), Len(q), p, q, k) BY DEF Holds
<1> DEFINE M == Len(p)
           N == Len(q)
<1>2. M \in Nat /\ N \in Nat OBVIOUS
<1>3. /\ f \in [1 .. N -> 1 .. M]
      /\ \A i, j \in 1 .. N : i < j => f[i] < f[j]
      /\ \A i \in 1 .. N : p[f[i]][1] = k /\ p[f[i]][2] = q[i]
      /\ \A n \in 1 .. M : p[n][1] = k => \E i \in 1 .. N : f[i] = n
  BY <1>1 DEF Places
<1> DEFINE A == Having(p, k)
<1>4. A = {n \in 1 .. M : p[n][1] = k} BY DEF Having
<1>a. (q = << >> <=> N = 0) /\ (q # << >> => Head(q) = q[1]) OBVIOUS
<1> HIDE DEF M, A
<1>b. N = Len(q) OBVIOUS
<1> HIDE DEF N
<1>5. f \in Bijection(1 .. N, A)
  <2>1. f \in [1 .. N -> A] BY <1>3, <1>4
  <2>2. \A n \in A : \E i \in 1 .. N : f[i] = n BY <1>3, <1>4
  <2>3. ASSUME NEW i \in 1 .. N, NEW j \in 1 .. N, f[i] = f[j] PROVE i = j
    <3>1. ~(i < j) /\ ~(j < i) BY <1>2, <1>3, <2>3
    <3> QED BY <1>2, <3>1
  <2> QED BY <2>1, <2>2, <2>3 DEF Bijection, Injection, IsInjective, Surjection
<1>6. IsFiniteSet(1 .. N) /\ Cardinality(1 .. N) = N BY <1>2, FS_Interval
<1>7. IsFiniteSet(A) /\ Cardinality(A) = N BY <1>5, <1>6, FS_Bijection DEF ExistsBijection
<1>8. A = {} <=> N = 0 BY <1>7, FS_EmptySet
<1>9. ASSUME N # 0 PROVE \E first \in A : (\A n \in A : first <= n) /\ p[first][2] = q[1]
  <2>1. 1 \in 1 .. N BY <1>2, <1>9
  <2>2. f[1] \in A /\ p[f[1]][2] = q[1] BY <1>3, <1>4, <2>1
  <2>3. \A n \in A : f[1] <= n
    <3> SUFFICES ASSUME NEW n \in A PROVE f[1] <= n
      OBVIOUS
    <3>1. PICK i \in 1 .. N : f[i] = n BY <1>3, <1>4
    <3>2. f[1] \in 1 .. M /\ f[i] \in 1 .. M BY <1>3, <2>1
    <3>3. i = 1 \/ 1 < i BY <1>2
    <3>4. 1 < i => f[1] < f[i] BY <1>3, <2>1
    <3> QED BY <1>2, <3>1, <3>2, <3>3, <3>4
  <2> QED BY <2>2, <2>3
<1> QED BY <1>a, <1>b, <1>7, <1>8, <1>9 DEF A

-----------------------------------------------------------------------------
LEMMA TreeInitInv == TreeInit => TreeInv
<1> SUFFICES ASSUME TreeInit PROVE TreeInv
  OBVIOUS
<1>1. \A o \in Trees : pairs[o] = << >> /\ \A k \in Names : queued[o][k] = << >> BY DEF TreeInit
<1>2. pairs \in [Trees -> Seq(Pairs)] BY DEF TreeInit
<1>3. queued \in [Trees -> [Names -> Seq(Numbers)]] BY DEF TreeInit
<1>4. pairs[1] = pairs[2] /\ queued[1] = queued[2] BY DEF TreeInit, Trees
<1>5. ASSUME NEW k PROVE Holds(<< >>, << >>, k)
  <2>1. Len(<< >>) = 0 OBVIOUS
  <2>2. \A i \in 1 .. 0 : FALSE OBVIOUS
  <2>3. [i \in 1 .. 0 |-> i] \in [1 .. 0 -> 1 .. 0] OBVIOUS
  <2>4. Places([i \in 1 .. 0 |-> i], 0, 0, << >>, << >>, k) BY <2>2, <2>3 DEF Places
  <2> QED BY <2>1, <2>4 DEF Holds
<1>6. \A o \in Trees, k \in Names : Holds(pairs[o], queued[o][k], k) BY <1>1, <1>5
<1> QED BY <1>2, <1>3, <1>4, <1>6 DEF TreeInv

LEMMA ObjectAddInv ==
  ASSUME TreeInv, NEW o \in Trees, NEW l \in Names, NEW v \in Numbers, ObjectAdd(o, l, v)
  PROVE  TreeInv'
<1> DEFINE a == Append(pairs[o], <<l, v>>)
           b == Append(queued[o][l], v)
<1>1. /\ pairs \in [Trees -> Seq(Pairs)] /\ queued \in [Trees -> [Names -> Seq(Numbers)]]
      /\ \A u \in Trees, k \in Names : Holds(pairs[u], queued[u][k], k)
  BY DEF TreeInv
<1>2. /\ pairs' = [pairs EXCEPT ![o] = a] /\ queued' = [queued EXCEPT ![o][l] = b] /\ ~twin'
  BY DEF ObjectAdd
<1>3. a \in Seq(Pairs) /\ b \in Seq(Numbers)
  <2>1. <<l, v>> \in Pairs BY DEF Pairs
  <2> QED BY <1>1, <2>1
<1>4. \A k \in Names : IF l = k THEN Holds(a, b, k) ELSE Holds(a, queued[o][k], k)
  <2> SUFFICES ASSUME NEW k \in Names PROVE IF l = k THEN Holds(a, b, k) ELSE Holds(a, queued[o][k], k)
    OBVIOUS
  <2>1. pairs[o] \in Seq(Pairs) /\ queued[o][k] \in Seq(Numbers) /\ Holds(pairs[o], queued[o][k], k)
    BY <1>1
  <2> QED BY <2>1, HoldsAdded
<1> HIDE DEF a, b
<1>5. pairs' \in [Trees -> Seq(Pairs)] BY <1>1, <1>2, <1>3
<1>6. queued' \in [Trees -> [Names -> Seq(Numbers)]]
  <2>1. [queued[o] EXCEPT ![l] = b] \in [Names -> Seq(Numbers)] BY <1>1, <1>3
  <2> QED BY <1>1, <1>2, <2>1
<1>7. ASSUME NEW u \in Trees, NEW k \in Names PROVE Holds(pairs'[u], queued'[u][k], k)
  <2>1. CASE u = o
    <3>1. pairs'[u] = a /\ queued'[u][k] = IF k = l THEN b ELSE queued[o][k] BY <1>1, <1>2, <2>1
    <3> QED BY <1>4, <3>1
  <2>2. CASE u # o
    <3>1. pairs'[u] = pairs[u] /\ queued'[u][k] = queued[u][k] BY <1>1, <1>2, <2>2
    <3> QED BY <1>1, <3>1
  <2> QED BY <2>1, <2>2
<1>8. \A u \in Trees, k \in Names : Holds(pairs[u], queued[u][k], k)' BY <1>7 DEF Holds, Places
<1> QED BY <1>2, <1>5, <1>6, <1>8 DEF TreeInv

\* The first pair with a key is one of the pairs.
LEMMA FirstIsThere ==
  ASSUME TreeInv, NEW o \in Trees, NEW l \in Names, At(o, l) # {},
         NEW j, j = CHOOSE m \in At(o, l) : \A n \in At(o, l) : m <= n
  PROVE  j \in 1 .. Len(pairs[o]) /\ pairs[o][j][1] = l /\ \A n \in At(o, l) : j <= n
<1>1. pairs[o] \in Seq(Pairs) /\ queued[o][l] \in Seq(Numbers) /\ Holds(pairs[o], queued[o][l], l)
  BY DEF TreeInv
<1>2. At(o, l) = Having(pairs[o], l)
  <2>1. DOMAIN pairs[o] = 1 .. Len(pairs[o])
    <3> HIDE DEF Pairs
    <3> QED BY <1>1
  <2> QED BY <2>1 DEF At, Having
<1>3. \E first \in At(o, l) : \A n \in At(o, l) : first <= n
  <2> HIDE DEF Pairs
  <2> QED BY <1>1, <1>2, HoldsTells
<1>4. j \in At(o, l) /\ \A n \in At(o, l) : j <= n BY <1>3
<1> QED BY <1>2, <1>4 DEF Having

LEMMA ObjectRemoveInv ==
  ASSUME TreeInv, NEW o \in Trees, NEW l \in Names, ObjectRemove(o, l)
  PROVE  TreeInv'
<1> DEFINE j == CHOOSE m \in At(o, l) : \A n \in At(o, l) : m <= n
           a == Taken(pairs[o], j)
           b == Tail(queued[o][l])
<1>1. /\ pairs \in [Trees -> Seq(Pairs)] /\ queued \in [Trees -> [Names -> Seq(Numbers)]]
      /\ \A u \in Trees, k \in Names : Holds(pairs[u], queued[u][k], k)
  BY DEF TreeInv
<1>2. /\ pairs' = [pairs EXCEPT ![o] = a] /\ queued' = [queued EXCEPT ![o][l] = b] /\ ~twin'
      /\ At(o, l) # {}
  BY DEF ObjectRemove, Taken
<1>3. pairs[o] \in Seq(Pairs) /\ queued[o][l] \in Seq(Numbers) /\ Holds(pairs[o], queued[o][l], l)
  BY <1>1
<1>4. At(o, l) = Having(pairs[o], l)
  <2>1. DOMAIN pairs[o] = 1 .. Len(pairs[o])
    <3> HIDE DEF Pairs
    <3> QED BY <1>3
  <2> QED BY <2>1 DEF At, Having
<1>5. /\ queued[o][l] # << >>
      /\ \E first \in At(o, l) : \A n \in At(o, l) : first <= n
  BY <1>2, <1>3, <1>4, HoldsTells
<1>6. j \in At(o, l) /\ \A n \in At(o, l) : j <= n BY <1>5
<1>7. j \in 1 .. Len(pairs[o]) /\ pairs[o][j][1] = l BY <1>4, <1>6 DEF Having
<1>8. \A n \in 1 .. Len(pairs[o]) : pairs[o][n][1] = l => j <= n BY <1>4, <1>6 DEF Having
<1> HIDE DEF j
<1>9. a \in Seq(Pairs) BY <1>3, <1>7, TakenIs
<1>10. b \in Seq(Numbers)
  <2>1. \A q \in Seq(Numbers) : q # << >> => Tail(q) \in Seq(Numbers) OBVIOUS
  <2> QED BY <1>3, <1>5, <2>1
<1>11. \A k \in Names : IF l = k THEN Holds(a, b, k) ELSE Holds(a, queued[o][k], k)
  <2> SUFFICES ASSUME NEW k \in Names PROVE IF l = k THEN Holds(a, b, k) ELSE Holds(a, queued[o][k], k)
    OBVIOUS
  <2>1. pairs[o] \in Seq(Pairs) /\ queued[o][k] \in Seq(Numbers) /\ Holds(pairs[o], queued[o][k], k)
    BY <1>1
  <2>2. pairs[o][j][1] = k => \A n \in 1 .. Len(pairs[o]) : pairs[o][n][1] = k => j <= n
    BY <1>7, <1>8
  <2>3. IF pairs[o][j][1] = k THEN Holds(Taken(pairs[o], j), Tail(queued[o][k]), k)
        ELSE Holds(Taken(pairs[o], j), queued[o][k], k)
    BY <1>7, <2>1, <2>2, HoldsRemoved
  <2> QED BY <1>7, <2>3
<1> HIDE DEF a, b
<1>12. pairs' \in [Trees -> Seq(Pairs)] BY <1>1, <1>2, <1>9
<1>13. queued' \in [Trees -> [Names -> Seq(Numbers)]]
  <2>1. [queued[o] EXCEPT ![l] = b] \in [Names -> Seq(Numbers)] BY <1>1, <1>10
  <2> QED BY <1>1, <1>2, <2>1
<1>14. ASSUME NEW u \in Trees, NEW k \in Names PROVE Holds(pairs'[u], queued'[u][k], k)
  <2>1. CASE u = o
    <3>1. pairs'[u] = a /\ queued'[u][k] = IF k = l THEN b ELSE queued[o][k] BY <1>1, <1>2, <2>1
    <3> QED BY <1>11, <3>1
  <2>2. CASE u # o
    <3>1. pairs'[u] = pairs[u] /\ queued'[u][k] = queued[u][k] BY <1>1, <1>2, <2>2
    <3> QED BY <1>1, <3>1
  <2> QED BY <2>1, <2>2
<1>15. \A u \in Trees, k \in Names : Holds(pairs[u], queued[u][k], k)' BY <1>14 DEF Holds, Places
<1> QED BY <1>2, <1>12, <1>13, <1>15 DEF TreeInv

LEMMA DeepCopyInv == ASSUME TreeInv, DeepCopy PROVE TreeInv'
<1>1. /\ pairs \in [Trees -> Seq(Pairs)] /\ queued \in [Trees -> [Names -> Seq(Numbers)]]
      /\ \A u \in Trees, k \in Names : Holds(pairs[u], queued[u][k], k)
      /\ 1 \in Trees /\ 2 \in Trees /\ \A u \in Trees : u = 1 \/ u = 2
  BY DEF TreeInv, Trees
<1>2. pairs' = [pairs EXCEPT ![2] = pairs[1]] /\ queued' = [queued EXCEPT ![2] = queued[1]]
  BY DEF DeepCopy
<1>3. /\ pairs' \in [Trees -> Seq(Pairs)] /\ queued' \in [Trees -> [Names -> Seq(Numbers)]]
      /\ \A u \in Trees : pairs'[u] = pairs[1] /\ queued'[u] = queued[1]
  BY <1>1, <1>2
<1>4. \A u \in Trees, k \in Names : Holds(pairs'[u], queued'[u][k], k) BY <1>1, <1>3
<1>5. \A u \in Trees, k \in Names : Holds(pairs[u], queued[u][k], k)' BY <1>4 DEF Holds, Places
<1> QED BY <1>1, <1>3, <1>5 DEF TreeInv

LEMMA TreeStepInv == ASSUME TreeInv, [TreeNext]_treeVars PROVE TreeInv'
<1>1. ASSUME UNCHANGED <<pairs, queued, twin>> PROVE TreeInv'
  <2>1. pairs' = pairs /\ queued' = queued /\ twin' = twin BY <1>1
  <2>2. \A u, k : Holds(pairs[u], queued[u][k], k) => Holds(pairs[u], queued[u][k], k)'
    BY <2>1 DEF Holds, Places
  <2> QED BY <2>1, <2>2 DEF TreeInv
<1>2. CASE DeepCopyFails \/ UNCHANGED treeVars \/ \E o \in Trees : ObjectAddFails(o)
  BY <1>1, <1>2 DEF DeepCopyFails, ObjectAddFails, treeVars
<1> QED BY <1>2, ObjectAddInv, ObjectRemoveInv, DeepCopyInv DEF TreeNext

-----------------------------------------------------------------------------
\* The strings of the keys are those of the pairs and those that are lost.
LEMMA KeysStayCounted ==
  ASSUME TreeInv, TreeInv', KeysCounted, [TreeNext]_treeVars
  PROVE  KeysCounted'
<1>1. /\ pairs \in [Trees -> Seq(Pairs)] /\ queued \in [Trees -> [Names -> Seq(Numbers)]]
      /\ \A u \in Trees, k \in Names : Holds(pairs[u], queued[u][k], k)
      /\ 1 \in Trees /\ 2 \in Trees /\ \A u \in Trees : u = 1 \/ u = 2
  BY DEF TreeInv, Trees
<1> DEFINE m == Len(pairs[1])
           n == Len(pairs[2])
<1>2. m \in Nat /\ n \in Nat /\ \A u \in Trees : Len(pairs[u]) \in Nat
  <2> HIDE DEF Pairs
  <2> QED BY <1>1
<1>3. lost \in Int /\ key_blocks = m + n + lost BY DEF KeysCounted
<1> DEFINE Counted(i, j) == Len(pairs'[1]) = i /\ Len(pairs'[2]) = j
<1>4. ASSUME NEW o \in Trees, NEW l \in Names, NEW v \in Numbers, ObjectAdd(o, l, v)
      PROVE  KeysCounted'
  <2>1. pairs' = [pairs EXCEPT ![o] = Append(@, <<l, v>>)] /\ lost' = lost + 1 /\ key_blocks' = key_blocks + 2
    BY <1>4 DEF ObjectAdd, KeyLost
  <2>2. Len(Append(pairs[o], <<l, v>>)) = Len(pairs[o]) + 1
    <3>1. <<l, v>> \in Pairs /\ pairs[o] \in Seq(Pairs) BY <1>1 DEF Pairs
    <3> HIDE DEF Pairs
    <3> QED BY <3>1
  <2>3. Counted(m + 1, n) \/ Counted(m, n + 1) BY <1>1, <2>1, <2>2
  <2>4. lost' = lost + 1 /\ key_blocks' = key_blocks + 2 BY <2>1
  <2> HIDE DEF m, n
  <2>5. CASE Counted(m + 1, n) BY <1>2, <1>3, <2>4, <2>5 DEF KeysCounted
  <2>6. CASE Counted(m, n + 1) BY <1>2, <1>3, <2>4, <2>6 DEF KeysCounted
  <2> QED BY <2>3, <2>5, <2>6
<1>5. ASSUME NEW o \in Trees, NEW l \in Names, ObjectRemove(o, l) PROVE KeysCounted'
  <2> DEFINE j == CHOOSE i \in At(o, l) : \A x \in At(o, l) : i <= x
  <2>1. /\ pairs' = [pairs EXCEPT ![o] = Taken(pairs[o], j)] /\ lost' = lost /\ key_blocks' = key_blocks - 1
        /\ At(o, l) # {}
    BY <1>5 DEF ObjectRemove, Taken
  <2>2. j \in 1 .. Len(pairs[o]) BY <2>1, FirstIsThere
  <2>3. Len(Taken(pairs[o], j)) = Len(pairs[o]) - 1
    <3>1. pairs[o] \in Seq(Pairs) BY <1>1
    <3> HIDE DEF Pairs, j
    <3> QED BY <2>2, <3>1, TakenIs
  <2> HIDE DEF j
  <2>4. Counted(m - 1, n) \/ Counted(m, n - 1) BY <1>1, <2>1, <2>3
  <2>5. lost' = lost /\ key_blocks' = key_blocks - 1 BY <2>1
  <2> HIDE DEF m, n
  <2>6. CASE Counted(m - 1, n) BY <1>2, <1>3, <2>5, <2>6 DEF KeysCounted
  <2>7. CASE Counted(m, n - 1) BY <1>2, <1>3, <2>5, <2>7 DEF KeysCounted
  <2> QED BY <2>4, <2>6, <2>7
<1>6. CASE DeepCopy
  <2>1. /\ pairs' = [pairs EXCEPT ![2] = pairs[1]]
        /\ \/ key_blocks' = key_blocks + 2 * m /\ lost' = lost + (m + n)
           \/ key_blocks' = key_blocks + 2 * m - n /\ lost' = lost + m
    BY <1>6 DEF DeepCopy, KeyLost
  <2>2. Counted(m, m) BY <1>1, <2>1
  <2> HIDE DEF m, n
  <2>4. CASE lost' = lost + (m + n) /\ key_blocks' = key_blocks + 2 * m
    BY <1>2, <1>3, <2>2, <2>4 DEF KeysCounted
  <2>5. CASE lost' = lost + m /\ key_blocks' = key_blocks + 2 * m - n
    BY <1>2, <1>3, <2>2, <2>5 DEF KeysCounted
  <2> QED BY <2>1, <2>4, <2>5
<1>7. CASE DeepCopyFails
  <2>1. PICK copied \in 0 .. m - 1 : lost' = lost + copied /\ key_blocks' = key_blocks + copied
    BY <1>7 DEF DeepCopyFails, KeyLost
  <2>2. pairs' = pairs BY <1>7 DEF DeepCopyFails
  <2>3. Counted(m, n) BY <2>2
  <2> HIDE DEF m, n
  <2> QED BY <1>2, <1>3, <2>1, <2>3 DEF KeysCounted
<1>8. ASSUME NEW o \in Trees, ObjectAddFails(o) PROVE KeysCounted'
  <2>1. pairs' = pairs /\ lost' = lost + 1 /\ key_blocks' = key_blocks + 1
    BY <1>8 DEF ObjectAddFails, KeyLost
  <2>2. Counted(m, n) BY <2>1
  <2> HIDE DEF m, n
  <2> QED BY <1>2, <1>3, <2>1, <2>2 DEF KeysCounted
<1>9. CASE UNCHANGED treeVars BY <1>9 DEF KeysCounted, treeVars, memoryVars
<1> QED BY <1>4, <1>5, <1>6, <1>7, <1>8, <1>9 DEF TreeNext

-----------------------------------------------------------------------------
\* What a key answers: the oldest value queued for it.
LEMMA GetIs ==
  ASSUME TreeInv, NEW o \in Trees, NEW k \in Names
  PROVE  /\ Cardinality(At(o, k)) = Len(queued[o][k])
         /\ queued[o][k] = << >> => ObjectGet(o, k) = {}
         /\ queued[o][k] # << >> => ObjectGet(o, k) = {Head(queued[o][k])}
<1>1. pairs[o] \in Seq(Pairs) /\ queued[o][k] \in Seq(Numbers) /\ Holds(pairs[o], queued[o][k], k)
  BY DEF TreeInv
<1>2. At(o, k) = Having(pairs[o], k)
  <2>1. DOMAIN pairs[o] = 1 .. Len(pairs[o])
    <3> HIDE DEF Pairs
    <3> QED BY <1>1
  <2> QED BY <2>1 DEF At, Having
<1>3. /\ Cardinality(At(o, k)) = Len(queued[o][k])
      /\ At(o, k) = {} <=> queued[o][k] = << >>
      /\ queued[o][k] # << >> => \E first \in At(o, k) : /\ \A n \in At(o, k) : first <= n
                                                         /\ pairs[o][first][2] = Head(queued[o][k])
  <2> HIDE DEF Pairs
  <2> QED BY <1>1, <1>2, HoldsTells
<1>4. ASSUME queued[o][k] # << >> PROVE ObjectGet(o, k) = {Head(queued[o][k])}
  <2>1. PICK first \in At(o, k) : /\ \A n \in At(o, k) : first <= n
                                  /\ pairs[o][first][2] = Head(queued[o][k])
    BY <1>3, <1>4
  <2>2. \A j \in At(o, k) : (\A n \in At(o, k) : j <= n) <=> j = first
    <3>1. \A j \in At(o, k) : j \in Int BY <1>2 DEF Having
    <3> QED BY <2>1, <3>1
  <2>3. {j \in At(o, k) : \A n \in At(o, k) : j <= n} = {first} BY <2>2
  <2> QED BY <2>1, <2>3 DEF ObjectGet
<1>5. queued[o][k] = << >> => ObjectGet(o, k) = {} BY <1>3 DEF ObjectGet
<1> QED BY <1>3, <1>4, <1>5

\* The keys of an object.
KeysOf(q) == {k \in Names : q[k] # << >>}

\* Without repeated keys the pairs are the keys, each with its value.
LEMMA PairsAreKeys ==
  ASSUME NEW p \in Seq(Pairs), NEW q \in [Names -> Seq(Numbers)],
         \A k \in Names : Holds(p, q[k], k) /\ Len(q[k]) <= 1
  PROVE  /\ IsFiniteSet(KeysOf(q)) /\ Cardinality(KeysOf(q)) = Len(p)
         /\ \A i \in 1 .. Len(p) : p[i][1] \in KeysOf(q) /\ p[i][2] = Head(q[p[i][1]])
         /\ \A k \in KeysOf(q) : \E i \in 1 .. Len(p) : p[i][1] = k
<1> DEFINE M == Len(p)
<1>1. M \in Nat /\ \A i \in 1 .. M : p[i] \in Pairs
  <2> HIDE DEF Pairs
  <2> QED OBVIOUS
<1>2. \A i \in 1 .. M : p[i][1] \in Names BY <1>1 DEF Pairs
<1>3. ASSUME NEW k \in Names
      PROVE  /\ IsFiniteSet(Having(p, k)) /\ Cardinality(Having(p, k)) = Len(q[k])
             /\ Having(p, k) = {} <=> q[k] = << >>
             /\ q[k] # << >> => \E first \in Having(p, k) : p[first][2] = Head(q[k])
  <2>1. q[k] \in Seq(Numbers) /\ Holds(p, q[k], k) OBVIOUS
  <2> HIDE DEF Pairs, Having
  <2> QED BY <2>1, HoldsTells
<1>4. ASSUME NEW k \in Names, NEW i \in Having(p, k), NEW j \in Having(p, k) PROVE i = j
  <2>1. Len(q[k]) \in Nat OBVIOUS
  <2>2. Cardinality(Having(p, k)) = 1
    <3>1. Having(p, k) # {} OBVIOUS
    <3>2. Cardinality(Having(p, k)) # 0 BY <1>3, <3>1, FS_EmptySet
    <3> QED BY <1>3, <2>1, <3>2
  <2>3. PICK x : Having(p, k) = {x} BY <1>3, <2>2, FS_Singleton
  <2> QED BY <2>3
<1>5. ASSUME NEW i \in 1 .. M PROVE p[i][1] \in KeysOf(q) /\ p[i][2] = Head(q[p[i][1]])
  <2> DEFINE k == p[i][1]
  <2>1. k \in Names /\ i \in Having(p, k) BY <1>2 DEF Having
  <2> HIDE DEF k
  <2>2. q[k] # << >> BY <1>3, <2>1
  <2>3. PICK first \in Having(p, k) : p[first][2] = Head(q[k]) BY <1>3, <2>1, <2>2
  <2>4. first = i BY <1>4, <2>1, <2>3
  <2> QED BY <2>1, <2>2, <2>3, <2>4 DEF KeysOf, k
<1>6. ASSUME NEW k \in KeysOf(q) PROVE \E i \in 1 .. M : p[i][1] = k
  <2>1. k \in Names /\ q[k] # << >> BY DEF KeysOf
  <2>2. Having(p, k) # {}
    <3> QED BY <1>3, <2>1
  <2> QED BY <2>2 DEF Having
<1> DEFINE f == [i \in 1 .. M |-> p[i][1]]
<1>7. f \in Bijection(1 .. M, KeysOf(q))
  <2>1. f \in [1 .. M -> KeysOf(q)] BY <1>5
  <2>2. \A k \in KeysOf(q) : \E i \in 1 .. M : f[i] = k BY <1>6
  <2>3. ASSUME NEW i \in 1 .. M, NEW j \in 1 .. M, f[i] = f[j] PROVE i = j
    <3>1. i \in Having(p, p[i][1]) /\ j \in Having(p, p[i][1]) /\ p[i][1] \in Names
      BY <1>2, <2>3 DEF Having
    <3> QED BY <1>4, <3>1
  <2> HIDE DEF f
  <2> QED BY <2>1, <2>2, <2>3 DEF Bijection, Injection, IsInjective, Surjection
<1> HIDE DEF f, M
<1>8. IsFiniteSet(1 .. M) /\ Cardinality(1 .. M) = M BY <1>1, FS_Interval
<1>9. IsFiniteSet(KeysOf(q)) /\ Cardinality(KeysOf(q)) = M
  <2> QED BY <1>7, <1>8, FS_Bijection DEF ExistsBijection
<1> QED BY <1>5, <1>6, <1>9 DEF M

LEMMA SameSingle ==
  ASSUME NEW S, NEW x \in Seq(S), NEW y \in Seq(S), x # << >>, y # << >>, Len(x) <= 1, Len(y) <= 1,
         Head(x) = Head(y)
  PROVE  x = y
<1>1. Len(x) \in Nat \ {0} /\ Len(y) \in Nat \ {0} BY EmptySeq
<1> DEFINE m == Len(x)
           n == Len(y)
<1>2. m \in Nat \ {0} /\ n \in Nat \ {0} /\ m <= 1 /\ n <= 1 BY <1>1
<1>3. Head(x) = x[1] /\ Head(y) = y[1] OBVIOUS
<1> HIDE DEF m, n
<1>4. m = 1 /\ n = 1 BY <1>2
<1>5. \A i \in 1 .. 1 : i = 1 OBVIOUS
<1>6. \A i \in 1 .. m : x[i] = y[i] BY <1>3, <1>4, <1>5
<1>7. m = n BY <1>4
<1> QED BY <1>6, <1>7, SeqEqual DEF m, n

\* Between objects without repeated keys equality means the same answers.
LEMMA EqualIs ==
  ASSUME TreeInv, NEW o \in Trees, NEW u \in Trees, OneEach(o), OneEach(u)
  PROVE  Equal(o, u) <=> queued[o] = queued[u]
<1> DEFINE p == pairs[o]
           q == queued[o]
           r == queued[u]
<1>1. /\ p \in Seq(Pairs) /\ pairs[u] \in Seq(Pairs)
      /\ q \in [Names -> Seq(Numbers)] /\ r \in [Names -> Seq(Numbers)]
      /\ \A k \in Names : Holds(p, q[k], k) /\ Len(q[k]) <= 1
      /\ \A k \in Names : Holds(pairs[u], r[k], k) /\ Len(r[k]) <= 1
  <2> HIDE DEF Pairs
  <2> QED BY DEF TreeInv, OneEach
<1>2. /\ IsFiniteSet(KeysOf(q)) /\ Cardinality(KeysOf(q)) = Len(p)
      /\ \A i \in 1 .. Len(p) : p[i][1] \in KeysOf(q) /\ p[i][2] = Head(q[p[i][1]])
      /\ \A k \in KeysOf(q) : \E i \in 1 .. Len(p) : p[i][1] = k
  <2> HIDE DEF p, q, r
  <2> QED BY <1>1, PairsAreKeys
<1>3. IsFiniteSet(KeysOf(r)) /\ Cardinality(KeysOf(r)) = Len(pairs[u])
  <2> HIDE DEF p, q, r
  <2> QED BY <1>1, PairsAreKeys
<1>4. \A k \in Names : /\ r[k] = << >> => ObjectGet(u, k) = {}
                       /\ r[k] # << >> => ObjectGet(u, k) = {Head(r[k])}
  BY GetIs
<1>5. DOMAIN p = 1 .. Len(p)
  <2> HIDE DEF Pairs
  <2> QED BY <1>1
<1>6. Equal(o, u) <=> /\ Len(p) = Len(pairs[u])
                      /\ \A i \in 1 .. Len(p) : ObjectGet(u, p[i][1]) = {p[i][2]}
  BY <1>5 DEF Equal
<1> HIDE DEF p, q, r
<1>7. ASSUME q = r PROVE Equal(o, u)
  <2>1. Len(p) = Len(pairs[u]) BY <1>2, <1>3, <1>7
  <2>2. ASSUME NEW i \in 1 .. Len(p) PROVE ObjectGet(u, p[i][1]) = {p[i][2]}
    <3>1. p[i][1] \in Names /\ q[p[i][1]] # << >> /\ p[i][2] = Head(q[p[i][1]]) BY <1>2 DEF KeysOf
    <3> QED BY <1>4, <1>7, <3>1
  <2> QED BY <1>6, <2>1, <2>2
<1>8. ASSUME Equal(o, u) PROVE q = r
  <2>1. ASSUME NEW k \in KeysOf(q) PROVE k \in KeysOf(r) /\ Head(r[k]) = Head(q[k])
    <3>1. PICK i \in 1 .. Len(p) : p[i][1] = k BY <1>2
    <3>2. ObjectGet(u, k) = {Head(q[k])} BY <1>2, <1>6, <1>8, <3>1
    <3>3. k \in Names BY DEF KeysOf
    <3>4. r[k] # << >> BY <1>4, <3>2, <3>3
    <3>5. {Head(r[k])} = {Head(q[k])} BY <1>4, <3>2, <3>3, <3>4
    <3> QED BY <3>3, <3>4, <3>5 DEF KeysOf
  <2>2. KeysOf(q) = KeysOf(r)
    <3>1. KeysOf(q) \subseteq KeysOf(r) BY <2>1
    <3>2. Cardinality(KeysOf(q)) = Cardinality(KeysOf(r)) BY <1>2, <1>3, <1>6, <1>8
    <3> QED BY <1>2, <1>3, <3>1, <3>2, FS_Subset
  <2>3. ASSUME NEW k \in Names PROVE q[k] = r[k]
    <3>1. CASE k \in KeysOf(q)
      <4>1. q[k] # << >> /\ r[k] # << >> /\ Head(r[k]) = Head(q[k]) BY <2>1, <3>1 DEF KeysOf
      <4>2. q[k] \in Seq(Numbers) /\ r[k] \in Seq(Numbers) /\ Len(q[k]) <= 1 /\ Len(r[k]) <= 1 BY <1>1
      <4> QED BY <4>1, <4>2, SameSingle
    <3>2. CASE k \notin KeysOf(q) BY <2>2, <3>2 DEF KeysOf
    <3> QED BY <3>1, <3>2
  <2> QED BY <1>1, <2>3
<1>9. Equal(o, u) <=> q = r BY <1>7, <1>8
<1> QED BY <1>9 DEF q, r

LEMMA TreesTold == TreeInv /\ KeysCounted => TreesAgree
<1> SUFFICES ASSUME TreeInv, KeysCounted PROVE TreesAgree
  OBVIOUS
<1>1. ASSUME NEW o \in Trees, NEW k \in Names
      PROVE  /\ ObjectGet(o, k) = IF ObjectHas(o, k) THEN {Head(queued[o][k])} ELSE {}
             /\ Cardinality({i \in DOMAIN ObjectKeys(o) : ObjectKeys(o)[i] = k}) = Len(queued[o][k])
  <2>1. {i \in DOMAIN ObjectKeys(o) : ObjectKeys(o)[i] = k} = At(o, k) BY DEF ObjectKeys, At
  <2> QED BY <2>1, GetIs DEF ObjectHas
<1>2. ASSUME OneEach(1), OneEach(2)
      PROVE  (Equal(1, 2) <=> queued[1] = queued[2]) /\ (twin => Equal(1, 2) /\ Equal(2, 1))
  <2>1. 1 \in Trees /\ 2 \in Trees BY DEF Trees
  <2>2. /\ Equal(1, 2) <=> queued[1] = queued[2]
        /\ Equal(2, 1) <=> queued[2] = queued[1]
    BY <1>2, <2>1, EqualIs
  <2> QED BY <2>2 DEF TreeInv
<1>3. key_blocks = Len(pairs[1]) + Len(pairs[2]) + lost BY DEF KeysCounted
<1> QED BY <1>1, <1>2, <1>3 DEF TreesAgree

\* Whatever was added, removed and copied, every key answers with the oldest
\* value still under it, a copy is equal to its original, and between objects
\* without repeated keys equality means the same answer to every key; of the
\* strings of the keys, exactly those that additions and copies lose are more
\* than the pairs.  An object that dangles after a growth that half failed, and
\* every object once a value was freed twice, are excepted.
THEOREM TreesStayAgreed == TreeSpec => []TreesAgree
<1>1. TreeInit => TreeInv /\ KeysCounted
  <2>1. TreeInit => KeysCounted
    <3> SUFFICES ASSUME TreeInit PROVE KeysCounted
      OBVIOUS
    <3>1. pairs[1] = << >> /\ pairs[2] = << >> /\ lost = 0 /\ key_blocks = 0 BY DEF TreeInit, Trees
    <3>2. Len(<< >>) = 0 OBVIOUS
    <3> QED BY <3>1, <3>2 DEF KeysCounted
  <2> QED BY <2>1, TreeInitInv
<1>2. TreeInv /\ KeysCounted /\ [TreeNext]_treeVars => TreeInv' /\ KeysCounted'
  <2>1. TreeInv /\ [TreeNext]_treeVars => TreeInv' BY TreeStepInv
  <2> QED BY <2>1, KeysStayCounted
<1> QED BY <1>1, <1>2, TreesTold, PTL DEF TreeSpec
-----------------------------------------------------------------------------
(***************************************************************************)
(* Protocol Buffers.  Numbers come apart into groups, or bytes, and are    *)
(* put together again.                                                     *)
(***************************************************************************)
LEMMA QuotientIs ==
  ASSUME NEW v \in Nat, NEW by \in Nat \ {0}
  PROVE  /\ v \div by \in Nat /\ v % by \in 0 .. by - 1
         /\ v = (v % by) + by * (v \div by)
OBVIOUS

LEMMA QuotientLess ==
  ASSUME NEW v \in Nat, NEW by \in Nat \ {0}, NEW w \in Nat, v < by * w
  PROVE  v \div by < w
<1> DEFINE q == v \div by
<1>1. q \in Nat /\ by * q <= v BY QuotientIs
<1> HIDE DEF q
<1>2. CASE q >= w
  <2>1. q - w \in Nat /\ by * (q - w) \in Nat BY <1>1, <1>2
  <2>2. by * q = by * w + by * (q - w) BY <1>1, <2>1
  <2> QED BY <1>1, <2>1, <2>2
<1> QED BY <1>1, <1>2 DEF q

LEMMA QuotientMore ==
  ASSUME NEW v \in Nat, NEW w \in Nat, NEW by \in Nat \ {0}, v <= w
  PROVE  v \div by <= w \div by
<1> DEFINE q == w \div by
<1>1. q \in Nat /\ w % by \in 0 .. by - 1 /\ w = (w % by) + by * q BY QuotientIs
<1> HIDE DEF q
<1>2. by * (q + 1) = by * q + by BY <1>1
<1>3. v < by * (q + 1) BY <1>1, <1>2
<1>4. v \div by < q + 1
  <2>1. q + 1 \in Nat BY <1>1
  <2> QED BY <1>3, <2>1, QuotientLess
<1>5. v \div by \in Nat BY QuotientIs
<1> QED BY <1>1, <1>4, <1>5 DEF q

WireNumbers == /\ Group \in Nat /\ Group > 1 /\ Groups32 \in Nat \ {0} /\ Groups64 \in Nat \ {0}
               /\ Byte \in Nat /\ Byte > 1 /\ Byte = 2 * Group
               /\ W16 \in Nat /\ W16 = Byte * Byte
               /\ W32 \in Nat /\ W32 >= 256 /\ W32 = 8 * (W32 \div 8)
               /\ W32 = 2 * (W32 \div 2)
               /\ W64 \in Nat /\ W32 < W64 /\ W64 = 2 * (W64 \div 2)

LEMMA WireNumbersAre == WireNumbers
<1> DEFINE g2 == Group * Group
           g4 == g2 * g2
<1>1. Group \in Nat /\ Group > 1 /\ Groups32 \in Nat \ {0} /\ Groups64 \in Nat \ {0}
  BY WireAssumption
<1>2. Byte = 2 * Group /\ Byte \in Nat /\ Byte >= 4 BY <1>1 DEF Byte
<1>3. g2 \in Nat /\ g2 >= 4
  <2>1. Group - 2 \in Nat /\ Group * (Group - 2) \in Nat BY <1>1
  <2>2. Group * Group = Group * (Group - 2) + 2 * Group BY <1>1, <2>1
  <2> QED BY <1>1, <2>1, <2>2
<1>4. W16 = 4 * g2 BY <1>1, <1>2 DEF W16
<1> HIDE DEF g2
<1>5. g4 \in Nat /\ g4 >= 16
  <2>1. g2 - 4 \in Nat /\ g2 * (g2 - 4) \in Nat BY <1>3
  <2>2. g2 * g2 = g2 * (g2 - 4) + 4 * g2 BY <1>3, <2>1
  <2> QED BY <1>3, <2>1, <2>2
<1>6. W32 = 16 * g4 BY <1>3, <1>4 DEF W32
<1> HIDE DEF g4
<1>7. W32 \in Nat /\ W32 >= 256 /\ W32 = 8 * (W32 \div 8) /\ W32 = 2 * (W32 \div 2)
  BY <1>5, <1>6
<1>8. W64 = W32 * W32 /\ W64 = W32 * (W32 - 2) + 2 * W32 /\ W32 * (W32 - 2) \in Nat BY <1>7 DEF W64
<1>9. W64 \in Nat /\ W32 < W64 BY <1>7, <1>8
<1>10. W64 = 2 * (W64 \div 2)
  <2>1. W64 = 256 * (g4 * g4) /\ g4 * g4 \in Nat BY <1>5, <1>6, <1>8
  <2> HIDE DEF g4
  <2> QED BY <2>1
<1> QED BY <1>1, <1>2, <1>3, <1>4, <1>7, <1>9, <1>10 DEF WireNumbers, W16

\* The rests of a number that is shifted again and again.
RestsOf(r, v, n, by) == /\ r \in [0 .. n -> Nat] /\ r[0] = v
                        /\ \A i \in 1 .. n : r[i] = r[i - 1] \div by

LEMMA ShiftedIs ==
  ASSUME NEW v \in Nat, NEW n \in Nat, NEW by \in Nat \ {0}
  PROVE  RestsOf(Shifted(v, n, by), v, n, by)
<1> DEFINE F == [x \in Nat |-> x \div by]
           E(r, k) == IF k = 0 THEN v ELSE r[k - 1] \div by
           rest == CHOOSE r : r = [k \in 0 .. n |-> E(r, k)]
<1>1. \A x \in Nat : x \div by \in Nat BY QuotientIs
<1>2. PICK f : RunOf(f, n, Nat, v, F)
  <2>1. F \in [Nat -> Nat] BY <1>1
  <2> HIDE DEF F
  <2> QED BY <2>1, Iterated
<1>3. f \in [0 .. n -> Nat] /\ f[0] = v /\ \A i \in 1 .. n : f[i] = f[i - 1] \div by
  <2>1. f \in [0 .. n -> Nat] /\ f[0] = v /\ \A i \in 1 .. n : f[i] = F[f[i - 1]]
    BY <1>2 DEF RunOf
  <2>2. ASSUME NEW i \in 1 .. n PROVE f[i - 1] \in Nat BY <2>1
  <2> QED BY <2>1, <2>2
<1>4. ASSUME NEW k \in 0 .. n PROVE f[k] = E(f, k)
  <2>1. CASE k = 0 BY <1>3, <2>1
  <2>2. CASE k # 0
    <3>1. k \in 1 .. n BY <2>2
    <3> QED BY <1>3, <2>2, <3>1
  <2> QED BY <2>1, <2>2
<1>5. f = [k \in 0 .. n |-> E(f, k)] BY <1>3, <1>4
<1>6. rest = [k \in 0 .. n |-> E(rest, k)] BY <1>5
<1>7. Shifted(v, n, by) = rest BY DEF Shifted
<1> HIDE DEF rest
<1> DEFINE Good == {k \in 0 .. n : rest[k] = f[k]}
<1>8. 0 \in Good BY <1>3, <1>6
<1>9. ASSUME NEW k \in 0 .. n, k > 0, k - 1 \in Good PROVE k \in Good
  <2>1. k \in 1 .. n /\ k # 0 BY <1>9
  <2>2. rest[k] = rest[k - 1] \div by BY <1>6, <2>1
  <2>3. rest[k - 1] = f[k - 1] BY <1>9
  <2> QED BY <1>3, <2>1, <2>2, <2>3
<1> HIDE DEF Good
<1>10. 0 .. n \subseteq Good BY <1>8, <1>9, InductionTo
<1>11. \A k \in 0 .. n : rest[k] = f[k] BY <1>10 DEF Good
<1>12. DOMAIN rest = 0 .. n /\ rest = [k \in 0 .. n |-> rest[k]] BY <1>6
<1>13. rest = f BY <1>3, <1>11, <1>12
<1> QED BY <1>3, <1>7, <1>13 DEF RestsOf

LEMMA RestsLess ==
  ASSUME NEW v \in Nat, NEW w \in Nat, v <= w, NEW n \in Nat, NEW by \in Nat \ {0},
         NEW r, RestsOf(r, v, n, by), NEW s, RestsOf(s, w, n, by)
  PROVE  \A i \in 0 .. n : r[i] <= s[i]
<1> DEFINE Good == {i \in 0 .. n : r[i] <= s[i]}
<1>1. 0 \in Good BY DEF RestsOf
<1>2. ASSUME NEW i \in 0 .. n, i > 0, i - 1 \in Good PROVE i \in Good
  <2>1. i \in 1 .. n /\ i - 1 \in 0 .. n BY <1>2
  <2>2. r[i - 1] \in Nat /\ s[i - 1] \in Nat BY <2>1 DEF RestsOf
  <2>3. r[i - 1] <= s[i - 1] BY <1>2
  <2>4. r[i - 1] \div by <= s[i - 1] \div by BY <2>2, <2>3, QuotientMore
  <2>5. r[i] = r[i - 1] \div by /\ s[i] = s[i - 1] \div by BY <2>1 DEF RestsOf
  <2> QED BY <2>4, <2>5
<1> HIDE DEF Good
<1>3. 0 .. n \subseteq Good BY <1>1, <1>2, InductionTo
<1> QED BY <1>3 DEF Good

LEMMA LeastIs ==
  ASSUME NEW S \in SUBSET Int, NEW x \in S, \A y \in S : x <= y
  PROVE  Min(S) = x
<1>1. Min(S) \in S /\ \A y \in S : Min(S) <= y BY DEF Min
<1>2. Min(S) <= x /\ x <= Min(S) /\ Min(S) \in Int /\ x \in Int BY <1>1
<1> QED BY <1>2

LEMMA MostIs ==
  ASSUME NEW S \in SUBSET Int, NEW x \in S, \A y \in S : y <= x
  PROVE  Max(S) = x
<1>1. Max(S) \in S /\ \A y \in S : Max(S) >= y BY DEF Max
<1>2. Max(S) <= x /\ x <= Max(S) /\ Max(S) \in Int /\ x \in Int BY <1>1
<1> QED BY <1>2

\* A fold from the right: what it is of each set of places.
Summed(g, S, c, m) ==
  \A s \in SUBSET S : g[s] = IF s = {} THEN 0 ELSE c[Min(s)] + m * g[s \ {Min(s)}]

Sums(g, S, c, m) == g \in [SUBSET S -> Nat] /\ Summed(g, S, c, m)

\* A number of which each rest is a digit and the base times the next rest.
Digits(r, n, c, m) == r[n] = 0 /\ \A i \in 1 .. n : r[i - 1] = c[i] + m * r[i]

LEMMA SumsMore ==
  ASSUME NEW n \in Nat, NEW c \in [1 .. n -> Nat], NEW m \in Nat, NEW lo \in 1 .. n,
         NEW g, Sums(g, lo + 1 .. n, c, m)
  PROVE  \E h : Sums(h, lo .. n, c, m)
<1> DEFINE h == [s \in SUBSET (lo .. n) |-> IF lo \in s THEN c[lo] + m * g[s \ {lo}] ELSE g[s]]
<1>1. /\ g \in [SUBSET (lo + 1 .. n) -> Nat]
      /\ \A s \in SUBSET (lo + 1 .. n) : g[s] = IF s = {} THEN 0 ELSE c[Min(s)] + m * g[s \ {Min(s)}]
  BY DEF Sums, Summed
<1>2. ASSUME NEW s \in SUBSET (lo .. n), lo \in s
      PROVE  /\ Min(s) = lo /\ s \ {lo} \in SUBSET (lo + 1 .. n)
             /\ h[s] = c[lo] + m * g[s \ {lo}] /\ h[s \ {lo}] = g[s \ {lo}]
             /\ h[s] \in Nat
  <2>1. s \in SUBSET Int /\ \A y \in s : lo <= y OBVIOUS
  <2>2. Min(s) = lo BY <1>2, <2>1, LeastIs
  <2>3. s \ {lo} \in SUBSET (lo + 1 .. n) OBVIOUS
  <2>4. h[s] = c[lo] + m * g[s \ {lo}] BY <1>2
  <2>5. s \ {lo} \in SUBSET (lo .. n) /\ lo \notin s \ {lo} OBVIOUS
  <2>6. h[s \ {lo}] = g[s \ {lo}] BY <2>5
  <2>7. g[s \ {lo}] \in Nat /\ c[lo] \in Nat BY <1>1, <2>3
  <2>8. m * g[s \ {lo}] \in Nat BY <2>7
  <2> HIDE DEF h
  <2> QED BY <2>2, <2>3, <2>4, <2>6, <2>7, <2>8
<1>3. ASSUME NEW s \in SUBSET (lo .. n), lo \notin s
      PROVE  s \in SUBSET (lo + 1 .. n) /\ h[s] = g[s] /\ h[s] \in Nat
  <2>1. s \in SUBSET (lo + 1 .. n) BY <1>3
  <2>2. h[s] = g[s] BY <1>3
  <2> HIDE DEF h
  <2> QED BY <1>1, <2>1, <2>2
<1>4. h \in [SUBSET (lo .. n) -> Nat]
  <2>1. \A s \in SUBSET (lo .. n) : h[s] \in Nat BY <1>2, <1>3
  <2>2. DOMAIN h = SUBSET (lo .. n) /\ h = [s \in SUBSET (lo .. n) |-> h[s]] OBVIOUS
  <2> HIDE DEF h
  <2> QED BY <2>1, <2>2
<1> HIDE DEF h
<1>5. ASSUME NEW s \in SUBSET (lo .. n)
      PROVE  h[s] = IF s = {} THEN 0 ELSE c[Min(s)] + m * h[s \ {Min(s)}]
  <2>1. CASE lo \in s BY <1>2, <2>1
  <2>2. CASE lo \notin s
    <3>1. s \in SUBSET (lo + 1 .. n) /\ h[s] = g[s] BY <1>3, <2>2
    <3>2. h[s] = IF s = {} THEN 0 ELSE c[Min(s)] + m * g[s \ {Min(s)}] BY <1>1, <3>1
    <3>3. s \ {Min(s)} \in SUBSET (lo .. n) /\ lo \notin s \ {Min(s)} BY <2>2
    <3>4. h[s \ {Min(s)}] = g[s \ {Min(s)}] BY <1>3, <3>3
    <3> QED BY <3>2, <3>4
  <2> QED BY <2>1, <2>2
<1> QED BY <1>4, <1>5 DEF Sums, Summed

LEMMA SumsExist ==
  ASSUME NEW n \in Nat, NEW c \in [1 .. n -> Nat], NEW m \in Nat
  PROVE  \E g : Sums(g, 1 .. n, c, m)
<1> DEFINE Good == {k \in 0 .. n : \E g : Sums(g, n - k + 1 .. n, c, m)}
<1>1. 0 \in Good
  <2> DEFINE g == [s \in SUBSET (n + 1 .. n) |-> 0]
  <2>1. n - 0 + 1 = n + 1 /\ \A s \in SUBSET (n + 1 .. n) : s = {} OBVIOUS
  <2>2. g \in [SUBSET (n + 1 .. n) -> Nat] OBVIOUS
  <2>3. \A s \in SUBSET (n + 1 .. n) : g[s] = 0 OBVIOUS
  <2> HIDE DEF g
  <2>4. Sums(g, n + 1 .. n, c, m) BY <2>1, <2>2, <2>3 DEF Sums, Summed
  <2> QED BY <2>1, <2>4
<1>2. ASSUME NEW k \in 0 .. n, k > 0, k - 1 \in Good PROVE k \in Good
  <2>1. PICK g : Sums(g, n - (k - 1) + 1 .. n, c, m) BY <1>2
  <2>2. n - k + 1 \in 1 .. n /\ n - (k - 1) + 1 = (n - k + 1) + 1 BY <1>2
  <2>3. Sums(g, (n - k + 1) + 1 .. n, c, m) BY <2>1, <2>2
  <2>4. \E h : Sums(h, n - k + 1 .. n, c, m) BY <2>2, <2>3, SumsMore
  <2> QED BY <2>4
<1> HIDE DEF Good
<1>3. n \in Good
  <2>1. 0 .. n \subseteq Good BY <1>1, <1>2, InductionTo
  <2> QED BY <2>1
<1>4. \E g : Sums(g, n - n + 1 .. n, c, m) BY <1>3 DEF Good
<1>5. n - n + 1 = 1 OBVIOUS
<1> QED BY <1>4, <1>5

LEMMA SumsUp ==
  ASSUME NEW n \in Nat, NEW c, NEW m, NEW g, Summed(g, 1 .. n, c, m), NEW r, Digits(r, n, c, m)
  PROVE  g[1 .. n] = r[0]
<1> DEFINE Good == {k \in 0 .. n : g[n - k + 1 .. n] = r[n - k]}
<1>0. /\ \A S \in SUBSET (1 .. n) : g[S] = IF S = {} THEN 0 ELSE c[Min(S)] + m * g[S \ {Min(S)}]
      /\ r[n] = 0 /\ \A i \in 1 .. n : r[i - 1] = c[i] + m * r[i]
  BY DEF Summed, Digits
<1>1. 0 \in Good
  <2>1. n - 0 + 1 .. n = {} /\ n - 0 = n OBVIOUS
  <2>2. {} \in SUBSET (1 .. n) OBVIOUS
  <2>3. g[{}] = 0 BY <1>0, <2>2
  <2> QED BY <1>0, <2>1, <2>3
<1>2. ASSUME NEW k \in 0 .. n, k > 0, k - 1 \in Good PROVE k \in Good
  <2> DEFINE lo == n - k + 1
             s == lo .. n
  <2>1. lo \in 1 .. n /\ n - (k - 1) + 1 = lo + 1 /\ n - (k - 1) = lo /\ n - k = lo - 1 BY <1>2
  <2>2. g[lo + 1 .. n] = r[lo] BY <1>2, <2>1
  <2> HIDE DEF lo
  <2>3. s \in SUBSET (1 .. n) /\ s # {} /\ lo \in s
    <3>1. lo \in Nat /\ lo >= 1 /\ lo <= n BY <2>1
    <3>2. lo \in s BY <3>1
    <3>3. \A x \in s : x \in 1 .. n BY <3>1
    <3> QED BY <3>2, <3>3
  <2>4. s \in SUBSET Int /\ \A y \in s : lo <= y BY <2>1
  <2>5. Min(s) = lo BY <2>3, <2>4, LeastIs
  <2>6. s \ {lo} = lo + 1 .. n BY <2>1
  <2> HIDE DEF s
  <2>7. g[s] = c[lo] + m * g[s \ {lo}] BY <1>0, <2>3, <2>5
  <2>8. g[s] = c[lo] + m * r[lo] BY <2>2, <2>6, <2>7
  <2>9. g[s] = r[lo - 1] BY <1>0, <2>1, <2>8
  <2> QED BY <2>1, <2>9 DEF s, lo
<1> HIDE DEF Good
<1>3. n \in Good
  <2>1. 0 .. n \subseteq Good BY <1>1, <1>2, InductionTo
  <2> QED BY <2>1
<1>4. g[n - n + 1 .. n] = r[n - n] BY <1>3 DEF Good
<1>5. n - n + 1 = 1 /\ n - n = 0 OBVIOUS
<1> QED BY <1>4, <1>5

LEMMA GatheredIs ==
  ASSUME NEW by \in Nat \ {0}, NEW n \in Nat, NEW s \in Seq(Nat), Len(s) = n,
         NEW r, Digits(r, n, [i \in 1 .. n |-> s[i] % by], by)
  PROVE  Gathered(s, by) = r[0]
<1> DEFINE c == [i \in 1 .. n |-> s[i] % by]
           E(f, S) == IF S = {} THEN 0 ELSE (s[Min(S)] % by) + by * f[S \ {Min(S)}]
           iter == CHOOSE f : f = [S \in SUBSET DOMAIN s |-> E(f, S)]
<1>0. DOMAIN s = 1 .. n OBVIOUS
<1>1. Gathered(s, by) = iter[DOMAIN s]
  BY DEF Gathered, FoldRight, MapThenFoldSet
<1>2. c \in [1 .. n -> Nat] /\ \A i \in 1 .. n : c[i] = s[i] % by
  <2>1. \A i \in 1 .. n : s[i] \in Nat BY <1>0
  <2>2. \A i \in 1 .. n : s[i] % by \in Nat BY <1>0, <2>1
  <2> QED BY <2>2
<1> HIDE DEF c
<1>3. PICK g : Sums(g, 1 .. n, c, by)
  <2>1. c \in [1 .. n -> Nat] BY <1>2
  <2> QED BY <1>0, <2>1, SumsExist
<1>4. ASSUME NEW f, NEW S \in SUBSET (1 .. n), S # {}
      PROVE  E(f, S) = c[Min(S)] + by * f[S \ {Min(S)}]
  <2>1. \E x \in S : \A y \in S : x <= y BY <1>4, LeastNatural
  <2>2. Min(S) \in 1 .. n BY <2>1 DEF Min
  <2> QED BY <1>2, <1>4, <2>2
<1>5. \A f : E(f, {}) = 0 OBVIOUS
<1> HIDE DEF E
<1>6. g = [S \in SUBSET DOMAIN s |-> E(g, S)]
  <2>1. g \in [SUBSET (1 .. n) -> Nat] BY <1>3 DEF Sums, Summed
  <2>2. ASSUME NEW S \in SUBSET (1 .. n) PROVE g[S] = E(g, S)
    <3>1. g[S] = IF S = {} THEN 0 ELSE c[Min(S)] + by * g[S \ {Min(S)}] BY <1>3 DEF Sums, Summed
    <3>2. CASE S = {} BY <1>5, <3>1, <3>2
    <3>3. CASE S # {} BY <1>4, <3>1, <3>3
    <3> QED BY <3>2, <3>3
  <2> QED BY <1>0, <2>1, <2>2
<1>7. iter = [S \in SUBSET DOMAIN s |-> E(iter, S)] BY <1>6
<1> HIDE DEF iter
<1>8. ASSUME NEW S \in SUBSET (1 .. n)
      PROVE  iter[S] = IF S = {} THEN 0 ELSE c[Min(S)] + by * iter[S \ {Min(S)}]
  <2>1. iter[S] = E(iter, S) BY <1>0, <1>7
  <2>2. CASE S = {} BY <1>5, <2>1, <2>2
  <2>3. CASE S # {} BY <1>4, <2>1, <2>3
  <2> QED BY <2>2, <2>3
<1>9. Summed(iter, 1 .. n, c, by) BY <1>8 DEF Summed
<1>10. Digits(r, n, c, by) BY DEF c
<1>11. iter[1 .. n] = r[0] BY <1>9, <1>10, SumsUp
<1> QED BY <1>0, <1>1, <1>11

-----------------------------------------------------------------------------
\* The bytes that pieces of a number make.
Makes(s, by, v) == /\ s \in Seq(Nat)
                   /\ \E r : r[0] = v /\ Digits(r, Len(s), [i \in 1 .. Len(s) |-> s[i] % by], by)

LEMMA MakesGathered ==
  ASSUME NEW by \in Nat \ {0}, NEW v, NEW s, Makes(s, by, v)
  PROVE  Gathered(s, by) = v
<1>1. PICK r : r[0] = v /\ Digits(r, Len(s), [i \in 1 .. Len(s) |-> s[i] % by], by) BY DEF Makes
<1>2. s \in Seq(Nat) /\ Len(s) \in Nat BY DEF Makes
<1>3. Gathered(s, by) = r[0] BY <1>1, <1>2, GatheredIs
<1> QED BY <1>1, <1>3

IsVarint(s, v) == /\ Makes(s, Group, v)
                  /\ Len(s) \in 1 .. Groups64
                  /\ \A i \in 1 .. Len(s) : s[i] < Group <=> i = Len(s)

LEMMA Marked ==
  ASSUME NEW g \in Nat \ {0}, NEW x \in Nat, NEW on \in BOOLEAN
  PROVE  LET b == (x % g) + (IF on THEN g ELSE 0)
         IN b \in Nat /\ b % g = x % g /\ (b < g <=> ~on)
<1> DEFINE y == x % g
<1>1. y \in 0 .. g - 1 BY QuotientIs
<1> HIDE DEF y
<1>2. (y + g) % g = y /\ y % g = y BY <1>1
<1>3. y + 0 = y /\ y \in Nat /\ y + g \in Nat /\ y < g /\ ~(y + g < g) BY <1>1
<1> QED BY <1>2, <1>3 DEF y

LEMMA RestsAreDigits ==
  ASSUME NEW v, NEW n \in Nat, NEW by \in Nat \ {0}, NEW r, RestsOf(r, v, n, by),
         NEW k \in 0 .. n, r[k] = 0, NEW s, \A i \in 1 .. k : s[i] % by = r[i - 1] % by
  PROVE  Digits(r, k, [i \in 1 .. k |-> s[i] % by], by)
<1>1. ASSUME NEW i \in 1 .. k
      PROVE  r[i - 1] = [j \in 1 .. k |-> s[j] % by][i] + by * r[i]
  <2>1. i \in 1 .. n /\ i - 1 \in 0 .. n OBVIOUS
  <2>2. r[i - 1] \in Nat /\ r[i] = r[i - 1] \div by BY <2>1 DEF RestsOf
  <2>3. r[i - 1] = (r[i - 1] % by) + by * (r[i - 1] \div by) BY <2>2, QuotientIs
  <2>4. [j \in 1 .. k |-> s[j] % by][i] = r[i - 1] % by OBVIOUS
  <2> QED BY <2>2, <2>3, <2>4
<1> QED BY <1>1 DEF Digits

LEMMA VarintIs ==
  ASSUME NEW v \in Nat, v < W64
  PROVE  IsVarint(Varint(v), v)
<1> DEFINE rest == Shifted(v, Groups64, Group)
           full == Shifted(W64 - 1, Groups64, Group)
           K == {k \in 1 .. Groups64 : rest[k] = 0}
           n == Min(K)
           s == [i \in 1 .. n |-> (rest[i - 1] % Group) + (IF i < n THEN Group ELSE 0)]
<1>1. WireNumbers BY WireNumbersAre
<1>2. Group \in Nat \ {0} /\ Groups64 \in Nat \ {0} /\ W64 - 1 \in Nat /\ v <= W64 - 1
  BY <1>1 DEF WireNumbers
<1>3. Varint(v) = s BY DEF Varint
<1>4. RestsOf(rest, v, Groups64, Group) BY <1>2, ShiftedIs
<1>5. RestsOf(full, W64 - 1, Groups64, Group) BY <1>2, ShiftedIs
<1>6. full[Groups64] = 0 BY WireAssumption
<1> HIDE DEF rest, full
<1>7. \A i \in 0 .. Groups64 : rest[i] <= full[i] BY <1>2, <1>4, <1>5, RestsLess
<1>8. rest \in [0 .. Groups64 -> Nat] BY <1>4 DEF RestsOf
<1>9. Groups64 \in K
  <2>1. Groups64 \in 0 .. Groups64 /\ Groups64 \in 1 .. Groups64 BY <1>2
  <2>2. rest[Groups64] <= 0 /\ rest[Groups64] \in Nat BY <1>6, <1>7, <1>8, <2>1
  <2> QED BY <2>1, <2>2
<1>10. n \in K
  <2>1. K \in SUBSET Nat /\ K # {} BY <1>9
  <2> HIDE DEF K
  <2>2. \E x \in K : \A y \in K : x <= y BY <2>1, LeastNatural
  <2> QED BY <2>2 DEF Min
<1>11. n \in 1 .. Groups64 /\ rest[n] = 0 BY <1>10
<1> HIDE DEF n, K
<1>12. ASSUME NEW i \in 1 .. n
       PROVE  s[i] \in Nat /\ s[i] % Group = rest[i - 1] % Group /\ (s[i] < Group <=> i = n)
  <2>1. i - 1 \in 0 .. Groups64 /\ (i < n <=> i # n) BY <1>2, <1>11
  <2>2. rest[i - 1] \in Nat /\ (i < n) \in BOOLEAN BY <1>8, <2>1
  <2>3. s[i] = (rest[i - 1] % Group) + (IF i < n THEN Group ELSE 0) OBVIOUS
  <2> HIDE DEF s
  <2> QED BY <1>2, <2>1, <2>2, <2>3, Marked
<1>13. DOMAIN s = 1 .. n /\ s = [i \in 1 .. n |-> s[i]] OBVIOUS
<1> HIDE DEF s
<1>14. s \in [1 .. n -> Nat] BY <1>12, <1>13
<1>15. s \in Seq(Nat) /\ Len(s) = n BY <1>11, <1>14
<1>16. Digits(rest, n, [i \in 1 .. n |-> s[i] % Group], Group)
  <2>1. n \in 0 .. Groups64 /\ \A i \in 1 .. n : s[i] % Group = rest[i - 1] % Group
    BY <1>11, <1>12
  <2> QED BY <1>2, <1>4, <1>11, <2>1, RestsAreDigits
<1>17. Makes(s, Group, v)
  <2>1. rest[0] = v BY <1>4 DEF RestsOf
  <2> QED BY <1>15, <1>16, <2>1 DEF Makes
<1> QED BY <1>3, <1>11, <1>12, <1>15, <1>17 DEF IsVarint

\* A piece of a buffer.
LiesAt(s, buf, pos) == /\ pos + Len(s) <= Len(buf)
                       /\ \A i \in 1 .. Len(s) : buf[pos + i] = s[i]

LEMMA PieceIs ==
  ASSUME NEW s \in Seq(Nat), NEW buf \in Seq(Nat), NEW pos \in Nat, LiesAt(s, buf, pos)
  PROVE  SubSeq(buf, pos + 1, pos + Len(s)) = s
<1> DEFINE n == Len(s)
           t == SubSeq(buf, pos + 1, pos + n)
<1>1. n \in Nat /\ pos + n <= Len(buf) /\ \A i \in 1 .. n : buf[pos + i] = s[i] BY DEF LiesAt
<1> HIDE DEF n
<1>2. pos + 1 \in Int /\ pos + n \in Int /\ \A i \in pos + 1 .. pos + n : buf[i] \in Nat
  <2>1. ASSUME NEW i \in pos + 1 .. pos + n PROVE buf[i] \in Nat
    <3>1. i \in 1 .. Len(buf) BY <1>1
    <3> QED BY <3>1
  <2> QED BY <1>1, <2>1
<1>3. ASSUME NEW lo \in Int, NEW hi \in Int, \A i \in lo .. hi : buf[i] \in Nat
      PROVE  /\ SubSeq(buf, lo, hi) \in Seq(Nat)
             /\ Len(SubSeq(buf, lo, hi)) = IF lo <= hi THEN hi - lo + 1 ELSE 0
             /\ \A i \in 1 .. hi - lo + 1 : SubSeq(buf, lo, hi)[i] = buf[lo + i - 1]
  BY <1>3, SubSeqProperties
<1>4. /\ t \in Seq(Nat)
      /\ Len(t) = IF pos + 1 <= pos + n THEN (pos + n) - (pos + 1) + 1 ELSE 0
      /\ \A i \in 1 .. (pos + n) - (pos + 1) + 1 : t[i] = buf[pos + 1 + i - 1]
  BY <1>2, <1>3
<1> HIDE DEF t
<1>9. (pos + n) - (pos + 1) + 1 = n /\ \A i \in 1 .. n : pos + 1 + i - 1 = pos + i BY <1>1
<1>5. Len(t) = n BY <1>1, <1>4, <1>9
<1>6. \A i \in 1 .. n : t[i] = s[i] BY <1>1, <1>4, <1>9
<1>7. Len(t) = Len(s) /\ \A i \in 1 .. Len(t) : t[i] = s[i] BY <1>5, <1>6 DEF n
<1>8. t = s BY <1>4, <1>7, SeqEqual
<1> QED BY <1>8 DEF t, n

LEMMA ReadVarintBack ==
  ASSUME NEW v \in Nat, v < W64, NEW s, IsVarint(s, v),
         NEW buf \in Seq(Nat), NEW pos \in Nat, LiesAt(s, buf, pos), NEW len \in Nat, pos <= len
  PROVE  ReadVarint(buf, pos, len, Groups64) =
           IF pos + Len(s) <= len THEN [ok |-> TRUE, pos |-> pos + Len(s), value |-> v]
           ELSE NotRead(len)
<1> DEFINE marks == {k \in 1 .. Groups64 : pos + k <= len /\ buf[pos + k] < Group}
           N == Len(s)
<1>1. WireNumbers BY WireNumbersAre
<1>2. /\ Group \in Nat \ {0} /\ Groups64 \in Nat \ {0} /\ s \in Seq(Nat) /\ N \in 1 .. Groups64
      /\ \A i \in 1 .. N : s[i] < Group <=> i = N
  BY <1>1 DEF WireNumbers, IsVarint, Makes
<1>3. \A i \in 1 .. N : buf[pos + i] < Group <=> i = N BY <1>2 DEF LiesAt
<1>4. ASSUME pos + N <= len
      PROVE  ReadVarint(buf, pos, len, Groups64) = [ok |-> TRUE, pos |-> pos + N, value |-> v]
  <2>1. N \in marks BY <1>2, <1>3, <1>4
  <2>2. ASSUME NEW k \in marks PROVE N <= k
    <3>1. k \in 1 .. Groups64 /\ buf[pos + k] < Group OBVIOUS
    <3>2. CASE k \in 1 .. N BY <1>3, <3>1, <3>2
    <3> QED BY <1>2, <3>1, <3>2
  <2>3. marks \in SUBSET Int OBVIOUS
  <2> HIDE DEF marks
  <2>4. Min(marks) = N BY <2>1, <2>2, <2>3, LeastIs
  <2>5. marks # {} BY <2>1
  <2>6. SubSeq(buf, pos + 1, pos + N) = s BY <1>2, PieceIs
  <2>7. Gathered(s, Group) = v BY <1>2, MakesGathered DEF IsVarint
  <2>8. v % W64 = v BY <1>1 DEF WireNumbers
  <2>9. ReadVarint(buf, pos, len, Groups64) =
          IF marks = {} THEN NotRead(Min({Max({pos, len}), pos + Groups64}))
          ELSE [ok |-> TRUE, pos |-> pos + Min(marks),
                value |-> Gathered(SubSeq(buf, pos + 1, pos + Min(marks)), Group) % W64]
    BY DEF ReadVarint, marks
  <2> QED BY <2>4, <2>5, <2>6, <2>7, <2>8, <2>9
<1>5. ASSUME ~(pos + N <= len)
      PROVE  ReadVarint(buf, pos, len, Groups64) = NotRead(len)
  <2>1. marks = {}
    <3> SUFFICES ASSUME NEW k \in marks PROVE FALSE
      OBVIOUS
    <3>1. k \in 1 .. Groups64 /\ buf[pos + k] < Group /\ pos + k <= len OBVIOUS
    <3>2. k \in 1 .. N /\ k # N BY <1>2, <1>5, <3>1
    <3> QED BY <1>3, <3>1, <3>2
  <2>2. Max({pos, len}) = len
    <3> DEFINE S == {pos, len}
    <3>1. S \in SUBSET Int /\ len \in S /\ \A y \in S : y <= len OBVIOUS
    <3> HIDE DEF S
    <3>2. Max(S) = len BY <3>1, MostIs
    <3> QED BY <3>2 DEF S
  <2>3. Min({len, pos + Groups64}) = len
    <3> DEFINE S == {len, pos + Groups64}
    <3>1. len <= pos + Groups64 /\ pos + Groups64 \in Int BY <1>2, <1>5
    <3>2. S \in SUBSET Int /\ len \in S /\ \A y \in S : len <= y BY <3>1
    <3> HIDE DEF S
    <3>3. Min(S) = len BY <3>2, LeastIs
    <3> QED BY <3>3 DEF S
  <2>4. ReadVarint(buf, pos, len, Groups64) = NotRead(Min({Max({pos, len}), pos + Groups64}))
    BY <2>1 DEF ReadVarint
  <2> QED BY <2>2, <2>3, <2>4
<1> QED BY <1>4, <1>5

LEMMA FixedIs ==
  ASSUME NEW v \in Nat, NEW n \in Nat, Shifted(v, n, Byte)[n] = 0
  PROVE  Makes(Fixed(v, n), Byte, v) /\ Len(Fixed(v, n)) = n
<1> DEFINE rest == Shifted(v, n, Byte)
           s == [i \in 1 .. n |-> rest[i - 1] % Byte]
<1>1. Byte \in Nat \ {0} BY WireNumbersAre DEF WireNumbers
<1>2. Fixed(v, n) = s BY DEF Fixed
<1>3. RestsOf(rest, v, n, Byte) BY <1>1, ShiftedIs
<1>4. rest[n] = 0 OBVIOUS
<1> HIDE DEF rest
<1>5. ASSUME NEW i \in 1 .. n PROVE s[i] \in Nat /\ s[i] % Byte = rest[i - 1] % Byte
  <2>1. i - 1 \in 0 .. n OBVIOUS
  <2>2. rest[i - 1] \in Nat BY <1>3, <2>1 DEF RestsOf
  <2>3. rest[i - 1] % Byte \in 0 .. Byte - 1 BY <1>1, <2>2, QuotientIs
  <2>4. \A x \in 0 .. Byte - 1 : x % Byte = x BY <1>1
  <2>5. s[i] = rest[i - 1] % Byte OBVIOUS
  <2> HIDE DEF s
  <2> QED BY <1>1, <2>3, <2>4, <2>5
<1>6. DOMAIN s = 1 .. n /\ s = [i \in 1 .. n |-> s[i]] OBVIOUS
<1> HIDE DEF s
<1>7. s \in [1 .. n -> Nat] BY <1>5, <1>6
<1>8. s \in Seq(Nat) /\ Len(s) = n BY <1>7
<1>9. Digits(rest, n, [i \in 1 .. n |-> s[i] % Byte], Byte)
  <2>1. n \in 0 .. n /\ \A i \in 1 .. n : s[i] % Byte = rest[i - 1] % Byte BY <1>5
  <2> QED BY <1>1, <1>3, <1>4, <2>1, RestsAreDigits
<1>10. rest[0] = v BY <1>3 DEF RestsOf
<1> QED BY <1>2, <1>8, <1>9, <1>10 DEF Makes

\* Each shift leaves less than the next power of Byte down.
LEMMA FitsFixed ==
  ASSUME NEW v \in Nat
  PROVE  /\ v < W32 => Shifted(v, 4, Byte)[4] = 0
         /\ v < W64 => Shifted(v, 8, Byte)[8] = 0
<1> DEFINE B == Byte
<1>1. B \in Nat \ {0} /\ W16 \in Nat /\ W32 \in Nat /\ W64 \in Nat BY WireNumbersAre DEF WireNumbers
<1>2. W16 = B * B /\ W32 = B * (B * W16) /\ W64 = B * (B * (B * (B * W32)))
  <2>1. W16 = B * B BY DEF W16
  <2>2. W32 = B * (B * W16)
    <3>1. W32 = W16 * W16 BY DEF W32
    <3> HIDE DEF B
    <3> QED BY <1>1, <2>1, <3>1
  <2>3. W64 = B * (B * (B * (B * W32)))
    <3>1. W64 = W32 * W32 BY DEF W64
    <3> HIDE DEF B
    <3>2. W32 * W32 = (B * (B * W16)) * W32 BY <2>2
    <3>3. (B * (B * W16)) * W32 = B * (B * (W16 * W32)) BY <1>1
    <3>4. W16 * W32 = B * (B * W32) BY <1>1, <2>1
    <3> QED BY <3>1, <3>2, <3>3, <3>4
  <2> QED BY <2>1, <2>2, <2>3
<1> HIDE DEF B
<1>3. B * 1 = B /\ 1 \in Nat /\ B * B \in Nat /\ B * W16 \in Nat BY <1>1
<1>4. B * W32 \in Nat /\ B * (B * W32) \in Nat /\ B * (B * (B * W32)) \in Nat BY <1>1
<1>5. ASSUME NEW n \in Nat, NEW r, RestsOf(r, v, n, B), NEW i \in 1 .. n, NEW w \in Nat, r[i - 1] < B * w
      PROVE  r[i] < w
  <2>1. i - 1 \in 0 .. n OBVIOUS
  <2>2. r[i - 1] \in Nat /\ r[i] = r[i - 1] \div B BY <1>5, <2>1 DEF RestsOf
  <2> QED BY <1>1, <1>5, <2>2, QuotientLess
<1>6. ASSUME NEW n \in Nat, NEW r, RestsOf(r, v, n, B), NEW k \in 0 .. n, k + 4 <= n, r[k] < W32
      PROVE  r[k + 4] < 1
  <2>1. r[k + 1] < B * W16
    <3>1. k + 1 \in 1 .. n /\ (k + 1) - 1 = k BY <1>6
    <3> QED BY <1>2, <1>3, <1>5, <1>6, <3>1
  <2>2. r[k + 2] < W16
    <3>1. k + 2 \in 1 .. n /\ (k + 2) - 1 = k + 1 BY <1>6
    <3> QED BY <1>1, <1>5, <1>6, <2>1, <3>1
  <2>3. r[k + 3] < B
    <3>1. k + 3 \in 1 .. n /\ (k + 3) - 1 = k + 2 BY <1>6
    <3> QED BY <1>1, <1>2, <1>5, <1>6, <2>2, <3>1
  <2> QED
    <3>1. k + 4 \in 1 .. n /\ (k + 4) - 1 = k + 3 BY <1>6
    <3> QED BY <1>3, <1>5, <1>6, <2>3, <3>1
<1>7. ASSUME v < W32 PROVE Shifted(v, 4, B)[4] = 0
  <2> DEFINE r == Shifted(v, 4, B)
  <2>1. RestsOf(r, v, 4, B) BY <1>1, ShiftedIs
  <2> HIDE DEF r
  <2>2. r[0] = v /\ r[4] \in Nat BY <2>1 DEF RestsOf
  <2>3. r[0] < W32 BY <1>7, <2>2
  <2>4. 0 \in 0 .. 4 /\ 0 + 4 <= 4 /\ 4 \in Nat /\ 0 + 4 = 4 OBVIOUS
  <2>5. r[4] < 1 BY <1>6, <2>1, <2>3, <2>4
  <2> QED BY <2>2, <2>5 DEF r
<1>8. ASSUME v < W64 PROVE Shifted(v, 8, B)[8] = 0
  <2> DEFINE r == Shifted(v, 8, B)
  <2>1. RestsOf(r, v, 8, B) BY <1>1, ShiftedIs
  <2> HIDE DEF r
  <2>2. r[0] = v /\ r[8] \in Nat BY <2>1 DEF RestsOf
  <2>3. r[0] < B * (B * (B * (B * W32))) BY <1>2, <1>8, <2>2
  <2>4. 1 \in 1 .. 8 /\ 1 - 1 = 0 /\ 2 \in 1 .. 8 /\ 2 - 1 = 1 /\ 3 \in 1 .. 8 /\ 3 - 1 = 2
        /\ 4 \in 1 .. 8 /\ 4 - 1 = 3 /\ 8 \in Nat
    OBVIOUS
  <2>5. r[1] < B * (B * (B * W32)) BY <1>4, <1>5, <2>1, <2>3, <2>4
  <2>6. r[2] < B * (B * W32) BY <1>4, <1>5, <2>1, <2>4, <2>5
  <2>7. r[3] < B * W32 BY <1>4, <1>5, <2>1, <2>4, <2>6
  <2>8. r[4] < W32 BY <1>1, <1>5, <2>1, <2>4, <2>7
  <2>9. 4 \in 0 .. 8 /\ 4 + 4 <= 8 /\ 4 + 4 = 8 OBVIOUS
  <2>10. r[8] < 1 BY <1>6, <2>1, <2>4, <2>8, <2>9
  <2> QED BY <2>2, <2>10 DEF r
<1> QED BY <1>7, <1>8 DEF B

LEMMA ReadFixedBack ==
  ASSUME NEW v, NEW n \in Nat, NEW s, Makes(s, Byte, v), Len(s) = n,
         NEW buf \in Seq(Nat), NEW pos \in Nat, LiesAt(s, buf, pos), NEW len \in Nat
  PROVE  ReadFixed(buf, pos, len, n) =
           IF pos + n <= len THEN [ok |-> TRUE, pos |-> pos + n, value |-> v] ELSE NotRead(pos)
<1>1. Byte \in Nat \ {0} BY WireNumbersAre DEF WireNumbers
<1>2. Gathered(s, Byte) = v BY <1>1, MakesGathered
<1>3. s \in Seq(Nat) BY DEF Makes
<1>4. SubSeq(buf, pos + 1, pos + Len(s)) = s BY <1>3, PieceIs
<1>5. pos + n > len <=> ~(pos + n <= len) OBVIOUS
<1> QED BY <1>2, <1>4, <1>5 DEF ReadFixed, Unsigned

-----------------------------------------------------------------------------
LEMMA SignedBack ==
  ASSUME NEW w \in Nat \ {0}, w = 2 * (w \div 2), NEW v \in -(w \div 2) .. w \div 2 - 1
  PROVE  v % w \in 0 .. w - 1 /\ Signed(v % w, w) = v
<1> DEFINE h == w \div 2
<1>1. h \in Nat /\ w = 2 * h /\ v \in -h .. h - 1 OBVIOUS
<1> HIDE DEF h
<1>2. CASE v >= 0
  <2>1. v % w = v BY <1>1, <1>2
  <2>2. ~(v >= h) /\ v \in 0 .. w - 1 BY <1>1, <1>2
  <2> QED BY <2>1, <2>2 DEF Signed, h
<1>3. CASE v < 0
  <2>1. v + w \in 0 .. w - 1 /\ v + w >= h BY <1>1, <1>3
  <2>2. v % w = v + w
    <3>1. (v + w) % w = v + w BY <2>1
    <3>2. (v + w) % w = v % w BY <1>1
    <3> QED BY <3>1, <3>2
  <2>3. (v + w) - w = v BY <1>1
  <2> QED BY <2>1, <2>2, <2>3 DEF Signed, h
<1> QED BY <1>1, <1>2, <1>3

LEMMA ZigzagBack ==
  ASSUME NEW v \in Int
  PROVE  /\ zigzag(v) \in Nat /\ unzigzag(zigzag(v)) = v
         /\ \A w \in Nat : w = 2 * (w \div 2) /\ v \in -(w \div 2) .. w \div 2 - 1 => zigzag(v) < w
<1>1. CASE v >= 0
  <2>1. zigzag(v) = 2 * v BY <1>1 DEF zigzag
  <2>2. (2 * v) % 2 = 0 /\ (2 * v) \div 2 = v OBVIOUS
  <2> QED BY <1>1, <2>1, <2>2 DEF unzigzag
<1>2. CASE v < 0
  <2>1. zigzag(v) = -2 * v - 1 BY <1>2 DEF zigzag
  <2>2. (-2 * v - 1) % 2 = 1 /\ (-2 * v - 1 + 1) \div 2 = -v OBVIOUS
  <2> QED BY <1>2, <2>1, <2>2 DEF unzigzag
<1> QED BY <1>1, <1>2

Numeric == Kinds \ {"bytes"}

LEMMA KindsAre ==
  /\ Kinds = {"bool", "uint32", "int32", "sint32", "uint64", "int64", "sint64",
              "fixed32", "sfixed32", "fixed64", "sfixed64", "bytes"}
  /\ wire_type["bytes"] = LENGTH_DELIMITED
  /\ \A kind \in {"bool", "uint32", "int32", "sint32", "uint64", "int64", "sint64"} :
        wire_type[kind] = VARINT
  /\ \A kind \in {"fixed32", "sfixed32"} : wire_type[kind] = FIXED32
  /\ \A kind \in {"fixed64", "sfixed64"} : wire_type[kind] = FIXED64
BY DEF Kinds, wire_type

LEMMA CookedBack ==
  ASSUME NEW kind \in Numeric, NEW v, InRange(kind, v)
  PROVE  /\ Raw(kind, v) \in Nat /\ Raw(kind, v) < W64
         /\ wire_type[kind] = FIXED32 => Raw(kind, v) < W32
         /\ Cooked(kind, Raw(kind, v)) = v
<1>1. /\ W32 \in Nat \ {0} /\ W32 >= 256 /\ W32 = 2 * (W32 \div 2)
      /\ W64 \in Nat \ {0} /\ W32 < W64 /\ W64 = 2 * (W64 \div 2)
  BY WireNumbersAre DEF WireNumbers
<1>2. \A x \in 0 .. W32 - 1 : x % W32 = x BY <1>1
<1>3. CASE kind = "bool" BY <1>1, <1>3, KindsAre DEF InRange, Raw, Cooked, VARINT, FIXED32
<1>4. CASE kind = "uint32" BY <1>1, <1>2, <1>4, KindsAre DEF InRange, Raw, Cooked, VARINT, FIXED32
<1>5. CASE kind = "fixed32" BY <1>1, <1>2, <1>5 DEF InRange, Raw, Cooked
<1>6. CASE kind \in {"int32", "sfixed32"}
  <2>1. v \in -(W32 \div 2) .. W32 \div 2 - 1 BY <1>6 DEF InRange
  <2>2. v % W32 \in 0 .. W32 - 1 /\ Signed(v % W32, W32) = v BY <1>1, <2>1, SignedBack
  <2>3. Raw(kind, v) = v % W32 BY <1>6 DEF Raw
  <2>4. Cooked(kind, v % W32) = Signed((v % W32) % W32, W32) BY <1>6 DEF Cooked
  <2>5. (v % W32) % W32 = v % W32 BY <1>2, <2>2
  <2> QED BY <1>1, <2>2, <2>3, <2>4, <2>5
<1>7. CASE kind \in {"int64", "sfixed64"}
  <2>1. v \in -(W64 \div 2) .. W64 \div 2 - 1 BY <1>7 DEF InRange
  <2>2. v % W64 \in 0 .. W64 - 1 /\ Signed(v % W64, W64) = v BY <1>1, <2>1, SignedBack
  <2>3. Raw(kind, v) = v % W64 BY <1>7 DEF Raw
  <2>4. Cooked(kind, v % W64) = Signed(v % W64, W64) BY <1>7 DEF Cooked
  <2>5. wire_type[kind] # FIXED32 BY <1>7, KindsAre DEF VARINT, FIXED32, FIXED64
  <2> QED BY <1>1, <2>2, <2>3, <2>4, <2>5
<1>8. CASE kind = "sint32"
  <2>1. v \in -(W32 \div 2) .. W32 \div 2 - 1 /\ v \in Int BY <1>8 DEF InRange
  <2>2. zigzag(v) \in Nat /\ unzigzag(zigzag(v)) = v /\ zigzag(v) < W32 BY <1>1, <2>1, ZigzagBack
  <2>3. Raw(kind, v) = zigzag(v) BY <1>8 DEF Raw
  <2>4. Cooked(kind, zigzag(v)) = unzigzag(zigzag(v) % W32) BY <1>8 DEF Cooked
  <2>5. zigzag(v) % W32 = zigzag(v)
    <3>1. zigzag(v) \in 0 .. W32 - 1 BY <1>1, <2>2
    <3> QED BY <1>2, <3>1
  <2> QED BY <1>1, <2>2, <2>3, <2>4, <2>5
<1>9. CASE kind = "sint64"
  <2>1. v \in -(W64 \div 2) .. W64 \div 2 - 1 /\ v \in Int BY <1>9 DEF InRange
  <2>2. zigzag(v) \in Nat /\ unzigzag(zigzag(v)) = v /\ zigzag(v) < W64 BY <1>1, <2>1, ZigzagBack
  <2>3. Raw(kind, v) = zigzag(v) BY <1>9 DEF Raw
  <2>4. Cooked(kind, zigzag(v)) = unzigzag(zigzag(v)) BY <1>9 DEF Cooked
  <2>5. wire_type[kind] # FIXED32 BY <1>9, KindsAre DEF VARINT, FIXED32
  <2> QED BY <2>2, <2>3, <2>4, <2>5
<1>10. CASE kind \in {"uint64", "fixed64"}
  <2>1. wire_type[kind] # FIXED32 BY <1>10, KindsAre DEF VARINT, FIXED32, FIXED64
  <2>2. v \in 0 .. W64 - 1 BY <1>10 DEF InRange
  <2>3. Raw(kind, v) = v BY <1>10 DEF Raw
  <2>4. Cooked(kind, v) = v BY <1>10 DEF Cooked
  <2> QED BY <1>1, <2>1, <2>2, <2>3, <2>4
<1> QED BY <1>3, <1>4, <1>5, <1>6, <1>7, <1>8, <1>9, <1>10, KindsAre DEF Numeric

LEMMA RemainderIs ==
  ASSUME NEW w \in Nat \ {0}, NEW d \in Nat, NEW x \in 0 .. w - 1
  PROVE  (w * d + x) % w = x
OBVIOUS

LEMMA TagIs ==
  ASSUME NEW number \in 0 .. W32 - 1, NEW wire \in 0 .. 7
  PROVE  /\ Tag(number, wire) \in Nat /\ Tag(number, wire) < W64
         /\ (Tag(number, wire) \div 8) % W32 = number % (W32 \div 8)
         /\ Tag(number, wire) % 8 = wire
<1> DEFINE q == W32 \div 8
           m == number % q
           d == number \div q
<1>1. /\ W32 \in Nat /\ W32 >= 256 /\ W32 = 8 * q /\ W64 \in Nat /\ W32 < W64
  BY WireNumbersAre DEF WireNumbers
<1>2. q \in Nat \ {0} BY <1>1
<1> HIDE DEF q
<1>3. m \in 0 .. q - 1 /\ d \in Nat /\ number = m + q * d
  <2>1. number \in Nat BY <1>1
  <2> QED BY <1>2, <2>1, QuotientIs
<1> HIDE DEF m, d
<1>4. number * 8 = W32 * d + 8 * m
  <2>1. number * 8 = 8 * m + 8 * (q * d) BY <1>2, <1>3
  <2>2. 8 * (q * d) = (8 * q) * d BY <1>2, <1>3
  <2>3. 8 * m \in Nat /\ (8 * q) * d \in Nat BY <1>2, <1>3
  <2> QED BY <1>1, <2>1, <2>2, <2>3
<1>5. 8 * m \in 0 .. W32 - 1 /\ 8 * m <= W32 - 8 BY <1>1, <1>2, <1>3
<1>6. (number * 8) % W32 = 8 * m
  <2>1. W32 \in Nat \ {0} BY <1>1
  <2> QED BY <1>3, <1>4, <1>5, <2>1, RemainderIs
<1>7. Tag(number, wire) = 8 * m + wire BY <1>6 DEF Tag
<1>8. (8 * m + wire) \div 8 = m /\ (8 * m + wire) % 8 = wire BY <1>3
<1>9. m % W32 = m BY <1>1, <1>2, <1>3
<1>10. 8 * m + wire \in Nat /\ 8 * m + wire < W64 BY <1>1, <1>3, <1>5
<1> QED BY <1>7, <1>8, <1>9, <1>10 DEF m, q

LEMMA LiesApart ==
  ASSUME NEW s \in Seq(Nat), NEW t \in Seq(Nat), NEW buf \in Seq(Nat), NEW pos \in Nat,
         LiesAt(s \o t, buf, pos)
  PROVE  LiesAt(s, buf, pos) /\ LiesAt(t, buf, pos + Len(s))
<1>1. /\ Len(s) \in Nat /\ Len(t) \in Nat /\ Len(s \o t) = Len(s) + Len(t)
      /\ \A i \in 1 .. Len(s) + Len(t) : (s \o t)[i] = IF i <= Len(s) THEN s[i] ELSE t[i - Len(s)]
  BY ConcatProperties
<1>2. pos + Len(s \o t) <= Len(buf) /\ \A i \in 1 .. Len(s \o t) : buf[pos + i] = (s \o t)[i]
  BY DEF LiesAt
<1>3. Len(buf) \in Nat OBVIOUS
<1>4. ASSUME NEW i \in 1 .. Len(s) PROVE buf[pos + i] = s[i]
  <2>1. i \in 1 .. Len(s) + Len(t) /\ i <= Len(s) BY <1>1
  <2> QED BY <1>1, <1>2, <2>1
<1>5. ASSUME NEW i \in 1 .. Len(t) PROVE buf[pos + Len(s) + i] = t[i]
  <2>1. Len(s) + i \in 1 .. Len(s) + Len(t) /\ ~(Len(s) + i <= Len(s)) /\ (Len(s) + i) - Len(s) = i
        /\ pos + Len(s) + i = pos + (Len(s) + i)
    BY <1>1
  <2>2. (s \o t)[Len(s) + i] = t[i] BY <1>1, <2>1
  <2>3. buf[pos + (Len(s) + i)] = (s \o t)[Len(s) + i] BY <1>1, <1>2, <2>1
  <2> QED BY <2>1, <2>2, <2>3
<1>6. pos + Len(s) <= Len(buf) /\ pos + Len(s) + Len(t) <= Len(buf) BY <1>1, <1>2, <1>3
<1> QED BY <1>4, <1>5, <1>6 DEF LiesAt

\* What reading n bytes at pos should answer, in data of a length.
ReadBack(r, pos, n, len, x) ==
  IF pos + n <= len THEN r.ok = TRUE /\ r.pos = pos + n /\ r.value = x
  ELSE r.ok = FALSE /\ r.pos \in Int /\ r.pos <= len

LEMMA VarintRead ==
  ASSUME NEW x \in Nat, x < W64, NEW s, IsVarint(s, x), pbuf \in Seq(Nat), rlen \in Nat,
         NEW pos \in Nat, pos <= rlen, LiesAt(s, pbuf, pos)
  PROVE  ReadBack(read_varint(pos), pos, Len(s), rlen, x)
<1>1. ReadVarint(pbuf, pos, rlen, Groups64) =
        IF pos + Len(s) <= rlen THEN [ok |-> TRUE, pos |-> pos + Len(s), value |-> x]
        ELSE NotRead(rlen)
  BY ReadVarintBack
<1> QED BY <1>1 DEF ReadBack, read_varint, NotRead

LEMMA WiresApart ==
  /\ VARINT # FIXED32 /\ VARINT # FIXED64 /\ VARINT # LENGTH_DELIMITED
  /\ FIXED32 # FIXED64 /\ FIXED32 # LENGTH_DELIMITED /\ FIXED64 # LENGTH_DELIMITED
BY DEF VARINT, FIXED32, FIXED64, LENGTH_DELIMITED

LEMMA EncodedBy ==
  ASSUME NEW kind, NEW v
  PROVE  /\ wire_type[kind] = VARINT => Encoded(kind, v) = Varint(Raw(kind, v))
         /\ wire_type[kind] = FIXED32 => Encoded(kind, v) = Fixed(Raw(kind, v), 4)
         /\ wire_type[kind] = FIXED64 => Encoded(kind, v) = Fixed(Raw(kind, v), 8)
         /\ wire_type[kind] = LENGTH_DELIMITED => Encoded(kind, v) = Varint(Len(v)) \o v
BY WiresApart, Zenon DEF Encoded

LEMMA EncodedIs ==
  ASSUME NEW kind \in Kinds, NEW v, InRange(kind, v)
  PROVE  /\ Encoded(kind, v) \in Seq(Nat)
         /\ wire_type[kind] = VARINT => kind \in Numeric /\ IsVarint(Encoded(kind, v), Raw(kind, v))
         /\ wire_type[kind] = FIXED32 => /\ kind \in Numeric /\ Len(Encoded(kind, v)) = 4
                                         /\ Makes(Encoded(kind, v), Byte, Raw(kind, v))
         /\ wire_type[kind] = FIXED64 => /\ kind \in Numeric /\ Len(Encoded(kind, v)) = 8
                                         /\ Makes(Encoded(kind, v), Byte, Raw(kind, v))
         /\ wire_type[kind] = LENGTH_DELIMITED =>
              /\ kind = "bytes" /\ v \in Seq(Nat) /\ Len(v) < W64
              /\ IsVarint(Varint(Len(v)), Len(v)) /\ Varint(Len(v)) \in Seq(Nat)
              /\ Encoded(kind, v) = Varint(Len(v)) \o v
<1>1. CASE kind = "bytes"
  <2>1. v \in Seq(0 .. Byte - 1) /\ Len(v) < W64 BY <1>1 DEF InRange
  <2>2. 0 .. Byte - 1 \subseteq Nat BY WireNumbersAre DEF WireNumbers
  <2>3. v \in Seq(Nat) /\ Len(v) \in Nat
    <3> DEFINE D == 0 .. Byte - 1
    <3>1. v \in Seq(D) /\ D \subseteq Nat BY <2>1, <2>2
    <3> HIDE DEF D
    <3>2. v \in Seq(Nat) BY <3>1, SeqMonotonic
    <3> QED BY <3>2
  <2>4. IsVarint(Varint(Len(v)), Len(v)) BY <2>1, <2>3, VarintIs
  <2>5. Varint(Len(v)) \in Seq(Nat) BY <2>4 DEF IsVarint, Makes
  <2>6. wire_type[kind] = LENGTH_DELIMITED BY <1>1, KindsAre
  <2>7. Encoded(kind, v) = Varint(Len(v)) \o v
    BY <2>6, EncodedBy
  <2>8. Encoded(kind, v) \in Seq(Nat) BY <2>3, <2>5, <2>7, ConcatProperties
  <2> QED BY <1>1, <2>1, <2>3, <2>4, <2>5, <2>6, <2>7, <2>8 DEF VARINT, FIXED32, FIXED64, LENGTH_DELIMITED
<1>2. CASE kind # "bytes"
  <2> DEFINE x == Raw(kind, v)
  <2>1. kind \in Numeric BY <1>2 DEF Numeric
  <2>2. x \in Nat /\ x < W64 /\ (wire_type[kind] = FIXED32 => x < W32) BY <2>1, CookedBack
  <2> HIDE DEF x
  <2>3. CASE wire_type[kind] = VARINT
    <3>1. Encoded(kind, v) = Varint(x) BY <2>3, EncodedBy DEF x
    <3>2. IsVarint(Varint(x), x) BY <2>2, VarintIs
    <3>3. Varint(x) \in Seq(Nat) BY <3>2 DEF IsVarint, Makes
    <3> QED BY <2>1, <2>3, <3>1, <3>2, <3>3 DEF x, VARINT, FIXED32, FIXED64, LENGTH_DELIMITED
  <2>4. CASE wire_type[kind] = FIXED32
    <3>1. Encoded(kind, v) = Fixed(x, 4) BY <2>4, EncodedBy DEF x
    <3>2. Shifted(x, 4, Byte)[4] = 0 BY <2>2, <2>4, FitsFixed
    <3>3. Makes(Fixed(x, 4), Byte, x) /\ Len(Fixed(x, 4)) = 4 BY <2>2, <3>2, FixedIs
    <3>4. Fixed(x, 4) \in Seq(Nat) BY <3>3 DEF Makes
    <3> QED BY <2>1, <2>4, <3>1, <3>3, <3>4 DEF x, VARINT, FIXED32, FIXED64, LENGTH_DELIMITED
  <2>5. CASE wire_type[kind] = FIXED64
    <3>1. Encoded(kind, v) = Fixed(x, 8) BY <2>5, EncodedBy DEF x
    <3>2. Shifted(x, 8, Byte)[8] = 0 BY <2>2, FitsFixed
    <3>3. Makes(Fixed(x, 8), Byte, x) /\ Len(Fixed(x, 8)) = 8 BY <2>2, <3>2, FixedIs
    <3>4. Fixed(x, 8) \in Seq(Nat) BY <3>3 DEF Makes
    <3> QED BY <2>1, <2>5, <3>1, <3>3, <3>4 DEF x, VARINT, FIXED32, FIXED64, LENGTH_DELIMITED
  <2> QED BY <1>2, <2>3, <2>4, <2>5, KindsAre
<1> QED BY <1>1, <1>2

LEMMA WireRead ==
  ASSUME NEW pos
  PROVE  /\ ReadWire(pos, VARINT) = read_varint(pos)
         /\ ReadWire(pos, FIXED32) = ReadFixed(pbuf, pos, rlen, 4)
         /\ ReadWire(pos, FIXED64) = ReadFixed(pbuf, pos, rlen, 8)
         /\ ReadWire(pos, LENGTH_DELIMITED) = read_length_delimited(pos)
BY DEF ReadWire, VARINT, FIXED32, FIXED64, LENGTH_DELIMITED

\* What a reader of the kind gets: the bytes, or the integer before its sign.
Plain(kind, v) == IF kind = "bytes" THEN v ELSE Raw(kind, v)

LEMMA ValueRead ==
  ASSUME NEW kind \in Kinds, NEW v, InRange(kind, v), pbuf \in Seq(Nat), rlen \in Nat,
         NEW pos \in Nat, pos <= rlen, LiesAt(Encoded(kind, v), pbuf, pos)
  PROVE  ReadBack(ReadWire(pos, wire_type[kind]), pos, Len(Encoded(kind, v)), rlen, Plain(kind, v))
<1> DEFINE s == Encoded(kind, v)
           w == wire_type[kind]
           x == Raw(kind, v)
<1>1. w \in {VARINT, FIXED32, FIXED64, LENGTH_DELIMITED} BY KindsAre
<1>2. s \in Seq(Nat) /\ LiesAt(s, pbuf, pos) BY EncodedIs
<1>3. kind \in Numeric => x \in Nat /\ x < W64 /\ Plain(kind, v) = x
  BY CookedBack DEF Plain, Numeric
<1>4. CASE w = VARINT
  <2>1. kind \in Numeric /\ IsVarint(s, x) BY <1>4, EncodedIs
  <2> HIDE DEF s, x
  <2>2. ReadBack(read_varint(pos), pos, Len(s), rlen, x) BY <1>2, <1>3, <2>1, VarintRead
  <2>3. ReadWire(pos, w) = read_varint(pos) BY <1>4, WireRead
  <2> QED BY <1>3, <2>1, <2>2, <2>3 DEF s
<1>5. CASE w \in {FIXED32, FIXED64}
  <2> DEFINE n == IF w = FIXED32 THEN 4 ELSE 8
  <2>1. kind \in Numeric /\ Makes(s, Byte, x) /\ Len(s) = n /\ n \in Nat
    BY <1>5, EncodedIs DEF FIXED32, FIXED64
  <2>2. ReadWire(pos, w) = ReadFixed(pbuf, pos, rlen, n)
    <3> HIDE DEF w
    <3> QED BY <1>5, WireRead, WiresApart
  <2> HIDE DEF n, s, x, w
  <2>3. ReadFixed(pbuf, pos, rlen, n) =
          IF pos + n <= rlen THEN [ok |-> TRUE, pos |-> pos + n, value |-> x] ELSE NotRead(pos)
    BY <1>2, <2>1, ReadFixedBack
  <2>4. ReadBack(ReadWire(pos, w), pos, n, rlen, x) BY <2>2, <2>3 DEF ReadBack, NotRead
  <2> QED BY <1>3, <2>1, <2>4 DEF s, w
<1>6. CASE w = LENGTH_DELIMITED
  <2> DEFINE t == Varint(Len(v))
             h == read_varint(pos)
  <2>1. kind = "bytes" /\ v \in Seq(Nat) /\ Len(v) < W64 /\ IsVarint(t, Len(v)) /\ t \in Seq(Nat) /\ s = t \o v
    BY <1>6, EncodedIs
  <2>2. ReadWire(pos, w) = read_length_delimited(pos) BY <1>6, WireRead
  <2>3. Len(v) \in Nat /\ Len(t) \in Nat /\ Len(s) = Len(t) + Len(v) BY <2>1, ConcatProperties
  <2> HIDE DEF s, t, w
  <2>4. LiesAt(t, pbuf, pos) /\ LiesAt(v, pbuf, pos + Len(t)) BY <1>2, <2>1, LiesApart
  <2>5. ReadBack(h, pos, Len(t), rlen, Len(v)) BY <2>1, <2>3, <2>4, VarintRead
  <2> HIDE DEF h
  <2>6. read_length_delimited(pos) =
          IF ~h.ok \/ h.value > rlen - h.pos THEN NotRead(h.pos)
          ELSE [ok |-> TRUE, pos |-> h.pos + h.value, value |-> SubSeq(pbuf, h.pos + 1, h.pos + h.value)]
    BY DEF read_length_delimited, h
  <2>7. CASE pos + Len(t) <= rlen
    <3>1. h.ok = TRUE /\ h.pos = pos + Len(t) /\ h.value = Len(v) BY <2>5, <2>7 DEF ReadBack
    <3>2. SubSeq(pbuf, h.pos + 1, h.pos + h.value) = v
      <4>1. pos + Len(t) \in Nat BY <2>3
      <4> QED BY <2>1, <2>4, <3>1, <4>1, PieceIs
    <3>3. Len(v) > rlen - (pos + Len(t)) <=> ~(pos + Len(s) <= rlen) BY <2>3
    <3>4. (pos + Len(t)) + Len(v) = pos + Len(s) /\ pos + Len(t) \in Int BY <2>3
    <3>5. CASE pos + Len(s) <= rlen
      <4>1. read_length_delimited(pos) = [ok |-> TRUE, pos |-> pos + Len(s), value |-> v]
        BY <2>6, <3>1, <3>2, <3>3, <3>4, <3>5
      <4>2. ReadBack(ReadWire(pos, w), pos, Len(s), rlen, v) BY <2>2, <3>5, <4>1 DEF ReadBack
      <4>3. Plain(kind, v) = v BY <2>1 DEF Plain
      <4> QED BY <4>2, <4>3 DEF s, w
    <3>6. CASE ~(pos + Len(s) <= rlen)
      <4>1. read_length_delimited(pos) = NotRead(pos + Len(t)) BY <2>6, <3>1, <3>3, <3>6
      <4> QED BY <2>2, <2>7, <3>4, <3>6, <4>1 DEF ReadBack, NotRead, s, w
    <3> QED BY <3>5, <3>6
  <2>8. CASE ~(pos + Len(t) <= rlen)
    <3>1. h.ok = FALSE /\ h.pos \in Int /\ h.pos <= rlen BY <2>5, <2>8 DEF ReadBack
    <3>2. read_length_delimited(pos) = NotRead(h.pos) BY <2>6, <3>1
    <3>3. ~(pos + Len(s) <= rlen) BY <2>3, <2>8
    <3> QED BY <2>2, <3>1, <3>2, <3>3 DEF ReadBack, NotRead, s, w
  <2> QED BY <2>7, <2>8
<1> QED BY <1>1, <1>4, <1>5, <1>6

\* What reading the header of a field should answer.
HeaderBack(h, pos, n, len, number, wire) ==
  IF pos + n <= len THEN h.ok = TRUE /\ h.pos = pos + n /\ h.number = number % (W32 \div 8) /\ h.wire = wire
  ELSE h.ok = FALSE /\ h.pos \in Int /\ h.pos <= len

LEMMA HeaderRead ==
  ASSUME NEW number \in 0 .. W32 - 1, NEW wire \in 0 .. 7, pbuf \in Seq(Nat), rlen \in Nat,
         NEW pos \in Nat, pos <= rlen, LiesAt(Varint(Tag(number, wire)), pbuf, pos)
  PROVE  HeaderBack(read_field_header(pos), pos, Len(Varint(Tag(number, wire))), rlen, number, wire)
<1> DEFINE x == Tag(number, wire)
           s == Varint(x)
           h == read_varint(pos)
<1>1. /\ x \in Nat /\ x < W64 /\ (x \div 8) % W32 = number % (W32 \div 8) /\ x % 8 = wire BY TagIs
<1> HIDE DEF x
<1>2. IsVarint(s, x) BY <1>1, VarintIs
<1>3. LiesAt(s, pbuf, pos) BY DEF x
<1> HIDE DEF s
<1>4. ReadBack(h, pos, Len(s), rlen, x) BY <1>1, <1>2, <1>3, VarintRead
<1> HIDE DEF h
<1>5. read_field_header(pos) = [ok |-> h.ok, pos |-> h.pos, number |-> (h.value \div 8) % W32, wire |-> h.value % 8]
  BY DEF read_field_header, h
<1>6. HeaderBack(read_field_header(pos), pos, Len(s), rlen, number, wire)
  BY <1>1, <1>4, <1>5 DEF ReadBack, HeaderBack
<1> QED BY <1>6 DEF s, x

-----------------------------------------------------------------------------
(***************************************************************************)
(* The invariant: the fields lie in the buffer one behind the other, and   *)
(* a reader that has not failed stands where its next field starts.        *)
(***************************************************************************)
FieldBytes(f) == Varint(Tag(f.number, wire_type[f.kind])) \o Encoded(f.kind, f.value)

FieldRecords == [number : PbNumbers, kind : Kinds, value : UNION {Samples[kind] : kind \in Kinds},
                 start : Nat, stop : Nat]

FieldLies(f, buf) == /\ f.value \in Samples[f.kind]
                     /\ LiesAt(FieldBytes(f), buf, f.start)
                     /\ f.stop = f.start + Len(FieldBytes(f))

EndOf(s) == IF s = << >> THEN 0 ELSE s[Len(s)].stop

Laid == /\ pbuf \in Seq(Nat)
        /\ fields \in Seq(FieldRecords)
        /\ \A i \in 1 .. Len(fields) : /\ FieldLies(fields[i], pbuf)
                                       /\ fields[i].start = IF i = 1 THEN 0 ELSE fields[i - 1].stop
        /\ ~ptorn => Len(pbuf) = EndOf(fields)

Got(g, pos, f, len) ==
  /\ (g.got = "failure") <=> ~(f.stop <= len)
  /\ g.got # "failure" => pos = f.stop
  /\ g.got = "field" => /\ g.number = f.number % (W32 \div 8)
                        /\ ("value" \in DOMAIN g) => (g.value = f.value)
  /\ f.stop - f.start = Expected(f)

Reading == /\ rlen \in Int
           /\ rlen >= 0 =>
                /\ rlen <= Len(pbuf) /\ rpos \in Int /\ rpos <= rlen
                /\ rnext \in 1 .. Len(fields) + 1
                /\ rgot.got # "failure" /\ rnext <= Len(fields) => rpos = fields[rnext].start
                /\ rgot # Nothing => rnext > 1 /\ Got(rgot, rpos, fields[rnext - 1], rlen)

PbInv == Laid /\ Reading

LEMMA FieldIs ==
  ASSUME NEW f \in FieldRecords, f.value \in Samples[f.kind]
  PROVE  /\ f.kind \in Kinds /\ InRange(f.kind, f.value) /\ f.number \in 0 .. W32 - 1
         /\ wire_type[f.kind] \in 0 .. 7
         /\ Varint(Tag(f.number, wire_type[f.kind])) \in Seq(Nat)
         /\ Encoded(f.kind, f.value) \in Seq(Nat)
         /\ FieldBytes(f) \in Seq(Nat)
         /\ Len(FieldBytes(f)) = Len(Varint(Tag(f.number, wire_type[f.kind]))) + Len(Encoded(f.kind, f.value))
<1> DEFINE k == f.kind
           v == f.value
           n == f.number
           w == wire_type[k]
<1>1. k \in Kinds /\ n \in PbNumbers /\ v \in Samples[k] BY DEF FieldRecords
<1>2. InRange(k, v) /\ n \in 0 .. W32 - 1 BY <1>1, PbAssumption
<1>3. w \in 0 .. 7 BY <1>1, KindsAre DEF VARINT, FIXED32, FIXED64, LENGTH_DELIMITED
<1>4. FieldBytes(f) = Varint(Tag(n, w)) \o Encoded(k, v) BY DEF FieldBytes
<1> HIDE DEF k, v, n, w
<1>5. Tag(n, w) \in Nat /\ Tag(n, w) < W64 BY <1>2, <1>3, TagIs
<1>6. IsVarint(Varint(Tag(n, w)), Tag(n, w)) BY <1>5, VarintIs
<1>7. Varint(Tag(n, w)) \in Seq(Nat) BY <1>6 DEF IsVarint, Makes
<1>8. Encoded(k, v) \in Seq(Nat) BY <1>1, <1>2, EncodedIs
<1>9. /\ Varint(Tag(n, w)) \o Encoded(k, v) \in Seq(Nat)
      /\ Len(Varint(Tag(n, w)) \o Encoded(k, v)) = Len(Varint(Tag(n, w))) + Len(Encoded(k, v))
  BY <1>7, <1>8, ConcatProperties
<1> QED BY <1>1, <1>2, <1>3, <1>4, <1>7, <1>8, <1>9 DEF k, v, n, w

LEMMA ExpectedIs ==
  ASSUME NEW f \in FieldRecords, f.value \in Samples[f.kind]
  PROVE  Expected(f) = Len(FieldBytes(f))
<1> DEFINE k == f.kind
           v == f.value
           h == Varint(Tag(f.number, wire_type[k]))
<1>1. /\ k \in Kinds /\ InRange(k, v) /\ h \in Seq(Nat) /\ Encoded(k, v) \in Seq(Nat)
      /\ Len(FieldBytes(f)) = Len(h) + Len(Encoded(k, v))
  BY FieldIs
<1>2. CASE wire_type[k] = LENGTH_DELIMITED
  <2>1. Expected(f) = Len(h) + Len(Varint(Len(v))) + Len(v)
    BY <1>2 DEF Expected, length_delimited_size, field_header_size, varint_size
  <2> HIDE DEF k, v, h
  <2>2. /\ v \in Seq(Nat) /\ Varint(Len(v)) \in Seq(Nat) /\ Encoded(k, v) = Varint(Len(v)) \o v
    BY <1>1, <1>2, EncodedIs
  <2>3. Len(Encoded(k, v)) = Len(Varint(Len(v))) + Len(v) BY <2>2, ConcatProperties
  <2>4. Len(h) \in Nat /\ Len(Varint(Len(v))) \in Nat /\ Len(v) \in Nat BY <1>1, <2>2
  <2> QED BY <1>1, <2>1, <2>3, <2>4
<1>3. CASE wire_type[k] # LENGTH_DELIMITED
  <2>1. Expected(f) = Len(h) + Len(Encoded(k, v))
    BY <1>3 DEF Expected, field_header_size, varint_size
  <2> QED BY <1>1, <2>1
<1> QED BY <1>2, <1>3

LEMMA LiesStill ==
  ASSUME NEW s \in Seq(Nat), NEW buf \in Seq(Nat), NEW t \in Seq(Nat)
  PROVE  /\ \A pos \in Nat : LiesAt(s, buf, pos) => LiesAt(s, buf \o t, pos)
         /\ LiesAt(t, buf \o t, Len(buf))
<1>1. /\ Len(buf) \in Nat /\ Len(t) \in Nat /\ Len(s) \in Nat /\ Len(buf \o t) = Len(buf) + Len(t)
      /\ \A i \in 1 .. Len(buf) + Len(t) : (buf \o t)[i] = IF i <= Len(buf) THEN buf[i] ELSE t[i - Len(buf)]
  BY ConcatProperties
<1>2. ASSUME NEW pos \in Nat, LiesAt(s, buf, pos) PROVE LiesAt(s, buf \o t, pos)
  <2>1. pos + Len(s) <= Len(buf) /\ \A i \in 1 .. Len(s) : buf[pos + i] = s[i] BY <1>2 DEF LiesAt
  <2>2. ASSUME NEW i \in 1 .. Len(s) PROVE (buf \o t)[pos + i] = s[i]
    <3>1. pos + i \in 1 .. Len(buf) + Len(t) /\ pos + i <= Len(buf) BY <1>1, <2>1
    <3> QED BY <1>1, <2>1, <3>1
  <2>3. pos + Len(s) <= Len(buf \o t) BY <1>1, <2>1
  <2> QED BY <2>2, <2>3 DEF LiesAt
<1>3. LiesAt(t, buf \o t, Len(buf))
  <2>1. ASSUME NEW i \in 1 .. Len(t) PROVE (buf \o t)[Len(buf) + i] = t[i]
    <3>1. /\ Len(buf) + i \in 1 .. Len(buf) + Len(t) /\ ~(Len(buf) + i <= Len(buf))
          /\ (Len(buf) + i) - Len(buf) = i
      BY <1>1
    <3> QED BY <1>1, <3>1
  <2> QED BY <1>1, <2>1 DEF LiesAt
<1> QED BY <1>2, <1>3

\* The fields stay where they are when something is written behind them.
LEMMA FieldsStill ==
  ASSUME Laid, NEW t \in Seq(Nat), NEW i \in 1 .. Len(fields)
  PROVE  FieldLies(fields[i], pbuf \o t)
<1>1. fields[i] \in FieldRecords /\ FieldLies(fields[i], pbuf) /\ pbuf \in Seq(Nat) BY DEF Laid
<1>2. fields[i].start \in Nat BY <1>1 DEF FieldRecords
<1>3. FieldBytes(fields[i]) \in Seq(Nat) BY <1>1, FieldIs DEF FieldLies
<1>4. LiesAt(FieldBytes(fields[i]), pbuf, fields[i].start) BY <1>1 DEF FieldLies
<1>5. LiesAt(FieldBytes(fields[i]), pbuf \o t, fields[i].start) BY <1>1, <1>2, <1>3, <1>4, LiesStill
<1> QED BY <1>1, <1>5 DEF FieldLies

LEMMA PbInitInv == PbInit => PbInv
<1> SUFFICES ASSUME PbInit PROVE PbInv
  OBVIOUS
<1>1. << >> \in Seq(Nat) /\ << >> \in Seq(FieldRecords) /\ Len(<< >>) = 0 OBVIOUS
<1>2. pbuf = << >> /\ fields = << >> /\ rlen = -1 BY DEF PbInit
<1>3. EndOf(fields) = 0 BY <1>2 DEF EndOf
<1>4. Laid BY <1>1, <1>2, <1>3 DEF Laid
<1>5. Reading BY <1>2 DEF Reading
<1> QED BY <1>4, <1>5 DEF PbInv

\* What a call writes: a whole field, or one that breaks off behind its length.
Writes(number, kind, v) ==
  \E new \in Seq(Nat) :
     LET f == [number |-> number, kind |-> kind, value |-> v,
               start |-> Len(pbuf), stop |-> Len(pbuf) + Len(new)]
     IN /\ pbuf' = pbuf \o new
        /\ \/ ptorn' = TRUE /\ fields' = fields
           \/ ptorn' = FALSE /\ fields' = Append(fields, f)
              /\ new = Varint(Tag(number, wire_type[kind])) \o Encoded(kind, v)

LEMMA WritesField ==
  ASSUME NEW number \in PbNumbers, NEW kind \in Kinds, NEW v \in Samples[kind], WriteField(number, kind, v)
  PROVE  Writes(number, kind, v)
<1> DEFINE header == Varint(Tag(number, wire_type[kind]))
           size == IF kind = "bytes" THEN Varint(Len(v)) ELSE Encoded(kind, v)
           new(refused) == header \o (IF refused THEN size ELSE Encoded(kind, v))
           f(refused) == [number |-> number, kind |-> kind, value |-> v,
                          start |-> Len(pbuf), stop |-> Len(pbuf) + Len(new(refused))]
<1>1. PICK refused \in BOOLEAN :
        /\ refused => kind = "bytes"
        /\ pbuf' = pbuf \o new(refused)
        /\ ptorn' = refused
        /\ fields' = IF refused THEN fields ELSE Append(fields, f(refused))
  BY DEF WriteField
<1>2. InRange(kind, v) /\ number \in 0 .. W32 - 1 BY PbAssumption
<1>3. wire_type[kind] \in 0 .. 7 BY KindsAre DEF VARINT, FIXED32, FIXED64, LENGTH_DELIMITED
<1>4. header \in Seq(Nat)
  <2> DEFINE tag == Tag(number, wire_type[kind])
  <2>1. tag \in Nat /\ tag < W64 BY <1>2, <1>3, TagIs
  <2> HIDE DEF tag
  <2>2. IsVarint(Varint(tag), tag) BY <2>1, VarintIs
  <2> QED BY <2>2 DEF IsVarint, Makes, tag
<1>5. Encoded(kind, v) \in Seq(Nat) BY <1>2, EncodedIs
<1>6. refused => size \in Seq(Nat)
  <2> SUFFICES ASSUME refused PROVE size \in Seq(Nat)
    OBVIOUS
  <2>1. kind = "bytes" BY <1>1
  <2>2. wire_type[kind] = LENGTH_DELIMITED BY <2>1, KindsAre
  <2>3. Varint(Len(v)) \in Seq(Nat) BY <1>2, <2>2, EncodedIs
  <2> QED BY <2>1, <2>3
<1> HIDE DEF header, size
<1>7. new(refused) \in Seq(Nat)
  <2>1. CASE refused BY <1>4, <1>6, <2>1, ConcatProperties
  <2>2. CASE ~refused BY <1>4, <1>5, <2>2, ConcatProperties
  <2> QED BY <2>1, <2>2
<1>8. CASE refused
  <2> HIDE DEF new
  <2> QED BY <1>1, <1>7, <1>8 DEF Writes
<1>9. CASE ~refused
  <2>1. new(refused) = header \o Encoded(kind, v) BY <1>9
  <2> HIDE DEF new
  <2> QED BY <1>1, <1>7, <1>9, <2>1 DEF Writes, header
<1> QED BY <1>8, <1>9

LEMMA AppendedIs ==
  ASSUME NEW S, NEW s \in Seq(S), NEW e \in S
  PROVE  /\ Append(s, e) \in Seq(S) /\ Len(Append(s, e)) = Len(s) + 1
         /\ \A i \in 1 .. Len(s) : Append(s, e)[i] = s[i]
         /\ Append(s, e)[Len(s) + 1] = e
OBVIOUS

LEMMA WriteLaid ==
  ASSUME Laid, ~ptorn, NEW number \in PbNumbers, NEW kind \in Kinds, NEW v \in Samples[kind],
         Writes(number, kind, v)
  PROVE  Laid'
<1> DEFINE f(n) == [number |-> number, kind |-> kind, value |-> v,
                    start |-> Len(pbuf), stop |-> Len(pbuf) + Len(n)]
<1>1. PICK new \in Seq(Nat) :
        /\ pbuf' = pbuf \o new
        /\ \/ ptorn' = TRUE /\ fields' = fields
           \/ ptorn' = FALSE /\ fields' = Append(fields, f(new))
              /\ new = Varint(Tag(number, wire_type[kind])) \o Encoded(kind, v)
  BY DEF Writes
<1>2. /\ pbuf \in Seq(Nat) /\ fields \in Seq(FieldRecords) /\ Len(pbuf) = EndOf(fields)
      /\ \A i \in 1 .. Len(fields) : fields[i].start = IF i = 1 THEN 0 ELSE fields[i - 1].stop
  BY DEF Laid
<1>3. pbuf' \in Seq(Nat) /\ Len(pbuf') = Len(pbuf) + Len(new) /\ Len(new) \in Nat /\ Len(pbuf) \in Nat
  <2> HIDE DEF f
  <2>1. pbuf \o new \in Seq(Nat) /\ Len(pbuf \o new) = Len(pbuf) + Len(new) BY <1>2, ConcatProperties
  <2>2. pbuf' = pbuf \o new BY <1>1
  <2>3. Len(new) \in Nat /\ Len(pbuf) \in Nat BY <1>2, LenProperties
  <2> QED BY <2>1, <2>2, <2>3
<1>4. \A i \in 1 .. Len(fields) : FieldLies(fields[i], pbuf') BY <1>1, FieldsStill
<1>5. CASE ptorn' = TRUE /\ fields' = fields BY <1>2, <1>3, <1>4, <1>5 DEF Laid
<1>6. CASE /\ ptorn' = FALSE /\ fields' = Append(fields, f(new))
           /\ new = Varint(Tag(number, wire_type[kind])) \o Encoded(kind, v)
  <2> DEFINE g == f(new)
  <2>1. /\ g.number = number /\ g.kind = kind /\ g.value = v
        /\ g.start = Len(pbuf) /\ g.stop = Len(pbuf) + Len(new)
    OBVIOUS
  <2>2. g \in FieldRecords
    <3>1. v \in UNION {Samples[k] : k \in Kinds} OBVIOUS
    <3>2. Len(pbuf) + Len(new) \in Nat BY <1>3
    <3> QED BY <1>3, <3>1, <3>2 DEF FieldRecords
  <2>3. fields' = Append(fields, g) BY <1>6
  <2> HIDE DEF g, f
  <2>4. FieldBytes(g) = new BY <1>6, <2>1 DEF FieldBytes
  <2>5. LiesAt(new, pbuf', Len(pbuf)) BY <1>1, <1>2, LiesStill
  <2>6. FieldLies(g, pbuf') BY <2>1, <2>4, <2>5 DEF FieldLies
  <2>7. /\ fields' \in Seq(FieldRecords) /\ Len(fields') = Len(fields) + 1
        /\ \A i \in 1 .. Len(fields) : fields'[i] = fields[i]
        /\ fields'[Len(fields) + 1] = g
    BY <1>2, <2>2, <2>3, AppendedIs
  <2>8. Len(fields) \in Nat BY <1>2
  <2>9. g.start = IF Len(fields) + 1 = 1 THEN 0 ELSE fields[Len(fields)].stop
    <3>1. fields = << >> <=> Len(fields) = 0 BY <1>2
    <3> QED BY <1>2, <2>1, <2>8, <3>1 DEF EndOf
  <2>10. ASSUME NEW i \in 1 .. Len(fields')
         PROVE  /\ FieldLies(fields'[i], pbuf')
                /\ fields'[i].start = IF i = 1 THEN 0 ELSE fields'[i - 1].stop
    <3>1. CASE i \in 1 .. Len(fields)
      <4>1. i # 1 => i - 1 \in 1 .. Len(fields) BY <2>8, <3>1
      <4> QED BY <1>2, <1>4, <2>7, <3>1, <4>1
    <3>2. CASE i = Len(fields) + 1
      <4>1. i # 1 => Len(fields) \in 1 .. Len(fields) /\ i - 1 = Len(fields) BY <2>8, <3>2
      <4> QED BY <2>6, <2>7, <2>9, <3>2, <4>1
    <3> QED BY <2>7, <2>8, <3>1, <3>2
  <2>11. Len(pbuf') = EndOf(fields')
    <3>1. fields' # << >> /\ fields'[Len(fields')] = g BY <2>7, <2>8
    <3> QED BY <1>3, <2>1, <3>1 DEF EndOf
  <2> QED BY <1>3, <2>7, <2>10, <2>11 DEF Laid
<1> QED BY <1>1, <1>5, <1>6

LEMMA NothingApart == Nothing.got # "failure" /\ Failure # Nothing /\ Failure.got = "failure"
  BY DEF Nothing, Failure

LEMMA FirstField ==
  ASSUME Laid, NEW i \in 1 .. Len(fields)
  PROVE  /\ fields[i] \in FieldRecords /\ fields[i].value \in Samples[fields[i].kind]
         /\ fields[i].start \in Nat /\ LiesAt(FieldBytes(fields[i]), pbuf, fields[i].start)
         /\ fields[i].stop = fields[i].start + Len(FieldBytes(fields[i]))
         /\ i = 1 => fields[i].start = 0
         /\ i > 1 => fields[i].start = fields[i - 1].stop
<1>1. /\ fields[i] \in FieldRecords /\ FieldLies(fields[i], pbuf)
      /\ fields[i].start = IF i = 1 THEN 0 ELSE fields[i - 1].stop
  BY DEF Laid
<1>2. fields[i].start \in Nat BY <1>1 DEF FieldRecords
<1>3. i > 1 => i # 1 OBVIOUS
<1> QED BY <1>1, <1>2, <1>3 DEF FieldLies

\* A step of a reader, which leaves the buffer alone.
LEMMA SetInv ==
  ASSUME PbInv, NEW i \in 1 .. PbFields, set_position(i)
  PROVE  PbInv'
<1>1. /\ Laid /\ Reading /\ UNCHANGED <<pbuf, fields, ptorn, rlen>> BY DEF PbInv, set_position
<1>2. Laid' BY <1>1 DEF Laid, FieldLies
<1>3. /\ rlen >= 0 /\ i \in DOMAIN fields /\ fields[i].start <= rlen
      /\ rpos' = fields[i].start /\ rnext' = i /\ rgot' = Nothing
  BY DEF set_position
<1>4. i \in 1 .. Len(fields) /\ Len(fields) \in Nat BY <1>1, <1>3 DEF Laid
<1>5. fields[i].start \in Nat BY <1>1, <1>4, FirstField
<1>6. rlen \in Int /\ rlen <= Len(pbuf) BY <1>1, <1>3 DEF Reading
<1>7. Reading' BY <1>1, <1>3, <1>4, <1>5, <1>6, NothingApart DEF Reading
<1> QED BY <1>2, <1>7 DEF PbInv

LEMMA ReaderInv == ASSUME PbInv, reader_init PROVE PbInv'
<1>1. /\ Laid /\ UNCHANGED <<pbuf, fields, ptorn>> /\ fields # << >>
      /\ rlen' \in 0 .. Len(pbuf) /\ rpos' = 0 /\ rnext' = 1 /\ rgot' = Nothing
  BY DEF PbInv, reader_init
<1>2. Laid' BY <1>1 DEF Laid, FieldLies
<1>3. Len(pbuf) \in Nat /\ Len(fields) \in Nat /\ Len(fields) # 0 BY <1>1 DEF Laid
<1>4. 1 \in 1 .. Len(fields) BY <1>3
<1>5. fields[1].start = 0 BY <1>1, <1>4, FirstField
<1>6. Reading' BY <1>1, <1>3, <1>4, <1>5, NothingApart DEF Reading
<1> QED BY <1>2, <1>6 DEF PbInv

\* What the calls answer that read the field the reader stands at.
AllRead(f, h, r) == /\ h.ok = TRUE /\ h.number = f.number % (W32 \div 8) /\ h.wire = wire_type[f.kind]
                    /\ r.ok = TRUE /\ r.pos = f.stop /\ r.value = Plain(f.kind, f.value)

PartRead(f, h, r) == \/ h.ok = FALSE /\ h.pos \in Int /\ h.pos <= rlen
                     \/ /\ h.ok = TRUE /\ h.wire = wire_type[f.kind]
                        /\ r.ok = FALSE /\ r.pos \in Int /\ r.pos <= rlen

LEMMA FieldRead ==
  ASSUME Laid, Reading, PbReadable
  PROVE  LET f == fields[rnext]
             h == read_field_header(rpos)
             r == ReadWire(h.pos, wire_type[f.kind])
         IN /\ f.stop \in Nat
            /\ f.stop <= rlen => AllRead(f, h, r)
            /\ ~(f.stop <= rlen) => PartRead(f, h, r)
<1> DEFINE f == fields[rnext]
           wire == wire_type[f.kind]
           h == read_field_header(rpos)
           r == ReadWire(h.pos, wire)
           header == Varint(Tag(f.number, wire))
           value == Encoded(f.kind, f.value)
<1>1. /\ rlen \in Nat /\ rnext \in 1 .. Len(fields) /\ rpos = f.start /\ rpos <= rlen /\ pbuf \in Seq(Nat)
  <2>1. rnext \in DOMAIN fields /\ rgot.got # "failure" /\ rlen >= 0 BY DEF PbReadable
  <2>2. rnext \in 1 .. Len(fields) /\ Len(fields) \in Nat BY <2>1 DEF Laid
  <2> QED BY <2>1, <2>2 DEF Reading, Laid
<1>2. /\ f \in FieldRecords /\ f.value \in Samples[f.kind] /\ f.start \in Nat
      /\ LiesAt(FieldBytes(f), pbuf, f.start) /\ f.stop = f.start + Len(FieldBytes(f))
  BY <1>1, FirstField
<1>3. FieldBytes(f) = header \o value BY DEF FieldBytes
<1> HIDE DEF f
<1>4. /\ f.kind \in Kinds /\ InRange(f.kind, f.value) /\ f.number \in 0 .. W32 - 1
      /\ wire \in 0 .. 7 /\ header \in Seq(Nat) /\ value \in Seq(Nat)
      /\ Len(FieldBytes(f)) = Len(header) + Len(value)
  BY <1>2, FieldIs
<1>5. Len(header) \in Nat /\ Len(value) \in Nat /\ f.stop = f.start + Len(header) + Len(value) /\ f.stop \in Nat
  BY <1>2, <1>4
<1> HIDE DEF h
<1>6. LiesAt(header, pbuf, f.start) /\ LiesAt(value, pbuf, f.start + Len(header))
  <2> HIDE DEF header, value
  <2>1. LiesAt(header \o value, pbuf, f.start) BY <1>2, <1>3
  <2> QED BY <1>1, <1>2, <1>4, <2>1, LiesApart
<1>7. HeaderBack(h, f.start, Len(header), rlen, f.number, wire)
  <2>1. HeaderBack(read_field_header(f.start), f.start, Len(header), rlen, f.number, wire)
    BY <1>1, <1>2, <1>4, <1>6, HeaderRead
  <2> QED BY <1>1, <2>1 DEF h
<1>8. ASSUME f.start + Len(header) <= rlen
      PROVE  /\ h.ok = TRUE /\ h.pos = f.start + Len(header)
             /\ h.number = f.number % (W32 \div 8) /\ h.wire = wire
             /\ ReadBack(r, f.start + Len(header), Len(value), rlen, Plain(f.kind, f.value))
  <2>1. /\ h.ok = TRUE /\ h.pos = f.start + Len(header)
        /\ h.number = f.number % (W32 \div 8) /\ h.wire = wire
    BY <1>7, <1>8 DEF HeaderBack
  <2> DEFINE mid == f.start + Len(header)
  <2>2. mid \in Nat /\ mid <= rlen BY <1>2, <1>5, <1>8
  <2>3. LiesAt(value, pbuf, mid) BY <1>6
  <2> HIDE DEF mid
  <2>4. ReadBack(ReadWire(mid, wire), mid, Len(value), rlen, Plain(f.kind, f.value))
    BY <1>1, <1>4, <2>2, <2>3, ValueRead
  <2> QED BY <2>1, <2>4 DEF mid
<1> HIDE DEF r, wire, header, value
<1>9. ASSUME f.stop <= rlen PROVE AllRead(f, h, r)
  <2>1. f.start + Len(header) <= rlen /\ f.start + Len(header) + Len(value) <= rlen
        /\ (f.start + Len(header)) + Len(value) = f.stop
    BY <1>1, <1>2, <1>5, <1>9
  <2>2. r.ok = TRUE /\ r.pos = f.stop /\ r.value = Plain(f.kind, f.value)
    BY <1>8, <2>1 DEF ReadBack
  <2> QED BY <1>8, <2>1, <2>2 DEF AllRead, wire
<1>10. ASSUME ~(f.stop <= rlen) PROVE PartRead(f, h, r)
  <2>1. CASE f.start + Len(header) <= rlen
    <3>1. ~((f.start + Len(header)) + Len(value) <= rlen) BY <1>2, <1>5, <1>10
    <3>2. r.ok = FALSE /\ r.pos \in Int /\ r.pos <= rlen BY <1>8, <2>1, <3>1 DEF ReadBack
    <3> QED BY <1>8, <2>1, <3>2 DEF PartRead, wire
  <2>2. CASE ~(f.start + Len(header) <= rlen)
    <3>1. h.ok = FALSE /\ h.pos \in Int /\ h.pos <= rlen BY <1>7, <2>2 DEF HeaderBack
    <3> QED BY <3>1 DEF PartRead
  <2> QED BY <2>1, <2>2
<1> QED BY <1>5, <1>9, <1>10 DEF f, h, r, wire

\* What a caller makes of it.
LEMMA MeantBack ==
  ASSUME NEW kind \in Kinds, NEW v, InRange(kind, v)
  PROVE  (IF kind = "bytes" THEN Plain(kind, v) ELSE Cooked(kind, Plain(kind, v))) = v
<1>1. CASE kind = "bytes" BY <1>1 DEF Plain
<1>2. CASE kind # "bytes"
  <2>1. kind \in Numeric BY <1>2 DEF Numeric
  <2> QED BY <1>2, <2>1, CookedBack DEF Plain
<1> QED BY <1>1, <1>2

\* After a field was got, or was not, the reader stands as it should.
LEMMA ReadOn ==
  ASSUME Laid, Reading, PbReadable, UNCHANGED <<pbuf, fields, ptorn, rlen>>, rnext' = rnext + 1,
         rpos' \in Int, rpos' <= rlen,
         Got(rgot', rpos', fields[rnext], rlen),
         rgot'.got # "failure" => rpos' = fields[rnext].stop
  PROVE  PbInv'
<1>1. Laid' BY DEF Laid, FieldLies
<1>2. rnext \in 1 .. Len(fields) /\ Len(fields) \in Nat /\ rlen \in Int /\ rlen <= Len(pbuf)
  BY DEF PbReadable, Laid, Reading
<1>3. rnext' \in 1 .. Len(fields') + 1 /\ rnext' > 1 /\ rnext' - 1 = rnext BY <1>2
<1>4. rgot'.got # "failure" /\ rnext' <= Len(fields') => rpos' = fields'[rnext'].start
  <2> SUFFICES ASSUME rgot'.got # "failure", rnext' <= Len(fields') PROVE rpos' = fields[rnext'].start
    OBVIOUS
  <2>1. rnext' \in 1 .. Len(fields) BY <1>3
  <2>2. fields[rnext'].start = fields[rnext' - 1].stop BY <1>3, <2>1, FirstField
  <2> QED BY <1>3, <2>2
<1>5. Reading' BY <1>2, <1>3, <1>4 DEF Reading
<1> QED BY <1>1, <1>5 DEF PbInv

LEMMA FieldGot ==
  ASSUME NEW f, NEW pos, NEW len \in Int, f.stop \in Nat, f.stop - f.start = Expected(f)
  PROVE  /\ ~(f.stop <= len) => Got(Failure, pos, f, len)
         /\ f.stop <= len /\ pos = f.stop =>
              /\ Got([got |-> "field", number |-> f.number % (W32 \div 8), value |-> f.value], pos, f, len)
              /\ Got([got |-> "field", number |-> f.number % (W32 \div 8)], pos, f, len)
              /\ Got(NoCopy, pos, f, len)
<1> DEFINE n == f.number % (W32 \div 8)
           g == [got |-> "field", number |-> n, value |-> f.value]
           k == [got |-> "field", number |-> n]
<1>1. Failure.got = "failure" BY DEF Failure
<1>2. g.got = "field" /\ g.number = n /\ g.value = f.value OBVIOUS
<1>3. k.got = "field" /\ k.number = n /\ "value" \notin DOMAIN k OBVIOUS
<1> HIDE DEF n, g, k
<1>4. ~(f.stop <= len) => Got(Failure, pos, f, len) BY <1>1 DEF Got
<1>5. f.stop <= len /\ pos = f.stop => Got(g, pos, f, len) BY <1>2 DEF Got, n
<1>6. f.stop <= len /\ pos = f.stop => Got(k, pos, f, len) BY <1>3 DEF Got, n
<1>7. NoCopy.got = "no memory" BY DEF NoCopy
<1>8. f.stop <= len /\ pos = f.stop => Got(NoCopy, pos, f, len) BY <1>7 DEF Got
<1> QED BY <1>4, <1>5, <1>6, <1>8 DEF g, k, n

LEMMA AsExpected ==
  ASSUME Laid, NEW i \in 1 .. Len(fields)
  PROVE  fields[i].stop - fields[i].start = Expected(fields[i])
<1> DEFINE f == fields[i]
<1>1. /\ f \in FieldRecords /\ f.value \in Samples[f.kind] /\ f.start \in Nat
      /\ f.stop = f.start + Len(FieldBytes(f))
  BY FirstField
<1> HIDE DEF f
<1>2. FieldBytes(f) \in Seq(Nat) /\ Expected(f) = Len(FieldBytes(f)) BY <1>1, FieldIs, ExpectedIs
<1>3. Len(FieldBytes(f)) \in Nat BY <1>2
<1> QED BY <1>1, <1>2, <1>3 DEF f

LEMMA ReadInv == ASSUME PbInv, ReadField \/ skip_unknown PROVE PbInv'
<1> DEFINE f == fields[rnext]
           h == read_field_header(rpos)
           r == ReadWire(h.pos, wire_type[f.kind])
           whole == [got |-> "field", number |-> f.number % (W32 \div 8), value |-> f.value]
           named == [got |-> "field", number |-> f.number % (W32 \div 8)]
<1>1. /\ Laid /\ Reading /\ PbReadable /\ UNCHANGED <<pbuf, fields, ptorn, rlen>> /\ rnext' = rnext + 1
  BY DEF PbInv, ReadField, skip_unknown
<1>2. rnext \in 1 .. Len(fields) /\ rlen \in Int BY <1>1 DEF PbReadable, Laid, Reading
<1>3. /\ f.stop \in Nat
      /\ f.stop <= rlen => AllRead(f, h, r)
      /\ ~(f.stop <= rlen) => PartRead(f, h, r)
  BY <1>1, FieldRead
<1>4. f.stop - f.start = Expected(f) BY <1>1, <1>2, AsExpected
<1>5. f.kind \in Kinds /\ InRange(f.kind, f.value) BY <1>1, <1>2, FirstField, FieldIs
<1>6. ASSUME ReadField, f.stop <= rlen PROVE rpos' = f.stop /\ (rgot' = whole \/ rgot' = NoCopy)
  <2>1. AllRead(f, h, r) BY <1>3, <1>6
  <2>2. h.ok = TRUE /\ r.ok = TRUE /\ r.pos = f.stop /\ h.number = f.number % (W32 \div 8)
        /\ r.value = Plain(f.kind, f.value)
    BY <2>1 DEF AllRead
  <2>3. IF h.ok /\ r.ok
        THEN /\ rpos' = r.pos
             /\ \/ rgot' = [got |-> "field", number |-> h.number,
                             value |-> IF f.kind = "bytes" THEN r.value ELSE Cooked(f.kind, r.value)]
                \/ rgot' = NoCopy
        ELSE rpos' = (IF h.ok THEN r.pos ELSE h.pos) /\ rgot' = Failure
    BY <1>6 DEF ReadField
  <2> HIDE DEF f, h, r
  <2>4. (IF f.kind = "bytes" THEN r.value ELSE Cooked(f.kind, r.value)) = f.value BY <1>5, <2>2, MeantBack
  <2> QED BY <2>2, <2>3, <2>4
<1>7. ASSUME ReadField, ~(f.stop <= rlen) PROVE rpos' \in Int /\ rpos' <= rlen /\ rgot' = Failure
  <2>1. PartRead(f, h, r) BY <1>3, <1>7
  <2>2. /\ ~(h.ok = TRUE /\ r.ok = TRUE)
        /\ h.ok = FALSE => h.pos \in Int /\ h.pos <= rlen
        /\ h.ok = TRUE => r.ok = FALSE /\ r.pos \in Int /\ r.pos <= rlen
        /\ h.ok \in BOOLEAN
    BY <2>1 DEF PartRead
  <2>3. ~(h.ok /\ r.ok) => rpos' = (IF h.ok THEN r.pos ELSE h.pos) /\ rgot' = Failure
    BY <1>7 DEF ReadField
  <2> HIDE DEF f, h, r
  <2> QED BY <2>2, <2>3
<1> DEFINE q == IF h.ok THEN ReadWire(h.pos, h.wire) ELSE NotRead(h.pos)
<1>8. ASSUME skip_unknown
      PROVE  rpos' = q.pos /\ rgot' = IF q.ok THEN [got |-> "field", number |-> h.number] ELSE Failure
  BY <1>8 DEF skip_unknown
<1>9. ASSUME skip_unknown, f.stop <= rlen PROVE rpos' = f.stop /\ rgot' = named
  <2>1. AllRead(f, h, r) BY <1>3, <1>9
  <2>2. h.ok = TRUE /\ h.wire = wire_type[f.kind] /\ r.ok = TRUE /\ r.pos = f.stop
        /\ h.number = f.number % (W32 \div 8)
    BY <2>1 DEF AllRead
  <2> HIDE DEF h
  <2>3. q = r BY <2>2
  <2> HIDE DEF f, r, q
  <2> QED BY <1>8, <1>9, <2>2, <2>3
<1>10. ASSUME skip_unknown, ~(f.stop <= rlen) PROVE rpos' \in Int /\ rpos' <= rlen /\ rgot' = Failure
  <2>1. PartRead(f, h, r) BY <1>3, <1>10
  <2>2. \/ h.ok = FALSE /\ h.pos \in Int /\ h.pos <= rlen
        \/ /\ h.ok = TRUE /\ h.wire = wire_type[f.kind]
           /\ r.ok = FALSE /\ r.pos \in Int /\ r.pos <= rlen
    BY <2>1 DEF PartRead
  <2> HIDE DEF h
  <2>3. CASE h.ok = FALSE /\ h.pos \in Int /\ h.pos <= rlen
    <3>1. q = NotRead(h.pos) BY <2>3
    <3>2. q.ok = FALSE /\ q.pos = h.pos BY <3>1 DEF NotRead
    <3> HIDE DEF q
    <3> QED BY <1>8, <1>10, <2>3, <3>2
  <2>4. CASE /\ h.ok = TRUE /\ h.wire = wire_type[f.kind]
             /\ r.ok = FALSE /\ r.pos \in Int /\ r.pos <= rlen
    <3>1. q = r BY <2>4
    <3> HIDE DEF q, f, r
    <3> QED BY <1>8, <1>10, <2>4, <3>1
  <2> QED BY <2>2, <2>3, <2>4
<1>11. whole.got # "failure" /\ named.got # "failure" /\ NoCopy.got # "failure" BY DEF NoCopy
<1> HIDE DEF whole, named, h, r, q
<1>12. CASE f.stop <= rlen
  <2>1. rpos' = f.stop /\ (rgot' = whole \/ rgot' = named \/ rgot' = NoCopy) BY <1>6, <1>9, <1>12
  <2>2. Got(whole, rpos', f, rlen) /\ Got(named, rpos', f, rlen) /\ Got(NoCopy, rpos', f, rlen)
    <3> HIDE DEF f
    <3> QED BY <1>2, <1>3, <1>4, <1>12, <2>1, FieldGot DEF whole, named
  <2>3. Got(rgot', rpos', f, rlen) /\ rpos' \in Int /\ rpos' <= rlen BY <1>3, <1>12, <2>1, <2>2
  <2> QED BY <1>1, <2>1, <2>3, ReadOn
<1>13. CASE ~(f.stop <= rlen)
  <2>1. rpos' \in Int /\ rpos' <= rlen /\ rgot' = Failure BY <1>7, <1>10, <1>13
  <2>2. Got(rgot', rpos', f, rlen)
    <3> HIDE DEF f
    <3> QED BY <1>2, <1>3, <1>4, <1>13, <2>1, FieldGot
  <2>3. rgot'.got = "failure" BY <2>1, NothingApart
  <2> QED BY <1>1, <2>1, <2>2, <2>3, ReadOn
<1> QED BY <1>12, <1>13

LEMMA PbStepInv == PbInv /\ [PbNext]_pbVars => PbInv'
<1> SUFFICES ASSUME PbInv, [PbNext]_pbVars PROVE PbInv'
  OBVIOUS
<1>1. Laid /\ Reading BY DEF PbInv
<1>2. ASSUME NEW n \in PbNumbers, NEW kind \in Kinds, NEW v \in Samples[kind], WriteField(n, kind, v)
      PROVE  PbInv'
  <2>1. ~ptorn /\ rlen = -1 /\ rlen' = -1 BY <1>2 DEF WriteField
  <2>2. Writes(n, kind, v) BY <1>2, WritesField
  <2>3. Laid' BY <1>1, <2>1, <2>2, WriteLaid
  <2>4. Reading' BY <2>1 DEF Reading
  <2> QED BY <2>3, <2>4 DEF PbInv
<1>3. CASE writer_reset
  <2>1. rlen' = -1 /\ pbuf' = << >> /\ fields' = << >> BY <1>3 DEF writer_reset
  <2>2. << >> \in Seq(Nat) /\ << >> \in Seq(FieldRecords) /\ Len(<< >>) = 0 OBVIOUS
  <2>3. EndOf(<< >>) = 0 BY DEF EndOf
  <2>4. Laid' BY <2>1, <2>2, <2>3 DEF Laid
  <2>5. Reading' BY <2>1 DEF Reading
  <2> QED BY <2>4, <2>5 DEF PbInv
<1>4. CASE UNCHANGED pbVars
  <2>1. Laid' BY <1>1, <1>4 DEF pbVars, Laid, FieldLies
  <2>2. Reading' BY <1>1, <1>4 DEF pbVars, Reading, Got
  <2> QED BY <2>1, <2>2 DEF PbInv
<1> QED BY <1>2, <1>3, <1>4, ReaderInv, SetInv, ReadInv DEF PbNext

\* However fields of whatever kinds are written, read and skipped, in all of the
\* data or in a part that ends anywhere, a field is passed over exactly if all of
\* it is there, and is the one written unless its copy found no memory
\* (protobuf.c).
THEOREM FieldsReadBack == PbSpec => []PbReads
<1>1. PbInv => PbReads
  <2> SUFFICES ASSUME PbInv, rlen >= 0 PROVE PbReads
    BY DEF PbReads
  <2>1. rpos <= rlen /\ (rgot # Nothing => Got(rgot, rpos, fields[rnext - 1], rlen))
    BY DEF PbInv, Reading
  <2> QED BY <2>1 DEF PbReads, Got
<1> QED BY <1>1, PbInitInv, PbStepInv, PTL DEF PbSpec
===============================================================================
