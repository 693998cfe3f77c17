-------------------------------- MODULE Http --------------------------------
(***************************************************************************)
(* The HTTP client of src/src/network/http_client.c: mp_http_get and       *)
(* mp_http_post make a request of allocated blocks, send it over a socket  *)
(* in pieces, collect the response in a block that grows, and destroy the  *)
(* request.  Every step on the way may fail, and must give back what the   *)
(* steps before it took.                                                   *)
(*                                                                         *)
(* The socket layer, the resolver and the peer (external) answer as they   *)
(* like; the response comes in chunks, of which the first to start with    *)
(* HTTP/ carries the status.  One task makes one call at a time.           *)
(***************************************************************************)
EXTENDS Integers

CONSTANTS MaxChunks,   \* chunks of one response (a bound)
          MaxRequests  \* requests made, as the blocks they leave add up (a bound)

VARIABLES at_step,    \* "none", "made", a step of mp_http_request_send, "over" or "crashed"
          heap,       \* the allocated blocks, each of a request: <<request, part>>
          sockfd,     \* the socket of the request is open
          chunks,     \* the chunks in its response
          status_code,
          failed,     \* mp_http_request_send returned -1
          returned,   \* what the last call returned
          requests    \* the requests made so far, the last of which is current

requestVars == <<chunks, status_code, failed, returned, requests>>
httpVars == <<at_step, heap, sockfd, requestVars>>

HttpInit == /\ at_step = "none" /\ heap = {} /\ sockfd = FALSE
            /\ chunks = 0 /\ status_code = 0 /\ failed = FALSE
            /\ returned = 0 /\ requests = 0

\* The parts of the request under way that are allocated.
Owned == {part \in {"request", "host", "path", "body", "header", "response"} : <<requests, part>> \in heap}
-----------------------------------------------------------------------------
\* Either copy may come to nothing unnoticed, but for that of a host with a port
\* or a path behind it.
ParseUrl == SUBSET {"host", "path"}

\* mp_http_request_create, with what the call adds to the request.
RequestCreate(extras) ==
  /\ at_step = "none" /\ requests < MaxRequests
  /\ at_step' = "made"
  /\ requests' = requests + 1
  /\ \E names \in ParseUrl, more \in extras :
       heap' = heap \cup ({requests'} \X ({"request"} \cup names \cup more))
  /\ chunks' = 0 /\ status_code' = 0 /\ failed' = FALSE
  /\ UNCHANGED <<sockfd, returned>>

HttpGet == RequestCreate({{}})

\* Body and header may be refused for lack of memory, which post does not look at.
HttpPost == RequestCreate(SUBSET {"body", "header"})

\* The request cannot be allocated, or its URL not taken apart.
RequestFails == /\ at_step = "none"
                /\ returned' = -1 /\ failed' = TRUE
                /\ UNCHANGED <<at_step, heap, sockfd, chunks, status_code, requests>>
-----------------------------------------------------------------------------
Proceed(step) == /\ at_step' = step
                 /\ UNCHANGED <<heap, sockfd, requestVars>>

\* mp_close and an early return.
GiveUp == /\ sockfd' = FALSE /\ failed' = TRUE /\ at_step' = "over"
          /\ UNCHANGED <<heap, chunks, status_code, returned, requests>>

RequestSend == /\ at_step = "made"
               /\ \/ sockfd' = TRUE /\ at_step' = "resolve" /\ UNCHANGED failed
                  \/ failed' = TRUE /\ at_step' = "over" /\ UNCHANGED sockfd
               /\ UNCHANGED <<heap, chunks, status_code, returned, requests>>

ResolveHost == at_step = "resolve" /\ (Proceed("connect") \/ GiveUp)

ConnectToServer == at_step = "connect" /\ (Proceed("await") \/ GiveUp)

\* The socket becomes available, or the time runs out.
AwaitConnection == at_step = "await" /\ (Proceed("check") \/ GiveUp)

\* Mutant of CheckConnection: an error on the socket leaves it open.
CheckConnectionOpen == /\ at_step = "check"
                       /\ \/ Proceed("line")
                          \/ /\ failed' = TRUE /\ at_step' = "over"
                             /\ UNCHANGED <<sockfd, heap, chunks, status_code, returned, requests>>

CheckConnection == at_step = "check" /\ (Proceed("line") \/ GiveUp)

SendRequestLine == at_step = "line" /\ (Proceed("host") \/ GiveUp)

SendHostHeader == at_step = "host" /\ (Proceed("headers") \/ GiveUp)

SendHeaders == /\ at_step = "headers"
               /\ Proceed("length") \/ ("header" \in Owned /\ GiveUp)

SendContentLength == /\ at_step = "length"
                     /\ Proceed("end") \/ ("body" \in Owned /\ GiveUp)

SendEndOfHeaders == at_step = "end" /\ (Proceed("body") \/ GiveUp)

SendBody == /\ at_step = "body"
            /\ Proceed("receive") \/ ("body" \in Owned /\ GiveUp)

\* A chunk may carry the status, unless one before it did.
StatusLine == status_code' \in IF status_code = 0 THEN {0, 200} ELSE {status_code}

ReceiveChunk == /\ at_step = "receive" /\ chunks < MaxChunks
                /\ StatusLine
                /\ chunks' = chunks + 1 /\ heap' = heap \cup {<<requests, "response">>}
                /\ UNCHANGED <<at_step, sockfd, failed, returned, requests>>

\* The response cannot grow by the chunk, whose status is kept.
ChunkDropped == /\ at_step = "receive"
                /\ StatusLine
                /\ sockfd' = FALSE /\ failed' = TRUE /\ at_step' = "over"
                /\ UNCHANGED <<heap, chunks, returned, requests>>

\* Time is up, or reading fails although the socket is available.
ReceiveFails == at_step = "receive" /\ GiveUp

PeerCloses == /\ at_step = "receive"
              /\ sockfd' = FALSE /\ at_step' = "over"
              /\ UNCHANGED <<heap, requestVars>>
-----------------------------------------------------------------------------
\* mp_http_request_destroy: the host and the path are not freed.
RequestDestroy == heap' = heap \ ({requests} \X {"request", "header", "body", "response"})

\* Get and post copy the response of a send that worked, and return its status anyway.
FinishRequest == /\ at_step = "over" /\ (failed \/ "response" \in Owned)
                 /\ returned' = status_code
                 /\ RequestDestroy
                 /\ at_step' = "none"
                 /\ UNCHANGED <<sockfd, chunks, status_code, failed, requests>>

\* There is no response to copy: strdup is given a null pointer.
FinishEmpty == /\ at_step = "over" /\ ~failed /\ "response" \notin Owned
               /\ Proceed("crashed")

HttpNext == \/ HttpGet \/ HttpPost \/ RequestFails
            \/ RequestSend \/ ResolveHost \/ ConnectToServer \/ AwaitConnection \/ CheckConnection
            \/ SendRequestLine \/ SendHostHeader \/ SendHeaders \/ SendContentLength
            \/ SendEndOfHeaders \/ SendBody
            \/ ReceiveChunk \/ ChunkDropped \/ ReceiveFails \/ PeerCloses
            \/ FinishRequest \/ FinishEmpty

HttpSpec == HttpInit /\ [][HttpNext]_httpVars
-----------------------------------------------------------------------------
OnItsWay == {"resolve", "connect", "await", "check", "line", "host", "headers", "length", "end",
             "body", "receive"}

(***************************************************************************)
(* Whichever step of a request failed, its socket is closed when its       *)
(* sending is over, and when the call has returned nothing it allocated is *)
(* left, but for its host and its path, which no code frees.  While it     *)
(* runs there is a response when and only when data was received.  A       *)
(* status is returned only with a response, or when the send failed (then  *)
(* it is of a response that was cut off or did not fit, and dropped).      *)
(***************************************************************************)
HttpReleases == /\ sockfd <=> at_step \in OnItsWay
                /\ \A block \in heap : \/ block[2] \in {"host", "path"}
                                       \/ at_step # "none" /\ block[1] = requests
                /\ at_step # "none" => ("response" \in Owned <=> chunks > 0)
                /\ at_step = "none" /\ returned \notin {-1, 0} => chunks > 0 \/ failed
=============================================================================
