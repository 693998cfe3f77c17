------------------------------ MODULE LogRing ------------------------------
(***************************************************************************)
(* The log of src/src/debug/log.c: writers copy their entries byte by byte *)
(* into a ring that a low-priority thread drains.  A byte is stored at     *)
(* log_head and log_head advanced after it, with nothing to keep a second  *)
(* writer or an interrupt out, and no test of log_tail: the ring forgets   *)
(* that it has come round.  An entry is its writer's bytes, told apart by  *)
(* their number.                                                           *)
(***************************************************************************)
EXTENDS Integers, Sequences

CONSTANTS Writers,
          RingSize,   \* LOG_BUFFER_SIZE
          EntryBytes  \* bytes of an entry (a bound)

ASSUME RingSizeAssumption == RingSize \in Nat \ {0}

VARIABLES log_buffer, log_head, log_tail,
          copying,   \* writer -> bytes of its entry stored, or -1 outside mp_log
          stored,    \* writer -> its byte is stored, log_head not yet advanced
          unread,    \* history: the bytes logged and not drained, oldest first
          muddled    \* history: the ring came round, or two writers met

logVars == <<log_buffer, log_head, log_tail, copying, stored, unread, muddled>>

LogByte(w, n) == <<w, n>>
RingAfter(i) == (i + 1) % RingSize

LogInit == /\ log_buffer = [i \in 0 .. RingSize - 1 |-> << >>]
           /\ log_head = 0 /\ log_tail = 0
           /\ copying = [w \in Writers |-> -1]
           /\ stored = [w \in Writers |-> FALSE]
           /\ unread = << >> /\ muddled = FALSE

LogCall(w) == /\ copying[w] = -1
              /\ copying' = [copying EXCEPT ![w] = 0]
              /\ muddled' = (muddled \/ \E v \in Writers : copying[v] # -1)
              /\ UNCHANGED <<log_buffer, log_head, log_tail, stored, unread>>

LogStore(w) == /\ copying[w] \in 0 .. EntryBytes - 1 /\ ~stored[w]
               /\ log_buffer' = [log_buffer EXCEPT ![log_head] = LogByte(w, copying[w])]
               /\ stored' = [stored EXCEPT ![w] = TRUE]
               /\ UNCHANGED <<log_head, log_tail, copying, unread, muddled>>

LogAdvance(w) == /\ stored[w]
                 /\ log_head' = RingAfter(log_head)
                 /\ unread' = Append(unread, LogByte(w, copying[w]))
                 /\ stored' = [stored EXCEPT ![w] = FALSE]
                 /\ copying' = [copying EXCEPT ![w] = @ + 1]
                 /\ muddled' = (muddled \/ RingAfter(log_head) = log_tail)
                 /\ UNCHANGED <<log_buffer, log_tail>>

LogReturn(w) == /\ copying[w] = EntryBytes
                /\ copying' = [copying EXCEPT ![w] = -1]
                /\ UNCHANGED <<log_buffer, log_head, log_tail, stored, unread, muddled>>

\* Mutant of Drain: it moves on before it looks at the byte.
DrainSkipping == /\ log_tail # log_head
                 /\ log_tail' = RingAfter(log_tail)
                 /\ unread' = SelectSeq(unread, LAMBDA b : b # log_buffer[log_tail'])
                 /\ UNCHANGED <<log_buffer, log_head, copying, stored, muddled>>

\* mp_log_drain takes the byte at log_tail.
Drain == /\ log_tail # log_head
         /\ log_tail' = RingAfter(log_tail)
         /\ unread' = IF unread # << >> /\ Head(unread) = log_buffer[log_tail] THEN Tail(unread) ELSE unread
         /\ UNCHANGED <<log_buffer, log_head, copying, stored, muddled>>

LogNext == \/ \E w \in Writers : LogCall(w) \/ LogStore(w) \/ LogAdvance(w) \/ LogReturn(w)
           \/ Drain

LogSpec == LogInit /\ [][LogNext]_logVars
-----------------------------------------------------------------------------
(***************************************************************************)
(* What the drain is yet to read is what was logged and not read, in order *)
(* and uncut: unless the ring came round, or two writers were in mp_log at *)
(* once.                                                                   *)
(***************************************************************************)
LogInOrder == ~muddled =>
  unread = [n \in 1 .. (log_head - log_tail) % RingSize |-> log_buffer[(log_tail + n - 1) % RingSize]]
=============================================================================
