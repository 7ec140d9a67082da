------------------------------- MODULE LogRing -------------------------------
(***************************************************************************)
(* The log tail of main/log_stream.c: every task that logs writes its line *)
(* into a ring under s_ring_lock and then notifies the log worker, which   *)
(* copies chunks out under the same lock and sends them to the client of   *)
(* GET /log.                                                               *)
(*                                                                         *)
(* A byte is its position in the log since boot.  A line or a chunk is     *)
(* copied inside one critical section, so it is one step.                  *)
(***************************************************************************)
EXTENDS Integers, Sequences

CONSTANTS
    Writers,        \* the tasks that log
    RingSize,       \* LOG_RING_BUFFER_SIZE
    LineMax,        \* LOG_LINE_MAX_LEN - 1
    ChunkSize,      \* LOG_SEND_CHUNK_SIZE
    Modulus,        \* 2^32: s_write_total and last_sent are size_t
    MaxLogged       \* bound on the bytes logged in a behaviour

ASSUME SizesAssumption ==
    /\ RingSize \in Nat \ {0}
    /\ LineMax \in 1 .. RingSize
    /\ ChunkSize \in Nat \ {0}
    /\ MaxLogged \in Nat
ASSUME ModulusAssumption ==
    Modulus \in Nat /\ Modulus > RingSize /\ Modulus % RingSize = 0

VARIABLES
    logged,         \* history: bytes logged since boot
    total,          \* s_write_total
    ring,           \* ring[i]: the byte in s_ring_buffer[i], -1 for none
    writerPc,       \* writers between their write and their notification
    notified,       \* the worker's notification value is not zero
    readerPc,       \* where log_worker_task is
    lastSent,       \* last_sent
    chunk,          \* the bytes copied and not yet sent
    next,           \* history: the byte this response should go on with
    clientHere,     \* the peer has not closed or reset the connection
    unread          \* a byte sent since the request waits in the socket

ringVars == <<logged, total, ring>>
readerVars == <<readerPc, lastSent, chunk, next>>
clientVars == <<clientHere, unread>>
vars == <<ringVars, writerPc, notified, readerVars, clientVars>>

Lower(a, b) == IF a < b THEN a ELSE b

\* size_t subtraction.
Minus(a, b) == (a - b) % Modulus

Init ==
    /\ logged = 0
    /\ total = 0
    /\ ring = [i \in 0 .. RingSize - 1 |-> -1]
    /\ writerPc = [w \in Writers |-> "idle"]
    /\ notified = FALSE
    /\ readerPc = "idle"
    /\ lastSent = 0
    /\ chunk = <<>>
    /\ next = 0
    /\ clientHere = FALSE
    /\ unread = FALSE

\* The ring after a line of len bytes.
RingAfter(len) ==
    [i \in DOMAIN ring |->
        IF \E k \in 0 .. len - 1 : i = ((total + k) % Modulus) % RingSize
        THEN logged + (CHOOSE k \in 0 .. len - 1 :
                           i = ((total + k) % Modulus) % RingSize)
        ELSE ring[i]]

\* What a reader at position from copies of n bytes.
Copied(from, n) ==
    [k \in 1 .. n |-> ring[((from + k - 1) % Modulus) % RingSize]]

-----------------------------------------------------------------------------
(* Faulty variants of definitions below, for the mutation runs.            *)

\* A reader that was overrun goes on where it stood.
CopyIgnoresOverrun ==
    /\ readerPc = "copy"
    /\ LET available == Minus(total, lastSent)
           n == Lower(available, ChunkSize)
       IN  /\ chunk' = Copied(lastSent, n)
           /\ UNCHANGED lastSent
           /\ next' = IF n > 0 THEN chunk'[1] ELSE next
           /\ readerPc' = IF n > 0 THEN "send" ELSE "wait"
    /\ UNCHANGED <<ringVars, writerPc, notified, clientVars>>

\* A reader that was overrun skips to the newest byte.
CopySkipsToNewest ==
    /\ readerPc = "copy"
    /\ LET behind == Minus(total, lastSent)
           from == IF behind > RingSize THEN Minus(total, 1) ELSE lastSent
           n == Lower(Minus(total, from), ChunkSize)
       IN  /\ chunk' = Copied(from, n)
           /\ lastSent' = from
           /\ next' = IF n > 0 THEN chunk'[1] ELSE next
           /\ readerPc' = IF n > 0 THEN "send" ELSE "wait"
    /\ UNCHANGED <<ringVars, writerPc, notified, clientVars>>

\* The worker clears its notification once more before it waits: one that came
\* after it had looked at the ring wakes nobody.
WakeClearsFirst ==
    /\ readerPc = "wait"
    /\ notified
    /\ notified' = FALSE
    /\ readerPc' \in {"wait", "probe"}
    /\ UNCHANGED <<ringVars, writerPc, lastSent, chunk, next, clientVars>>

-----------------------------------------------------------------------------
(* log_capture_vprintf, in the task that logs.                             *)

\* A line of 1 .. LineMax bytes, longer ones cut, is written under the lock.
\* The reader is less than Modulus bytes behind: a send does not last while
\* 4 GiB are logged.
LogLine(w) ==
    /\ writerPc[w] = "idle"
    /\ \E formatted \in 1 .. LineMax + 1 :
          LET len == Lower(formatted, LineMax)
          IN  /\ logged + len <= MaxLogged
              /\ readerPc = "idle" \/ logged + len - next < Modulus
              /\ ring' = RingAfter(len)
              /\ total' = (total + len) % Modulus
              /\ logged' = logged + len
    /\ writerPc' = [writerPc EXCEPT ![w] = "notify"]
    /\ UNCHANGED <<notified, readerVars, clientVars>>

\* The worker is notified after the lock is released.
LogNotify(w) ==
    /\ writerPc[w] = "notify"
    /\ notified' = TRUE
    /\ writerPc' = [writerPc EXCEPT ![w] = "idle"]
    /\ UNCHANGED <<ringVars, readerVars, clientVars>>

-----------------------------------------------------------------------------
(* log_worker_task and log_response_send.                                  *)

\* A request is taken from s_log_request_queue; the response starts with the
\* oldest byte of the ring, as the code computes it.
ReaderStart ==
    /\ readerPc = "idle"
    /\ lastSent' = IF total > RingSize THEN total - RingSize ELSE 0
    /\ next' = logged - Minus(total, lastSent')
    /\ clientHere' = TRUE
    /\ readerPc' = "clear"
    /\ UNCHANGED <<ringVars, writerPc, notified, chunk, unread>>

\* ulTaskNotifyTake(pdTRUE, 0).
ReaderClear ==
    /\ readerPc = "clear"
    /\ notified' = FALSE
    /\ readerPc' = "copy"
    /\ UNCHANGED <<ringVars, writerPc, lastSent, chunk, next, clientVars>>

\* The critical section: a reader that was overrun skips to the oldest
\* survivor, then copies a chunk.
ReaderCopy ==
    /\ readerPc = "copy"
    /\ LET behind == Minus(total, lastSent)
           from == IF behind > RingSize THEN Minus(total, RingSize) ELSE lastSent
           n == Lower(Minus(total, from), ChunkSize)
       IN  /\ chunk' = Copied(from, n)
           /\ lastSent' = from
           /\ next' = IF n > 0 THEN chunk'[1] ELSE next
           /\ readerPc' = IF n > 0 THEN "send" ELSE "wait"
    /\ UNCHANGED <<ringVars, writerPc, notified, clientVars>>

\* httpd_resp_send_chunk succeeds, perhaps for a client that has just gone ...
ReaderSend ==
    /\ readerPc = "send"
    /\ lastSent' = (lastSent + Len(chunk)) % Modulus
    /\ next' = next + Len(chunk)
    /\ chunk' = <<>>
    /\ readerPc' = "copy"
    /\ UNCHANGED <<ringVars, writerPc, notified, clientVars>>

\* ... or fails, and the request is completed.
ReaderSendFails ==
    /\ readerPc = "send"
    /\ chunk' = <<>>
    /\ clientHere' = FALSE
    /\ unread' = FALSE
    /\ readerPc' = "idle"
    /\ UNCHANGED <<ringVars, writerPc, notified, lastSent, next>>

\* ulTaskNotifyTake(pdTRUE, LOG_DISCONNECT_CHECK_MS): a wakeup ...
ReaderWake ==
    /\ readerPc = "wait"
    /\ notified
    /\ notified' = FALSE
    /\ readerPc' = "probe"
    /\ UNCHANGED <<ringVars, writerPc, lastSent, chunk, next, clientVars>>

\* ... or a second without one.
ReaderTimeout ==
    /\ readerPc = "wait"
    /\ ~notified
    /\ readerPc' = "probe"
    /\ UNCHANGED <<ringVars, writerPc, notified, lastSent, chunk, next,
                   clientVars>>

\* log_client_is_connected: recv peeks at the socket.  A byte nobody reads
\* stays before the end of the connection, and is taken for a sign of life.
ReaderProbe ==
    /\ readerPc = "probe"
    /\ readerPc' = IF clientHere \/ unread THEN "copy" ELSE "idle"
    /\ UNCHANGED <<ringVars, writerPc, notified, lastSent, chunk, next,
                   clientVars>>

\* The client sends a byte more than its request: nothing reads it while the
\* response lasts.
ClientWrites ==
    /\ readerPc # "idle"
    /\ clientHere
    /\ unread' = TRUE
    /\ UNCHANGED <<ringVars, writerPc, notified, readerVars, clientHere>>

\* The client closes the connection, at any moment of the response.
ClientLeaves ==
    /\ readerPc # "idle"
    /\ clientHere
    /\ clientHere' = FALSE
    /\ UNCHANGED <<ringVars, writerPc, notified, readerVars, unread>>

\* The steps of the worker that wait for nothing but the processor.
ReaderRuns ==
    \/ ReaderClear \/ ReaderCopy \/ ReaderSend \/ ReaderSendFails
    \/ ReaderWake \/ ReaderProbe

-----------------------------------------------------------------------------
Next ==
    \/ \E w \in Writers : LogLine(w) \/ LogNotify(w)
    \/ ReaderStart \/ ReaderRuns \/ ReaderTimeout
    \/ ClientWrites \/ ClientLeaves

Spec == Init /\ [][Next]_vars

\* Ready tasks run.  Nothing is assumed of timeouts: wakeups alone drain the
\* log.
FairSpec ==
    /\ Spec
    /\ \A w \in Writers : WF_vars(LogNotify(w))
    /\ WF_vars(ReaderRuns)

-----------------------------------------------------------------------------
(* Properties.                                                             *)

\* Every variable keeps to the values its C type allows.
TypeOK ==
    /\ logged \in 0 .. MaxLogged
    /\ total \in 0 .. Modulus - 1
    /\ ring \in [0 .. RingSize - 1 -> -1 .. MaxLogged - 1]
    /\ writerPc \in [Writers -> {"idle", "notify"}]
    /\ notified \in BOOLEAN
    /\ readerPc \in {"idle", "clear", "copy", "send", "wait", "probe"}
    /\ lastSent \in 0 .. Modulus - 1
    /\ chunk \in Seq(-1 .. MaxLogged - 1)
    /\ Len(chunk) <= ChunkSize
    /\ next \in -1 .. MaxLogged
    /\ clientHere \in BOOLEAN
    /\ unread \in BOOLEAN

\* A chunk is a stretch of the log: the bytes were logged one after the other
\* and none comes from another turn of the ring, whatever was written between
\* the chunks and however often the counter wrapped.
ChunkIsIntact ==
    \A i \in DOMAIN chunk : chunk[i] = next + i - 1 /\ chunk[i] < logged

\* A response goes on with the byte after the last one it sent; bytes it
\* leaves out have been overwritten, and it repeats none.
OnlyOverwrittenIsSkipped ==
    [][(readerPc = "copy" /\ readerPc' = "send") =>
          chunk'[1] = next \/ (chunk'[1] > next /\ chunk'[1] = logged - RingSize)]_vars

\* A worker asleep has sent everything, or a wakeup is waiting or on its way.
NoLostWakeup ==
    (readerPc = "wait" /\ lastSent # total) =>
        notified \/ \E w \in Writers : writerPc[w] = "notify"

\* A line that was logged reaches a connected client, or was overwritten, or
\* the response ends.
LoggedIsSent ==
    \A n \in 1 .. MaxLogged :
        (readerPc # "idle" /\ logged = n) ~> (readerPc = "idle" \/ next >= n)
=============================================================================
