---------------------------- MODULE StreamFanout ----------------------------
(***************************************************************************)
(* The fan-out of selected positions to stream clients in                  *)
(* main/http_stream.c.  The filter overwrites the one-item publication     *)
(* queue; http_stack_task moves each publication to a snapshot under       *)
(* s_latest_mutex and notifies every worker; each worker sends its client  *)
(* the snapshot whenever it differs from the last one sent, and otherwise  *)
(* sleeps until it is notified or a second has passed, then probes the     *)
(* socket.                                                                 *)
(*                                                                         *)
(* A publication is its sequence number.  A step ends where tasks meet:    *)
(* the queue, the mutex (held for one copy, so one step), a notification,  *)
(* a socket call.  How a request reaches a worker is not modelled here:    *)
(* WorkerConnect stands for a request taken from s_http_request_queue.     *)
(***************************************************************************)
EXTENDS Integers, Sequences

CONSTANTS
    WorkerCount,    \* CONFIG_STREAM_MAX_HTTP_CLIENTS
    MaxSequence     \* bound on the publications of a behaviour

ASSUME WorkerAssumption == WorkerCount \in Nat \ {0}
ASSUME SequenceAssumption == MaxSequence \in Nat

Workers == 1 .. WorkerCount

VARIABLES
    nextSequence,       \* next_sequence of gnss_filter_task
    publicationQueue,   \* s_publication_queue
    stackPc,            \* where http_stack_task is
    stackPublication,   \* the publication it received
    notifyIndex,        \* next worker its loop notifies
    latest,             \* s_latest_publication.sequence, 0 while there is none
    notified,           \* notified[w]: w's task notification value is not zero
    workerPc,           \* where each stream worker is
    lastSequence,       \* last_sequence
    copied,             \* the publication a worker copied from the snapshot
    clientHere,         \* the peer has not closed or reset the connection
    unread              \* a byte sent since the request waits in the socket

stackVars == <<stackPc, stackPublication, notifyIndex>>
workerVars == <<workerPc, lastSequence, copied>>
clientVars == <<clientHere, unread>>
vars == <<nextSequence, publicationQueue, stackVars, latest, notified,
          workerVars, clientVars>>

WorkerPcs == {"idle", "clear", "copy", "send", "wait", "probe"}

Init ==
    /\ nextSequence = 1
    /\ publicationQueue = <<>>
    /\ stackPc = "receive"
    /\ stackPublication = 0
    /\ notifyIndex = 1
    /\ latest = 0
    /\ notified = [w \in Workers |-> FALSE]
    /\ workerPc = [w \in Workers |-> "idle"]
    /\ lastSequence = [w \in Workers |-> 0]
    /\ copied = [w \in Workers |-> 0]
    /\ clientHere = [w \in Workers |-> FALSE]
    /\ unread = [w \in Workers |-> FALSE]

-----------------------------------------------------------------------------
(* Faulty variants of definitions below, for the mutation runs.            *)

\* The publication is peeked at instead of received.
StackPeek ==
    /\ stackPc = "receive"
    /\ publicationQueue # <<>>
    /\ stackPublication' = Head(publicationQueue)
    /\ stackPc' = "copy"
    /\ UNCHANGED <<nextSequence, publicationQueue, notifyIndex, latest,
                   notified, workerVars, clientVars>>

\* The sequence number is not incremented.
PublishReusesNumber ==
    /\ nextSequence <= MaxSequence
    /\ publicationQueue' = <<nextSequence>>
    /\ UNCHANGED <<nextSequence, stackVars, latest, notified, workerVars,
                   clientVars>>

\* The dispatcher's loop misses the last worker.
NotifyMissesLast ==
    /\ stackPc = "notify"
    /\ notified' = IF notifyIndex < WorkerCount
                   THEN [notified EXCEPT ![notifyIndex] = TRUE]
                   ELSE notified
    /\ notifyIndex' = IF notifyIndex < WorkerCount THEN notifyIndex + 1 ELSE 1
    /\ stackPc' = IF notifyIndex < WorkerCount THEN "notify" ELSE "receive"
    /\ UNCHANGED <<nextSequence, publicationQueue, stackPublication, latest,
                   workerVars, clientVars>>

\* The worker clears its notification once more before it waits: one that came
\* after it had looked at the snapshot wakes nobody.
WakeClearsFirst(w) ==
    /\ workerPc[w] = "wait"
    /\ notified[w]
    /\ notified' = [notified EXCEPT ![w] = FALSE]
    /\ workerPc' \in {workerPc, [workerPc EXCEPT ![w] = "probe"]}
    /\ UNCHANGED <<nextSequence, publicationQueue, stackVars, latest,
                   lastSequence, copied, clientVars>>

\* A timeout goes back to the snapshot without probing the socket.
TimeoutSkipsProbe(w) ==
    /\ workerPc[w] = "wait"
    /\ ~notified[w]
    /\ workerPc' = [workerPc EXCEPT ![w] = "copy"]
    /\ UNCHANGED <<nextSequence, publicationQueue, stackVars, latest, notified,
                   lastSequence, copied, clientVars>>

-----------------------------------------------------------------------------
(* gnss_filter_task publishes: an obsolete publication is overwritten.     *)
Publish ==
    /\ nextSequence <= MaxSequence
    /\ publicationQueue' = <<nextSequence>>
    /\ nextSequence' = nextSequence + 1
    /\ UNCHANGED <<stackVars, latest, notified, workerVars, clientVars>>

-----------------------------------------------------------------------------
(* http_stack_task.                                                        *)

StackReceive ==
    /\ stackPc = "receive"
    /\ publicationQueue # <<>>
    /\ stackPublication' = Head(publicationQueue)
    /\ publicationQueue' = <<>>
    /\ stackPc' = "copy"
    /\ UNCHANGED <<nextSequence, notifyIndex, latest, notified, workerVars,
                   clientVars>>

\* The snapshot is replaced under s_latest_mutex.
StackCopy ==
    /\ stackPc = "copy"
    /\ latest' = stackPublication
    /\ stackPc' = "notify"
    /\ UNCHANGED <<nextSequence, publicationQueue, stackPublication,
                   notifyIndex, notified, workerVars, clientVars>>

\* One iteration of the loop that notifies the workers in turn.
StackNotify ==
    /\ stackPc = "notify"
    /\ notified' = [notified EXCEPT ![notifyIndex] = TRUE]
    /\ notifyIndex' = IF notifyIndex = WorkerCount THEN 1 ELSE notifyIndex + 1
    /\ stackPc' = IF notifyIndex = WorkerCount THEN "receive" ELSE "notify"
    /\ UNCHANGED <<nextSequence, publicationQueue, stackPublication, latest,
                   workerVars, clientVars>>

HttpStackTask == StackReceive \/ StackCopy \/ StackNotify

-----------------------------------------------------------------------------
(* http_stream_worker_task and stream_response_send.                       *)

\* A request is received; the response starts with last_sequence = 0 and no
\* publication copied yet.
WorkerConnect(w) ==
    /\ workerPc[w] = "idle"
    /\ workerPc' = [workerPc EXCEPT ![w] = "clear"]
    /\ lastSequence' = [lastSequence EXCEPT ![w] = 0]
    /\ copied' = [copied EXCEPT ![w] = 0]
    /\ clientHere' = [clientHere EXCEPT ![w] = TRUE]
    /\ UNCHANGED <<nextSequence, publicationQueue, stackVars, latest, notified,
                   unread>>

\* ulTaskNotifyTake(pdTRUE, 0): wakeups gathered while idle are dropped.
WorkerClear(w) ==
    /\ workerPc[w] = "clear"
    /\ notified' = [notified EXCEPT ![w] = FALSE]
    /\ workerPc' = [workerPc EXCEPT ![w] = "copy"]
    /\ UNCHANGED <<nextSequence, publicationQueue, stackVars, latest,
                   lastSequence, copied, clientVars>>

\* latest_publication_copy_if_new.
WorkerCopy(w) ==
    /\ workerPc[w] = "copy"
    /\ LET new == latest # 0 /\ latest # lastSequence[w]
       IN  /\ copied' = [copied EXCEPT ![w] = IF new THEN latest ELSE @]
           /\ workerPc' = [workerPc EXCEPT ![w] = IF new THEN "send" ELSE "wait"]
    /\ UNCHANGED <<nextSequence, publicationQueue, stackVars, latest, notified,
                   lastSequence, clientVars>>

\* httpd_resp_send_chunk succeeds; the TCP stack may accept bytes for a client
\* that has just gone.
WorkerSend(w) ==
    /\ workerPc[w] = "send"
    /\ lastSequence' = [lastSequence EXCEPT ![w] = copied[w]]
    /\ workerPc' = [workerPc EXCEPT ![w] = "copy"]
    /\ UNCHANGED <<nextSequence, publicationQueue, stackVars, latest, notified,
                   copied, clientVars>>

\* It fails, for a client that has gone or one that stalls past the send
\* timeout: the worker completes the request and is idle again.
WorkerSendFails(w) ==
    /\ workerPc[w] = "send"
    /\ workerPc' = [workerPc EXCEPT ![w] = "idle"]
    /\ clientHere' = [clientHere EXCEPT ![w] = FALSE]
    /\ unread' = [unread EXCEPT ![w] = FALSE]
    /\ UNCHANGED <<nextSequence, publicationQueue, stackVars, latest, notified,
                   lastSequence, copied>>

\* ulTaskNotifyTake(pdTRUE, HTTP_DISCONNECT_CHECK_MS): a wakeup.
WorkerWake(w) ==
    /\ workerPc[w] = "wait"
    /\ notified[w]
    /\ notified' = [notified EXCEPT ![w] = FALSE]
    /\ workerPc' = [workerPc EXCEPT ![w] = "probe"]
    /\ UNCHANGED <<nextSequence, publicationQueue, stackVars, latest,
                   lastSequence, copied, clientVars>>

\* The same call: a second without a wakeup.
WorkerTimeout(w) ==
    /\ workerPc[w] = "wait"
    /\ ~notified[w]
    /\ workerPc' = [workerPc EXCEPT ![w] = "probe"]
    /\ UNCHANGED <<nextSequence, publicationQueue, stackVars, latest, notified,
                   lastSequence, copied, clientVars>>

\* stream_client_is_connected: recv peeks at the socket.  A byte nobody reads
\* stays before the end of the connection, and is taken for a sign of life.
WorkerProbe(w) ==
    /\ workerPc[w] = "probe"
    /\ workerPc' = [workerPc EXCEPT ![w] =
                       IF clientHere[w] \/ unread[w] THEN "copy" ELSE "idle"]
    /\ UNCHANGED <<nextSequence, publicationQueue, stackVars, latest, notified,
                   lastSequence, copied, clientVars>>

\* The client sends a byte more than its request: nothing reads it while the
\* response lasts.
ClientWrites(w) ==
    /\ workerPc[w] # "idle"
    /\ clientHere[w]
    /\ unread' = [unread EXCEPT ![w] = TRUE]
    /\ UNCHANGED <<nextSequence, publicationQueue, stackVars, latest, notified,
                   workerVars, clientHere>>

\* The client closes the connection, at any moment of the response.
ClientLeaves(w) ==
    /\ workerPc[w] # "idle"
    /\ clientHere[w]
    /\ clientHere' = [clientHere EXCEPT ![w] = FALSE]
    /\ UNCHANGED <<nextSequence, publicationQueue, stackVars, latest, notified,
                   workerVars, unread>>

\* The steps of a worker that wait for nothing but the processor.
WorkerRuns(w) ==
    \/ WorkerClear(w) \/ WorkerCopy(w) \/ WorkerSend(w) \/ WorkerSendFails(w)
    \/ WorkerWake(w) \/ WorkerProbe(w)

-----------------------------------------------------------------------------
Next ==
    \/ Publish
    \/ HttpStackTask
    \/ \E w \in Workers : \/ WorkerConnect(w) \/ WorkerRuns(w)
                          \/ WorkerTimeout(w)
                          \/ ClientWrites(w) \/ ClientLeaves(w)

Spec == Init /\ [][Next]_vars

\* Ready tasks run, and a send ends one way or the other.  Nothing is assumed
\* of timeouts: what this specification guarantees, wakeups alone achieve.
FairSpec ==
    /\ Spec
    /\ WF_vars(HttpStackTask)
    /\ \A w \in Workers : WF_vars(WorkerRuns(w))

-----------------------------------------------------------------------------
(* Properties.                                                             *)

\* Every variable keeps to the values its C type allows, and the queue to its
\* one item.
DataTypeOK ==
    /\ nextSequence \in 1 .. MaxSequence + 1
    /\ publicationQueue \in {<<>>} \cup {<<n>> : n \in 1 .. MaxSequence}
    /\ stackPc \in {"receive", "copy", "notify"}
    /\ stackPublication \in 0 .. MaxSequence
    /\ notifyIndex \in Workers
    /\ latest \in 0 .. MaxSequence
    /\ workerPc \in [Workers -> WorkerPcs]
    /\ lastSequence \in [Workers -> 0 .. MaxSequence]
    /\ copied \in [Workers -> 0 .. MaxSequence]

FlagsTypeOK ==
    /\ notified \in [Workers -> BOOLEAN]
    /\ clientHere \in [Workers -> BOOLEAN]
    /\ unread \in [Workers -> BOOLEAN]

TypeOK == DataTypeOK /\ FlagsTypeOK

\* A worker asleep has sent the newest snapshot, or it has a wakeup waiting,
\* or the dispatcher is still on its way to notify it: no interleaving of the
\* snapshot, the notification and the worker's take loses a wakeup.
NoLostWakeup ==
    \A w \in Workers :
        workerPc[w] = "wait" =>
            \/ lastSequence[w] = latest
            \/ notified[w]
            \/ stackPc = "notify" /\ notifyIndex <= w

\* Publications number 1, 2, ... move along filter, queue, dispatcher and
\* snapshot without overtaking each other: the snapshot never goes back to an
\* older position than one a client was sent.
SequencesInOrder ==
    /\ \A i \in DOMAIN publicationQueue :
          stackPublication < publicationQueue[i]
             /\ publicationQueue[i] < nextSequence
    /\ stackPublication < nextSequence
    /\ latest <= stackPublication
    /\ \A w \in Workers : /\ lastSequence[w] <= latest
                          /\ copied[w] <= latest
                          /\ workerPc[w] = "send" => lastSequence[w] < copied[w]

\* The fan-out implements the promise of /stream to each connection.
Promise == INSTANCE LatestValue WITH
    Connections <- Workers,
    published <- nextSequence - 1,
    delivered <- lastSequence

ImplementsLatestValue == Promise!Spec

\* Every publication that reaches the snapshot reaches each connected client,
\* or is replaced by a newer one, or the client's response ends: one client
\* cannot consume data that another still needs.
NewestIsDelivered ==
    \A w \in Workers : \A n \in 1 .. MaxSequence :
        (workerPc[w] # "idle" /\ latest = n)
            ~> (workerPc[w] = "idle" \/ lastSequence[w] >= n)

\* The worker of a client that has gone is released, also when the antenna is
\* silent and no send can fail: for that, waits without a wakeup have to end
\* after their second.  The exception is a client that leaves a byte unread:
\* the probe takes it for a sign of life for ever, and only a send that fails
\* releases the worker.
GoneClientIsReleased ==
    \A w \in Workers :
        WF_vars(WorkerTimeout(w)) =>
            ((workerPc[w] # "idle" /\ ~clientHere[w] /\ ~unread[w])
                ~> (workerPc[w] = "idle"))
=============================================================================
