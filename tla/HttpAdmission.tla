---------------------------- MODULE HttpAdmission ----------------------------
(***************************************************************************)
(* How a request gets a worker, in main/http_stream.c, main/log_stream.c   *)
(* and main/ota_update.c: the HTTP server task takes a counting semaphore  *)
(* of ready workers, clones the request so that its socket leaves the      *)
(* server, and queues the clone for a worker, which serves it, returns the *)
(* socket and is ready again.                                              *)
(*                                                                         *)
(* GET /stream and GET /view share one pool and clone first; /write,       *)
(* /flash and /log have a worker each and take the semaphore first.  What  *)
(* a worker does while it serves is in StreamFanout, OtaUpdate, LogRing    *)
(* and GnssPipeline.  What a client sends is that it has sent something:   *)
(* the server or the worker that has its socket reads it, or nobody does.  *)
(***************************************************************************)
EXTENDS Integers, Sequences, FiniteSets

CONSTANTS
    StreamWorkers,  \* CONFIG_STREAM_MAX_HTTP_CLIENTS
    SinglePools,    \* the pools of one worker: /write, /flash, /log
    Sockets         \* sockets of the server: config.max_open_sockets of them

ASSUME StreamAssumption == StreamWorkers \in Nat \ {0}
ASSUME SocketsAssumption ==
    /\ IsFiniteSet(SinglePools)
    /\ "stream" \notin SinglePools
    /\ IsFiniteSet(Sockets)
    /\ Sockets # {}

Pools == {"stream"} \cup SinglePools
Capacity(p) == IF p = "stream" THEN StreamWorkers ELSE 1
Workers(p) == {<<p, i>> : i \in 1 .. Capacity(p)}
AllWorkers == UNION {Workers(p) : p \in Pools}

\* Their workers only send: while there is nothing to send they find out that
\* a client has gone by peeking at its socket.  The others receive a body.
ProbingPools == {"stream", "log"}

VARIABLES
    socket,         \* socket[s]: closed, open (the server's) or async
    here,           \* here[s]: the peer has not closed its end
    unread,         \* unread[s]: something the peer sent waits to be read
    httpdPc,        \* the server task is idle or runs a handler
    request,        \* the request the handler is for
    ready,          \* ready[p]: count of the pool's semaphore
    queue,          \* queue[p]: the pool's request queue, of Capacity(p) items
    workerPc,       \* where each worker is
    serving         \* serving[w]: the socket w received last

clientVars == <<here, unread>>
httpdVars == <<httpdPc, request>>
workerVars == <<workerPc, serving>>
vars == <<socket, clientVars, httpdVars, ready, queue, workerVars>>

Requests == [sock : Sockets, pool : Pools, taken : BOOLEAN, cloned : BOOLEAN]

Init ==
    /\ socket = [s \in Sockets |-> "closed"]
    /\ here = [s \in Sockets |-> FALSE]
    /\ unread = [s \in Sockets |-> FALSE]
    /\ httpdPc = "idle"
    /\ request \in {r \in Requests : r.pool = "stream" /\ ~r.taken /\ ~r.cloned}
    /\ ready = [p \in Pools |-> 0]
    /\ queue = [p \in Pools |-> <<>>]
    /\ workerPc = [w \in AllWorkers |-> "give"]
    /\ serving \in [AllWorkers -> {request.sock}]

-----------------------------------------------------------------------------
(* Faulty variants of definitions below, for the mutation runs.            *)

\* A failed clone does not give the capacity back.
CloneKeepsCapacity ==
    /\ httpdPc = "admit"
    /\ ~request.cloned
    /\ request.pool # "stream" => request.taken
    /\ \/ /\ request' = [request EXCEPT !.cloned = TRUE]
          /\ socket' = [socket EXCEPT ![request.sock] = "async"]
          /\ UNCHANGED httpdPc
       \/ /\ httpdPc' = "idle"
          /\ UNCHANGED <<request, socket>>
    /\ UNCHANGED <<clientVars, ready, queue, workerVars>>

\* A refused stream request leaves its clone behind.
TakeKeepsClone ==
    /\ httpdPc = "admit"
    /\ ~request.taken
    /\ request.pool = "stream" => request.cloned
    /\ IF ready[request.pool] > 0
       THEN /\ ready' = [ready EXCEPT ![request.pool] = @ - 1]
            /\ request' = [request EXCEPT !.taken = TRUE]
            /\ UNCHANGED <<httpdPc, socket>>
       ELSE /\ httpdPc' = "idle"
            /\ UNCHANGED <<socket, ready, request>>
    /\ UNCHANGED <<clientVars, queue, workerVars>>

\* A worker signals its capacity again as soon as it has a request.
ReceiveGives(w) ==
    /\ workerPc[w] = "receive"
    /\ queue[w[1]] # <<>>
    /\ serving' = [serving EXCEPT ![w] = Head(queue[w[1]])]
    /\ queue' = [queue EXCEPT ![w[1]] = Tail(@)]
    /\ ready' = [ready EXCEPT ![w[1]] = @ + 1]
    /\ workerPc' = [workerPc EXCEPT ![w] = "serve"]
    /\ UNCHANGED <<socket, clientVars, httpdVars>>

\* A worker whose client has gone does not complete the request.
CompleteSkipsGone(w) ==
    /\ workerPc[w] = "complete"
    /\ socket' = [socket EXCEPT ![serving[w]] =
                     IF here[serving[w]] THEN "open" ELSE @]
    /\ workerPc' = [workerPc EXCEPT ![w] = "give"]
    /\ UNCHANGED <<clientVars, httpdVars, ready, queue, serving>>

-----------------------------------------------------------------------------
(* Clients, and the server's side of a connection.                         *)

\* accept: the server has a socket left.
Connect(s) ==
    /\ socket[s] = "closed"
    /\ socket' = [socket EXCEPT ![s] = "open"]
    /\ here' = [here EXCEPT ![s] = TRUE]
    /\ UNCHANGED <<unread, httpdVars, ready, queue, workerVars>>

\* A request, a part of a body, or bytes nobody has asked for.
ClientSends(s) ==
    /\ here[s]
    /\ unread' = [unread EXCEPT ![s] = TRUE]
    /\ UNCHANGED <<socket, here, httpdVars, ready, queue, workerVars>>

ClientLeaves(s) ==
    /\ here[s]
    /\ here' = [here EXCEPT ![s] = FALSE]
    /\ UNCHANGED <<socket, unread, httpdVars, ready, queue, workerVars>>

\* What arrived is answered by the server task itself: it is no request for a
\* worker, or its handler refuses it before it asks for one.
HttpdAnswers(s) ==
    /\ httpdPc = "idle"
    /\ socket[s] = "open"
    /\ unread[s]
    /\ unread' = [unread EXCEPT ![s] = FALSE]
    /\ UNCHANGED <<socket, here, httpdVars, ready, queue, workerVars>>

\* What arrived is a request, perhaps the last of a client that has gone, and
\* its handler asks for a worker.
Request(s, p) ==
    /\ httpdPc = "idle"
    /\ socket[s] = "open"
    /\ unread[s]
    /\ unread' = [unread EXCEPT ![s] = FALSE]
    /\ httpdPc' = "admit"
    /\ request' = [sock |-> s, pool |-> p, taken |-> FALSE, cloned |-> FALSE]
    /\ UNCHANGED <<socket, here, ready, queue, workerVars>>

\* The server closes a connection it owns that ends with nothing left to read.
HttpdCloses(s) ==
    /\ httpdPc = "idle"
    /\ socket[s] = "open"
    /\ ~here[s]
    /\ ~unread[s]
    /\ socket' = [socket EXCEPT ![s] = "closed"]
    /\ UNCHANGED <<clientVars, httpdVars, ready, queue, workerVars>>

\* One turn of the server's loop for a socket that select finds readable.
HttpdServes(s) ==
    \/ HttpdAnswers(s)
    \/ \E p \in Pools : Request(s, p)
    \/ HttpdCloses(s)

-----------------------------------------------------------------------------
(* stream_request_queue, write_request_queue, log_request_queue and        *)
(* ota_request_queue in the server task.                                   *)

\* httpd_req_async_handler_begin; when it fails, capacity that was taken is
\* given back and the client is refused.
Clone ==
    /\ httpdPc = "admit"
    /\ ~request.cloned
    /\ request.pool # "stream" => request.taken
    /\ \/ /\ request' = [request EXCEPT !.cloned = TRUE]
          /\ socket' = [socket EXCEPT ![request.sock] = "async"]
          /\ UNCHANGED <<httpdPc, ready>>
       \/ /\ httpdPc' = "idle"
          /\ ready' = IF request.taken
                      THEN [ready EXCEPT ![request.pool] = @ + 1] ELSE ready
          /\ UNCHANGED <<request, socket>>
    /\ UNCHANGED <<clientVars, queue, workerVars>>

\* xSemaphoreTake without waiting; when no worker is ready, a clone is
\* completed and the client is refused.
Take ==
    /\ httpdPc = "admit"
    /\ ~request.taken
    /\ request.pool = "stream" => request.cloned
    /\ IF ready[request.pool] > 0
       THEN /\ ready' = [ready EXCEPT ![request.pool] = @ - 1]
            /\ request' = [request EXCEPT !.taken = TRUE]
            /\ UNCHANGED <<httpdPc, socket>>
       ELSE /\ httpdPc' = "idle"
            /\ socket' = IF request.cloned
                         THEN [socket EXCEPT ![request.sock] = "open"]
                         ELSE socket
            /\ UNCHANGED <<ready, request>>
    /\ UNCHANGED <<clientVars, queue, workerVars>>

\* xQueueSend without waiting; a full queue would refuse the client and undo
\* both.
Enqueue ==
    /\ httpdPc = "admit"
    /\ request.taken
    /\ request.cloned
    /\ httpdPc' = "idle"
    /\ IF Len(queue[request.pool]) < Capacity(request.pool)
       THEN /\ queue' = [queue EXCEPT ![request.pool] =
                            Append(@, request.sock)]
            /\ UNCHANGED <<ready, socket>>
       ELSE /\ ready' = [ready EXCEPT ![request.pool] = @ + 1]
            /\ socket' = [socket EXCEPT ![request.sock] = "open"]
            /\ UNCHANGED queue
    /\ UNCHANGED <<clientVars, request, workerVars>>

-----------------------------------------------------------------------------
(* The loop of the worker tasks.                                           *)

\* Capacity is signalled immediately before waiting for a request.
WorkerGive(w) ==
    /\ workerPc[w] = "give"
    /\ ready' = [ready EXCEPT ![w[1]] = @ + 1]
    /\ workerPc' = [workerPc EXCEPT ![w] = "receive"]
    /\ UNCHANGED <<socket, clientVars, httpdVars, queue, serving>>

WorkerReceive(w) ==
    /\ workerPc[w] = "receive"
    /\ queue[w[1]] # <<>>
    /\ serving' = [serving EXCEPT ![w] = Head(queue[w[1]])]
    /\ queue' = [queue EXCEPT ![w[1]] = Tail(@)]
    /\ workerPc' = [workerPc EXCEPT ![w] = "serve"]
    /\ UNCHANGED <<socket, clientVars, httpdVars, ready>>

\* A worker that receives a body reads what its client has sent.
ServeReads(w) ==
    /\ workerPc[w] = "serve"
    /\ w[1] \notin ProbingPools
    /\ unread[serving[w]]
    /\ unread' = [unread EXCEPT ![serving[w]] = FALSE]
    /\ UNCHANGED <<socket, here, httpdVars, ready, queue, workerVars>>

\* The response or the upload ends: it is complete, it failed, or the client
\* has gone, which the worker's probe or its next socket call finds out.
ServeEnds(w) ==
    /\ workerPc[w] = "serve"
    /\ workerPc' = [workerPc EXCEPT ![w] = "complete"]
    /\ UNCHANGED <<socket, clientVars, httpdVars, ready, queue, serving>>

\* A worker that would find out that its client has gone, whatever is or is
\* not sent: it receives, or nothing unread hides the end of the connection
\* from its probe.
CanNotice(w) ==
    /\ ~here[serving[w]]
    /\ w[1] \in ProbingPools => ~unread[serving[w]]

\* httpd_req_async_handler_complete returns the socket to the server.
WorkerComplete(w) ==
    /\ workerPc[w] = "complete"
    /\ socket' = [socket EXCEPT ![serving[w]] = "open"]
    /\ workerPc' = [workerPc EXCEPT ![w] = "give"]
    /\ UNCHANGED <<clientVars, httpdVars, ready, queue, serving>>

-----------------------------------------------------------------------------
Next ==
    \/ \E s \in Sockets : \/ Connect(s) \/ ClientSends(s) \/ ClientLeaves(s)
                          \/ HttpdServes(s)
    \/ Clone \/ Take \/ Enqueue
    \/ \E w \in AllWorkers : \/ WorkerGive(w) \/ WorkerReceive(w)
                             \/ ServeReads(w) \/ ServeEnds(w)
                             \/ WorkerComplete(w)

Spec == Init /\ [][Next]_vars

\* Tasks that can run do, and the server's loop comes round to every socket
\* that is readable, however busy the others are.  A worker ends in bounded
\* time when it can notice that its client has gone; a client that stays may
\* keep its worker for ever, and so may one that left something unread.
FairSpec ==
    /\ Spec
    /\ WF_vars(Clone \/ Take \/ Enqueue)
    /\ \A s \in Sockets : SF_vars(HttpdServes(s))
    /\ \A w \in AllWorkers :
          /\ WF_vars(WorkerGive(w))
          /\ WF_vars(WorkerReceive(w))
          /\ WF_vars(CanNotice(w) /\ ServeEnds(w))
          /\ WF_vars(WorkerComplete(w))

-----------------------------------------------------------------------------
(* Properties.                                                             *)

\* Every variable keeps to the values its C type allows; a semaphore does not
\* count beyond its pool.
TypeOK ==
    /\ socket \in [Sockets -> {"closed", "open", "async"}]
    /\ here \in [Sockets -> BOOLEAN]
    /\ unread \in [Sockets -> BOOLEAN]
    /\ httpdPc \in {"idle", "admit"}
    /\ request \in Requests
    /\ \A p \in Pools : ready[p] \in 0 .. Capacity(p)
    /\ \A p \in Pools : queue[p] \in Seq(Sockets)
    /\ workerPc \in [AllWorkers -> {"give", "receive", "serve", "complete"}]
    /\ serving \in [AllWorkers -> Sockets]

Waiting(p) == {w \in Workers(p) : workerPc[w] = "receive"}

\* The request in the handler's hands has taken capacity of pool p.
TakenByHandler(p) ==
    IF httpdPc = "admit" /\ request.taken /\ request.pool = p THEN 1 ELSE 0

\* Capacity is neither lost nor made on any path, the failing ones included:
\* every waiting worker is advertised once, promised to the handler once, or
\* has a request queued.  So the queue always has room for a request that was
\* admitted, and one is refused only when every worker has something to do.
CapacityIsConserved ==
    \A p \in Pools :
        ready[p] + TakenByHandler(p) + Len(queue[p]) = Cardinality(Waiting(p))

\* A socket that has left the server has one owner, who will return it: the
\* handler, the queue or a worker.
AsyncSocketHasOneOwner ==
    \A s \in Sockets :
        LET inHandler == IF /\ httpdPc = "admit"
                            /\ request.cloned
                            /\ request.sock = s THEN 1 ELSE 0
            queued == {q \in Pools \X (1 .. StreamWorkers) :
                          q[2] <= Len(queue[q[1]]) /\ queue[q[1]][q[2]] = s}
            served == {w \in AllWorkers : /\ workerPc[w] \in {"serve", "complete"}
                                          /\ serving[w] = s}
        IN  inHandler + Cardinality(queued) + Cardinality(served)
              = IF socket[s] = "async" THEN 1 ELSE 0

\* A request that was accepted is served: its worker is there.
AcceptedIsServed ==
    \A s \in Sockets, p \in Pools :
        (queue[p] # <<>> /\ Head(queue[p]) = s) ~>
            (\E w \in Workers(p) : workerPc[w] # "receive" /\ serving[w] = s)

\* A worker that only sends takes the unread byte of a client that has gone
\* for a sign of life.
MistakenForLive(s) ==
    /\ unread[s]
    /\ \E w \in AllWorkers : /\ w[1] \in ProbingPools
                             /\ workerPc[w] = "serve"
                             /\ serving[w] = s

\* The socket of a client that has gone is closed, wherever it was: with the
\* server, in a handler's hands, in a queue, or with a worker, which is then
\* ready again.  The one exception is a client that is taken for a live one
\* for ever.
GoneSocketIsClosed ==
    \A s \in Sockets :
        \/ []<>(here[s] \/ socket[s] = "closed")
        \/ <>[]MistakenForLive(s)
=============================================================================
