------------------------- MODULE HttpAdmissionProofs -------------------------
(***************************************************************************)
(* Theorems about HttpAdmission, for every number of workers, pools and    *)
(* sockets: a pool's semaphore counts exactly the workers that wait and    *)
(* have not been promised to a request.                                    *)
(***************************************************************************)
EXTENDS HttpAdmission, FiniteSetTheorems, TLAPS

\* The semaphores and the queues are total on the pools.
CountsTypeOK ==
    /\ ready \in [Pools -> Nat]
    /\ queue \in [Pools -> Seq(Sockets)]

\* Sockets, handler and workers keep to the values their C types allow.
StatesTypeOK ==
    /\ socket \in [Sockets -> {"closed", "open", "async"}]
    /\ here \in [Sockets -> BOOLEAN]
    /\ unread \in [Sockets -> BOOLEAN]
    /\ httpdPc \in {"idle", "admit"}
    /\ request \in Requests
    /\ workerPc \in [AllWorkers -> {"give", "receive", "serve", "complete"}]
    /\ serving \in [AllWorkers -> Sockets]

\* The owners a socket that has left the server may have.
Held(s) == httpdPc = "admit" /\ request.cloned /\ request.sock = s
Queued(s, p, i) == i \in 1 .. Len(queue[p]) /\ queue[p][i] = s
Served(s, w) == workerPc[w] \in {"serve", "complete"} /\ serving[w] = s

\* A socket is asynchronous when, and only when, it has an owner.
AsyncIsOwned(s) ==
    socket[s] = "async" <=>
        \/ Held(s)
        \/ \E p \in Pools, i \in Nat : Queued(s, p, i)
        \/ \E w \in AllWorkers : Served(s, w)

\* No socket has two owners.
OwnersAreOne(s) ==
    /\ Held(s) => /\ \A p \in Pools, i \in Nat : ~Queued(s, p, i)
                  /\ \A w \in AllWorkers : ~Served(s, w)
    /\ \A p \in Pools, i \in Nat, w \in AllWorkers :
          ~(Queued(s, p, i) /\ Served(s, w))
    /\ \A p, q \in Pools, i, j \in Nat :
          Queued(s, p, i) /\ Queued(s, q, j) => p = q /\ i = j
    /\ \A v, w \in AllWorkers : Served(s, v) /\ Served(s, w) => v = w

\* The socket of a request that is not cloned yet belongs to the server.
HandlerHasSocket ==
    httpdPc = "admit" /\ ~request.cloned => socket[request.sock] = "open"

Ownership ==
    /\ HandlerHasSocket
    /\ \A s \in Sockets : AsyncIsOwned(s) /\ OwnersAreOne(s)

IInv == StatesTypeOK /\ CountsTypeOK /\ CapacityIsConserved /\ Ownership

-----------------------------------------------------------------------------
(* Pools and their workers.                                                *)

\* A pool has finitely many workers, as many as its capacity.
LEMMA PoolIsFinite ==
    ASSUME NEW p \in Pools
    PROVE  /\ Capacity(p) \in Nat
           /\ IsFiniteSet(Workers(p))
           /\ Cardinality(Workers(p)) = Capacity(p)
  <1>1. Capacity(p) \in Nat
    BY StreamAssumption DEF Capacity
  <1> DEFINE f == [i \in 1 .. Capacity(p) |-> <<p, i>>]
  <1>2. f \in Bijection(1 .. Capacity(p), Workers(p))
    BY DEF Workers, Bijection, Injection, Surjection, IsInjective
  <1>3. ExistsBijection(1 .. Capacity(p), Workers(p))
    BY <1>2 DEF ExistsBijection
  <1> QED
    BY <1>1, <1>3, FS_CountingElements, FS_NatBijection

\* So the workers that wait can be counted, and are no more than that.
LEMMA WaitingIsFinite ==
    ASSUME NEW p \in Pools
    PROVE  /\ IsFiniteSet(Waiting(p))
           /\ Cardinality(Waiting(p)) \in 0 .. Capacity(p)
  <1>1. Waiting(p) \subseteq Workers(p)
    BY DEF Waiting
  <1> QED
    BY <1>1, PoolIsFinite, FS_Subset, FS_CardinalityType

\* A worker is of the pool its name tells.
LEMMA WorkerOfPool ==
    ASSUME NEW w \in AllWorkers
    PROVE  /\ w[1] \in Pools
           /\ \A p \in Pools : w \in Workers(p) <=> p = w[1]
  BY DEF AllWorkers, Workers

\* Another pool's waiting workers are not affected by a step of w.
LEMMA OtherPools ==
    ASSUME StatesTypeOK, NEW w \in AllWorkers, NEW p \in Pools, p # w[1],
           NEW pc, workerPc' = [workerPc EXCEPT ![w] = pc]
    PROVE  Waiting(p)' = Waiting(p)
  <1>1. \A v \in Workers(p) : v \in AllWorkers /\ v # w
    BY WorkerOfPool DEF AllWorkers
  <1> QED
    BY <1>1 DEF Waiting, StatesTypeOK

-----------------------------------------------------------------------------
(* The invariant.                                                          *)

\* Every step keeps the types.
LEMMA StatesTyping ==
    ASSUME StatesTypeOK, CountsTypeOK, [Next]_vars
    PROVE  StatesTypeOK'
  <1> USE DEF StatesTypeOK, clientVars, httpdVars, workerVars, vars
  <1>1. ASSUME NEW s \in Sockets,
               \/ Connect(s) \/ ClientSends(s) \/ ClientLeaves(s)
               \/ HttpdAnswers(s) \/ HttpdCloses(s)
        PROVE  StatesTypeOK'
    BY <1>1 DEF Connect, ClientSends, ClientLeaves, HttpdAnswers, HttpdCloses
  <1>2. ASSUME NEW s \in Sockets, NEW p \in Pools, Request(s, p)
        PROVE  StatesTypeOK'
    BY <1>2 DEF Request, Requests
  <1>3. CASE Clone \/ Take \/ Enqueue
    <2>1. CASE Clone
      BY <2>1 DEF Clone, Requests
    <2>2. CASE Take
      BY <2>2 DEF Take, Requests
    <2>3. CASE Enqueue
      BY <2>3 DEF Enqueue, Requests
    <2> QED
      BY <1>3, <2>1, <2>2, <2>3
  <1>4. ASSUME NEW w \in AllWorkers, WorkerReceive(w)
        PROVE  StatesTypeOK'
    <2>1. Head(queue[w[1]]) \in Sockets
      BY <1>4, WorkerOfPool DEF WorkerReceive, CountsTypeOK
    <2> QED
      BY <1>4, <2>1 DEF WorkerReceive
  <1>5. ASSUME NEW w \in AllWorkers,
               \/ WorkerGive(w) \/ ServeReads(w) \/ ServeEnds(w)
               \/ WorkerComplete(w)
        PROVE  StatesTypeOK'
    BY <1>5 DEF WorkerGive, ServeReads, ServeEnds, WorkerComplete
  <1>6. CASE UNCHANGED vars
    BY <1>6
  <1> QED
    BY <1>1, <1>2, <1>3, <1>4, <1>5, <1>6 DEF Next, HttpdServes

\* Semaphores never count below zero, and only sockets are queued.
LEMMA CountsTyping ==
    ASSUME StatesTypeOK, CountsTypeOK, [Next]_vars
    PROVE  CountsTypeOK'
  <1> USE DEF CountsTypeOK
  <1>1. ASSUME NEW p \in Pools, NEW n \in Nat
        PROVE  [ready EXCEPT ![p] = n] \in [Pools -> Nat]
    OBVIOUS
  <1>2. ASSUME NEW p \in Pools, NEW q \in Seq(Sockets)
        PROVE  [queue EXCEPT ![p] = q] \in [Pools -> Seq(Sockets)]
    OBVIOUS
  <1>3. ASSUME NEW p \in Pools
        PROVE  /\ ready[p] \in Nat /\ ready[p] + 1 \in Nat
               /\ ready[p] > 0 => ready[p] - 1 \in Nat
               /\ \A s \in Sockets : Append(queue[p], s) \in Seq(Sockets)
               /\ queue[p] # <<>> => Tail(queue[p]) \in Seq(Sockets)
    OBVIOUS
  <1>4. request.pool \in Pools /\ request.sock \in Sockets
    BY DEF StatesTypeOK, Requests
  <1>5. CASE Clone
    BY <1>1, <1>3, <1>4, <1>5 DEF Clone
  <1>6. CASE Take
    BY <1>1, <1>3, <1>4, <1>6 DEF Take
  <1>7. CASE Enqueue
    <2>1. ready' = ready \/ ready' = [ready EXCEPT ![request.pool] = @ + 1]
      BY <1>7 DEF Enqueue
    <2>2. \/ queue' = queue
          \/ queue' = [queue EXCEPT ![request.pool] = Append(@, request.sock)]
      BY <1>7 DEF Enqueue
    <2>3. ready' \in [Pools -> Nat]
      BY <1>1, <1>3, <1>4, <2>1
    <2>4. queue' \in [Pools -> Seq(Sockets)]
      <3>1. Append(queue[request.pool], request.sock) \in Seq(Sockets)
        BY <1>3, <1>4
      <3> QED
        BY <1>4, <2>2, <3>1
    <2> QED
      BY <2>3, <2>4
  <1>8. ASSUME NEW w \in AllWorkers, WorkerGive(w) \/ WorkerReceive(w)
        PROVE  CountsTypeOK'
    <2>1. w[1] \in Pools
      BY WorkerOfPool
    <2>2. CASE WorkerGive(w)
      BY <1>1, <1>3, <2>1, <2>2 DEF WorkerGive
    <2>3. CASE WorkerReceive(w)
      <3>1. /\ queue[w[1]] # <<>> /\ UNCHANGED ready
            /\ queue' = [queue EXCEPT ![w[1]] = Tail(@)]
        BY <2>3 DEF WorkerReceive
      <3>2. Tail(queue[w[1]]) \in Seq(Sockets)
        BY <1>3, <2>1, <3>1
      <3> QED
        BY <2>1, <3>1, <3>2
    <2> QED
      BY <1>8, <2>2, <2>3
  <1>9. CASE UNCHANGED <<ready, queue>>
    BY <1>9
  <1> QED
    BY <1>5, <1>6, <1>7, <1>8, <1>9
       DEF Next, Connect, ClientSends, ClientLeaves, HttpdServes, HttpdAnswers,
           Request, HttpdCloses, ServeReads, ServeEnds, WorkerComplete, vars

\* The handler moves a unit of capacity from the semaphore to its own hands,
\* from there to the queue, and back when it fails.
LEMMA HandlerConserves ==
    ASSUME StatesTypeOK, CountsTypeOK, CapacityIsConserved,
           Clone \/ Take \/ Enqueue
    PROVE  CapacityIsConserved'
  <1> SUFFICES ASSUME NEW p \in Pools
               PROVE  (ready[p] + TakenByHandler(p) + Len(queue[p]))' =
                         Cardinality(Waiting(p)')
    BY DEF CapacityIsConserved
  <1>1. /\ ready[p] \in Nat
        /\ queue[p] \in Seq(Sockets)
        /\ Len(queue[p]) \in Nat
        /\ ready[p] + TakenByHandler(p) + Len(queue[p]) = Cardinality(Waiting(p))
        /\ httpdPc = "admit"
        /\ request.pool \in Pools /\ request.sock \in Sockets
        /\ TakenByHandler(p) = IF request.taken /\ request.pool = p THEN 1 ELSE 0
    BY DEF CountsTypeOK, CapacityIsConserved, StatesTypeOK, Requests,
           TakenByHandler, Clone, Take, Enqueue
  <1>2. Waiting(p)' = Waiting(p)
    BY DEF Clone, Take, Enqueue, Waiting, workerVars
  <1> SUFFICES (ready[p] + TakenByHandler(p) + Len(queue[p]))' =
                  ready[p] + TakenByHandler(p) + Len(queue[p])
    BY <1>1, <1>2
  <1>3. CASE Clone
    <2>1. CASE request' = [request EXCEPT !.cloned = TRUE] /\ UNCHANGED ready
      BY <1>1, <1>3, <2>1 DEF Clone, TakenByHandler, StatesTypeOK, Requests
    <2>2. CASE /\ httpdPc' = "idle"
               /\ ready' = IF request.taken
                           THEN [ready EXCEPT ![request.pool] = @ + 1]
                           ELSE ready
      <3>1. TakenByHandler(p)' = 0 /\ queue' = queue
        BY <1>3, <2>2 DEF Clone, TakenByHandler
      <3>2. ready'[p] = IF request.taken /\ request.pool = p
                        THEN ready[p] + 1 ELSE ready[p]
        BY <1>1, <2>2 DEF CountsTypeOK
      <3> QED
        BY <1>1, <3>1, <3>2
    <2> QED
      BY <1>3, <2>1, <2>2 DEF Clone
  <1>4. CASE Take
    <2>1. ~request.taken /\ queue' = queue
      BY <1>4 DEF Take
    <2>2. CASE ready[request.pool] > 0
      <3>1. /\ ready' = [ready EXCEPT ![request.pool] = @ - 1]
            /\ request' = [request EXCEPT !.taken = TRUE]
            /\ httpdPc' = "admit"
        BY <1>1, <1>4, <2>2 DEF Take
      <3>2. TakenByHandler(p)' = IF request.pool = p THEN 1 ELSE 0
        BY <3>1 DEF TakenByHandler, StatesTypeOK, Requests
      <3>3. ready'[p] = IF request.pool = p THEN ready[p] - 1 ELSE ready[p]
        BY <1>1, <3>1 DEF CountsTypeOK
      <3> QED
        BY <1>1, <2>1, <3>2, <3>3
    <2>3. CASE ~(ready[request.pool] > 0)
      <3>1. TakenByHandler(p)' = 0 /\ ready' = ready
        BY <1>4, <2>3 DEF Take, TakenByHandler
      <3> QED
        BY <1>1, <2>1, <3>1
    <2> QED
      BY <2>2, <2>3
  <1>5. CASE Enqueue
    <2>1. TakenByHandler(p)' = 0 /\ request.taken
      BY <1>5 DEF Enqueue, TakenByHandler
    <2>2. CASE Len(queue[request.pool]) < Capacity(request.pool)
      <3>1. ready' = ready
               /\ queue' = [queue EXCEPT ![request.pool] =
                               Append(@, request.sock)]
        BY <1>5, <2>2 DEF Enqueue
      <3>2. Len(queue'[p]) = IF request.pool = p THEN Len(queue[p]) + 1
                                                 ELSE Len(queue[p])
        BY <1>1, <3>1 DEF CountsTypeOK
      <3>3. ready'[p] = ready[p]
        BY <3>1
      <3>4. CASE request.pool = p
        BY <1>1, <2>1, <3>2, <3>3, <3>4
      <3>5. CASE request.pool # p
        BY <1>1, <2>1, <3>2, <3>3, <3>5
      <3> QED
        BY <3>4, <3>5
    <2>3. CASE ~(Len(queue[request.pool]) < Capacity(request.pool))
      <3>1. ready' = [ready EXCEPT ![request.pool] = @ + 1] /\ queue' = queue
        BY <1>5, <2>3 DEF Enqueue
      <3>2. ready'[p] = IF request.pool = p THEN ready[p] + 1 ELSE ready[p]
        BY <1>1, <3>1 DEF CountsTypeOK
      <3> QED
        BY <1>1, <2>1, <3>1, <3>2
    <2> QED
      BY <2>2, <2>3
  <1> QED
    BY <1>3, <1>4, <1>5

\* A worker is counted as soon as it is about to wait, and until it has taken
\* its request from the queue.
LEMMA WorkerConserves ==
    ASSUME StatesTypeOK, CountsTypeOK, CapacityIsConserved,
           NEW w \in AllWorkers, WorkerGive(w) \/ WorkerReceive(w)
    PROVE  CapacityIsConserved'
  <1> SUFFICES ASSUME NEW p \in Pools
               PROVE  (ready[p] + TakenByHandler(p) + Len(queue[p]))' =
                         Cardinality(Waiting(p)')
    BY DEF CapacityIsConserved
  <1>1. /\ ready[p] \in Nat
        /\ queue[p] \in Seq(Sockets)
        /\ Len(queue[p]) \in Nat
        /\ TakenByHandler(p) \in {0, 1} /\ TakenByHandler(p)' = TakenByHandler(p)
        /\ ready[p] + TakenByHandler(p) + Len(queue[p]) = Cardinality(Waiting(p))
    BY DEF CountsTypeOK, CapacityIsConserved, TakenByHandler, WorkerGive,
           WorkerReceive, httpdVars
  <1>2. IsFiniteSet(Waiting(p))
    BY WaitingIsFinite
  <1>3. CASE p # w[1]
    <2>1. PICK pc : workerPc' = [workerPc EXCEPT ![w] = pc]
      BY DEF WorkerGive, WorkerReceive
    <2>2. Waiting(p)' = Waiting(p)
      BY <1>3, <2>1, OtherPools
    <2>3. ready'[p] = ready[p] /\ queue'[p] = queue[p]
      BY <1>3 DEF WorkerGive, WorkerReceive, CountsTypeOK
    <2> QED
      BY <1>1, <2>2, <2>3
  <1>4. CASE p = w[1] /\ WorkerGive(w)
    <2>1. w \in Workers(p) /\ w \notin Waiting(p)
      BY <1>4, WorkerOfPool DEF WorkerGive, Waiting
    <2>2. Waiting(p)' = Waiting(p) \cup {w}
      <3>1. \A v \in Workers(p) : v \in AllWorkers
        BY DEF AllWorkers
      <3> QED
        BY <1>4, <2>1, <3>1 DEF WorkerGive, Waiting, StatesTypeOK
    <2>3. ready'[p] = ready[p] + 1 /\ queue'[p] = queue[p]
      BY <1>4 DEF WorkerGive, CountsTypeOK
    <2>4. Cardinality(Waiting(p)') = Cardinality(Waiting(p)) + 1
      BY <1>2, <2>1, <2>2, FS_AddElement
    <2> QED
      BY <1>1, <2>3, <2>4
  <1>5. CASE p = w[1] /\ WorkerReceive(w)
    <2>1. w \in Waiting(p)
      BY <1>5, WorkerOfPool DEF WorkerReceive, Waiting
    <2>2. Waiting(p)' = Waiting(p) \ {w}
      <3>1. \A v \in Workers(p) : v \in AllWorkers
        BY DEF AllWorkers
      <3> QED
        BY <1>5, <2>1, <3>1 DEF WorkerReceive, Waiting, StatesTypeOK
    <2>3. ready'[p] = ready[p] /\ queue'[p] = Tail(queue[p]) /\ queue[p] # <<>>
      BY <1>5 DEF WorkerReceive, CountsTypeOK
    <2>4. Len(queue'[p]) = Len(queue[p]) - 1
      BY <1>1, <2>3
    <2>5. Cardinality(Waiting(p)') = Cardinality(Waiting(p)) - 1
      BY <1>2, <2>1, <2>2, FS_RemoveElement
    <2> QED
      BY <1>1, <2>3, <2>4, <2>5
  <1> QED
    BY <1>3, <1>4, <1>5

-----------------------------------------------------------------------------
(* Who owns a socket.                                                      *)

\* The handler becomes an owner with the clone, and passes the socket on or
\* returns it.
LEMMA HandlerOwns ==
    ASSUME StatesTypeOK, CountsTypeOK, Ownership, Clone \/ Take \/ Enqueue
    PROVE  Ownership'
  <1>0. /\ request.sock \in Sockets /\ request.pool \in Pools
        /\ httpdPc = "admit"
        /\ \A s, w : Served(s, w)' <=> Served(s, w)
    BY DEF StatesTypeOK, Requests, Clone, Take, Enqueue, Served, workerVars
  <1>1. CASE Clone
    <2>1. ~request.cloned /\ socket[request.sock] = "open" /\ queue' = queue
      BY <1>0, <1>1 DEF Clone, Ownership, HandlerHasSocket
    <2>2. \A s, p, i : Queued(s, p, i)' <=> Queued(s, p, i)
      BY <2>1 DEF Queued
    <2>3. \A s : ~Held(s)
      BY <2>1 DEF Held
    <2>4. CASE /\ request' = [request EXCEPT !.cloned = TRUE]
               /\ socket' = [socket EXCEPT ![request.sock] = "async"]
               /\ httpdPc' = httpdPc
      <3>1. \A s : Held(s)' <=> s = request.sock
        BY <1>0, <2>4 DEF Held, StatesTypeOK, Requests
      <3>2. HandlerHasSocket'
        BY <2>4 DEF HandlerHasSocket, StatesTypeOK, Requests
      <3>3. ASSUME NEW s \in Sockets
            PROVE  socket'[s] = IF s = request.sock THEN "async" ELSE socket[s]
        BY <2>4 DEF StatesTypeOK
      <3>4. ASSUME NEW s \in Sockets
            PROVE  AsyncIsOwned(s)'
        BY <1>0, <2>2, <2>3, <3>1, <3>3 DEF AsyncIsOwned, Ownership
      <3>5. ASSUME NEW s \in Sockets
            PROVE  OwnersAreOne(s)'
        <4>1. s = request.sock =>
                 /\ \A p \in Pools, i \in Nat : ~Queued(s, p, i)
                 /\ \A w \in AllWorkers : ~Served(s, w)
          BY <2>1 DEF Ownership, AsyncIsOwned
        <4> QED
          BY <1>0, <2>2, <2>3, <3>1, <4>1 DEF OwnersAreOne, Ownership
      <3> QED
        BY <3>2, <3>4, <3>5 DEF Ownership
    <2>5. CASE httpdPc' = "idle" /\ UNCHANGED socket
      <3>1. \A s : ~Held(s)'
        BY <2>5 DEF Held
      <3> QED
        BY <1>0, <2>2, <2>3, <2>5, <3>1
           DEF Ownership, HandlerHasSocket, AsyncIsOwned, OwnersAreOne
    <2> QED
      BY <1>1, <2>4, <2>5 DEF Clone
  <1>2. CASE /\ httpdPc' = httpdPc /\ UNCHANGED <<socket, queue>>
             /\ request' = [request EXCEPT !.taken = TRUE]
    <2>1. \A s, p, i : Queued(s, p, i)' <=> Queued(s, p, i)
      BY <1>2 DEF Queued
    <2>2. \A s : Held(s)' <=> Held(s)
      BY <1>2 DEF Held, StatesTypeOK, Requests
    <2>3. HandlerHasSocket'
      BY <1>2 DEF Ownership, HandlerHasSocket, StatesTypeOK, Requests
    <2> QED
      BY <1>0, <1>2, <2>1, <2>2, <2>3
         DEF Ownership, AsyncIsOwned, OwnersAreOne
  <1>3. CASE /\ httpdPc' = "idle" /\ UNCHANGED queue
             /\ IF request.cloned
                THEN socket' = [socket EXCEPT ![request.sock] = "open"]
                ELSE UNCHANGED socket
    <2>1. \A s, p, i : Queued(s, p, i)' <=> Queued(s, p, i)
      BY <1>3 DEF Queued
    <2>2. \A s : ~Held(s)' /\ (Held(s) <=> request.cloned /\ s = request.sock)
      BY <1>0, <1>3 DEF Held
    <2>3. ASSUME NEW s \in Sockets
          PROVE  socket'[s] = IF Held(s) THEN "open" ELSE socket[s]
      BY <1>3, <2>2 DEF StatesTypeOK
    <2>4. ASSUME NEW s \in Sockets
          PROVE  AsyncIsOwned(s)' /\ OwnersAreOne(s)'
      BY <1>0, <2>1, <2>2, <2>3 DEF Ownership, AsyncIsOwned, OwnersAreOne
    <2> QED
      BY <1>3, <2>4 DEF Ownership, HandlerHasSocket
  <1>4. CASE /\ httpdPc' = "idle" /\ UNCHANGED socket /\ request.cloned
             /\ queue' = [queue EXCEPT ![request.pool] =
                             Append(@, request.sock)]
    <2> DEFINE last == Len(queue[request.pool]) + 1
    <2>1. \A s : ~Held(s)' /\ (Held(s) <=> s = request.sock)
      BY <1>0, <1>4 DEF Held
    <2>2. ASSUME NEW s \in Sockets, NEW p \in Pools, NEW i \in Nat
          PROVE  Queued(s, p, i)' <=>
                    \/ Queued(s, p, i)
                    \/ p = request.pool /\ i = last /\ s = request.sock
      <3>1. queue[p] \in Seq(Sockets)
        BY DEF CountsTypeOK
      <3>2. queue'[p] = IF p = request.pool THEN Append(queue[p], request.sock)
                                            ELSE queue[p]
        BY <1>0, <1>4 DEF CountsTypeOK
      <3> QED
        BY <1>0, <3>1, <3>2 DEF Queued
    <2>3. last \in Nat
      BY <1>0 DEF CountsTypeOK
    <2>4. ASSUME NEW s \in Sockets
          PROVE  AsyncIsOwned(s)'
      BY <1>0, <1>4, <2>1, <2>2, <2>3 DEF Ownership, AsyncIsOwned
    <2>5. ASSUME NEW s \in Sockets
          PROVE  OwnersAreOne(s)'
      BY <1>0, <2>1, <2>2, <2>3 DEF Ownership, OwnersAreOne
    <2> QED
      BY <1>4, <2>4, <2>5 DEF Ownership, HandlerHasSocket
  <1>5. CASE Take
    BY <1>2, <1>3, <1>5 DEF Take
  <1>6. CASE Enqueue
    BY <1>3, <1>4, <1>6 DEF Enqueue
  <1> QED
    BY <1>1, <1>5, <1>6

\* A worker takes the ownership from the head of its queue and returns the
\* socket in the end.
LEMMA WorkerOwns ==
    ASSUME StatesTypeOK, CountsTypeOK, Ownership, NEW w \in AllWorkers,
           \/ WorkerGive(w) \/ WorkerReceive(w) \/ ServeReads(w)
           \/ ServeEnds(w) \/ WorkerComplete(w)
    PROVE  Ownership'
  <1>0. \A s : Held(s)' <=> Held(s)
    BY DEF Held, WorkerGive, WorkerReceive, ServeReads, ServeEnds,
           WorkerComplete, httpdVars
  <1>1. CASE WorkerGive(w) \/ ServeReads(w) \/ ServeEnds(w)
    <2>1. \A s, p, i : Queued(s, p, i)' <=> Queued(s, p, i)
      BY <1>1 DEF Queued, WorkerGive, ServeReads, ServeEnds, workerVars
    <2>2. \A s : \A v \in AllWorkers : Served(s, v)' <=> Served(s, v)
      BY <1>1 DEF Served, WorkerGive, ServeReads, ServeEnds, StatesTypeOK, workerVars
    <2>3. UNCHANGED <<socket, httpdVars>>
      BY <1>1 DEF WorkerGive, ServeReads, ServeEnds
    <2> QED
      BY <1>0, <2>1, <2>2, <2>3
         DEF Ownership, HandlerHasSocket, AsyncIsOwned, OwnersAreOne, httpdVars
  <1>2. CASE WorkerReceive(w)
    <2> DEFINE pool == w[1]
    <2>1. /\ pool \in Pools
          /\ queue[pool] \in Seq(Sockets) /\ queue[pool] # <<>>
          /\ Len(queue[pool]) \in Nat /\ Len(queue[pool]) > 0
          /\ Head(queue[pool]) = queue[pool][1]
      BY <1>2, WorkerOfPool DEF WorkerReceive, CountsTypeOK
    <2>2. ASSUME NEW s \in Sockets, NEW p \in Pools, NEW i \in Nat
          PROVE  Queued(s, p, i)' <=> IF p = pool THEN i # 0 /\ Queued(s, p, i + 1)
                                                  ELSE Queued(s, p, i)
      <3>1. queue'[p] = IF p = pool THEN Tail(queue[p]) ELSE queue[p]
        BY <1>2, <2>1 DEF WorkerReceive, CountsTypeOK
      <3>2. CASE p = pool
        <4>1. Len(queue'[p]) = Len(queue[p]) - 1
          BY <2>1, <3>1, <3>2
        <4>2. i \in 1 .. Len(queue'[p]) => queue'[p][i] = queue[p][i + 1]
          BY <2>1, <3>1, <3>2, <4>1
        <4> QED
          BY <2>1, <3>2, <4>1, <4>2 DEF Queued
      <3>3. CASE p # pool
        BY <3>1, <3>3 DEF Queued
      <3> QED
        BY <3>2, <3>3
    <2>3. ASSUME NEW s \in Sockets, NEW v \in AllWorkers
          PROVE  Served(s, v)' <=> IF v = w THEN Queued(s, pool, 1)
                                            ELSE Served(s, v)
      BY <1>2, <2>1 DEF WorkerReceive, Served, Queued, StatesTypeOK
    <2>4. \A s \in Sockets : ~Served(s, w)
      BY <1>2 DEF WorkerReceive, Served
    <2>5. UNCHANGED <<socket, httpdVars>>
      BY <1>2 DEF WorkerReceive
    <2>6. ASSUME NEW s \in Sockets, AsyncIsOwned(s), OwnersAreOne(s)
          PROVE  AsyncIsOwned(s)'
      <3>1. (\E p \in Pools, i \in Nat : Queued(s, p, i)) <=>
               \/ Queued(s, pool, 1)
               \/ \E p \in Pools, i \in Nat : Queued(s, p, i)'
        <4>1. ASSUME NEW p \in Pools, NEW i \in Nat, Queued(s, p, i)
              PROVE  \/ Queued(s, pool, 1)
                     \/ \E q \in Pools, j \in Nat : Queued(s, q, j)'
          <5>1. i # 0
            BY <4>1 DEF Queued
          <5>2. CASE p = pool /\ i # 1
            <6>1. i - 1 \in Nat /\ i - 1 # 0 /\ (i - 1) + 1 = i
              BY <5>1, <5>2
            <6>2. Queued(s, p, i - 1)'
              BY <2>2, <4>1, <5>2, <6>1
            <6> QED
              BY <6>1, <6>2
          <5>3. CASE p # pool
            BY <2>2, <4>1, <5>3
          <5> QED
            BY <4>1, <5>2, <5>3
        <4>2. ASSUME NEW p \in Pools, NEW i \in Nat, Queued(s, p, i)'
              PROVE  \E q \in Pools, j \in Nat : Queued(s, q, j)
          BY <2>2, <4>2
        <4> QED
          BY <2>1, <4>1, <4>2
      <3> QED
        BY <1>0, <2>3, <2>4, <2>5, <2>6, <3>1 DEF AsyncIsOwned
    <2>7. ASSUME NEW s \in Sockets, OwnersAreOne(s)
          PROVE  OwnersAreOne(s)'
      <3>1. ASSUME NEW p \in Pools, NEW i \in Nat, Queued(s, p, i)'
            PROVE  /\ ~Held(s) /\ ~Queued(s, pool, 1)
                   /\ \A v \in AllWorkers : ~Served(s, v)
        <4>1. PICK j \in Nat : Queued(s, p, j) /\ (p = pool => j # 1)
          BY <2>2, <3>1
        <4> QED
          BY <2>1, <2>7, <4>1 DEF OwnersAreOne
      <3>2. ASSUME NEW p \in Pools, NEW q \in Pools, NEW i \in Nat,
                   NEW j \in Nat, Queued(s, p, i)', Queued(s, q, j)'
            PROVE  p = q /\ i = j
        <4>1. Queued(s, p, IF p = pool THEN i + 1 ELSE i)
          BY <2>2, <3>2
        <4>2. Queued(s, q, IF q = pool THEN j + 1 ELSE j)
          BY <2>2, <3>2
        <4>3. /\ p = q
              /\ (IF p = pool THEN i + 1 ELSE i) = (IF q = pool THEN j + 1 ELSE j)
          BY <2>7, <4>1, <4>2 DEF OwnersAreOne
        <4> QED
          BY <4>3
      <3>3. ASSUME NEW v \in AllWorkers, Served(s, v)'
            PROVE  ~Held(s) /\ \A u \in AllWorkers : Served(s, u)' => u = v
        BY <2>1, <2>3, <2>4, <2>7, <3>3 DEF OwnersAreOne
      <3>4. ASSUME NEW p \in Pools, NEW i \in Nat, NEW v \in AllWorkers,
                   Queued(s, p, i)', Served(s, v)'
            PROVE  FALSE
        BY <2>3, <3>1, <3>4
      <3> QED
        BY <1>0, <3>1, <3>2, <3>3, <3>4 DEF OwnersAreOne
    <2> QED
      BY <2>5, <2>6, <2>7 DEF Ownership, HandlerHasSocket, httpdVars
  <1>3. CASE WorkerComplete(w)
    <2>1. \A s, p, i : Queued(s, p, i)' <=> Queued(s, p, i)
      BY <1>3 DEF Queued, WorkerComplete
    <2>2. ASSUME NEW s \in Sockets, NEW v \in AllWorkers
          PROVE  Served(s, v)' <=> v # w /\ Served(s, v)
      BY <1>3 DEF Served, WorkerComplete, StatesTypeOK
    <2>3. serving[w] \in Sockets /\ Served(serving[w], w)
      BY <1>3 DEF Served, WorkerComplete, StatesTypeOK
    <2>4. ASSUME NEW s \in Sockets
          PROVE  /\ socket'[s] = IF s = serving[w] THEN "open" ELSE socket[s]
                 /\ s = serving[w] <=> Served(s, w)
      BY <1>3 DEF Served, WorkerComplete, StatesTypeOK
    <2>5. UNCHANGED httpdVars
      BY <1>3 DEF WorkerComplete
    <2>6. ASSUME NEW s \in Sockets
          PROVE  AsyncIsOwned(s)' /\ OwnersAreOne(s)'
      BY <1>0, <2>1, <2>2, <2>3, <2>4 DEF Ownership, AsyncIsOwned, OwnersAreOne
    <2>7. HandlerHasSocket'
      BY <2>4, <2>5
         DEF Ownership, HandlerHasSocket, httpdVars, StatesTypeOK, Requests
    <2> QED
      BY <2>6, <2>7 DEF Ownership
  <1> QED
    BY <1>1, <1>2, <1>3

\* Clients come and go, and the server closes its own sockets only.
LEMMA ServerOwns ==
    ASSUME StatesTypeOK, Ownership, NEW s \in Sockets,
           \/ Connect(s) \/ ClientSends(s) \/ ClientLeaves(s)
           \/ HttpdServes(s)
    PROVE  Ownership'
  <1>1. /\ \A t, p, i : Queued(t, p, i)' <=> Queued(t, p, i)
        /\ \A t, w : Served(t, w)' <=> Served(t, w)
    BY DEF Connect, ClientSends, ClientLeaves, HttpdServes, HttpdAnswers,
           Request, HttpdCloses, Queued, Served,
           workerVars
  <1>2. \A t : Held(t)' <=> Held(t)
    BY DEF Connect, ClientSends, ClientLeaves, HttpdServes, HttpdAnswers,
           Request, HttpdCloses, Held, httpdVars
  <1>3. ASSUME NEW t \in Sockets
        PROVE  socket'[t] = "async" <=> socket[t] = "async"
    BY DEF Connect, ClientSends, ClientLeaves, HttpdServes, HttpdAnswers,
           Request, HttpdCloses, StatesTypeOK
  <1>4. HandlerHasSocket'
    BY DEF Connect, ClientSends, ClientLeaves, HttpdServes, HttpdAnswers,
           Request, HttpdCloses, Ownership,
           HandlerHasSocket, httpdVars, StatesTypeOK, Requests
  <1>5. ASSUME NEW t \in Sockets
        PROVE  AsyncIsOwned(t)' /\ OwnersAreOne(t)'
    BY <1>1, <1>2, <1>3 DEF Ownership, AsyncIsOwned, OwnersAreOne
  <1> QED
    BY <1>4, <1>5 DEF Ownership

-----------------------------------------------------------------------------
(* Theorems.                                                               *)

\* Before the first connection no capacity is signalled and no socket is
\* owned.
LEMMA Initially == Init => IInv
  <1> SUFFICES ASSUME Init PROVE IInv
    OBVIOUS
  <1>1. StatesTypeOK
    BY DEF Init, StatesTypeOK, Requests
  <1>2. CountsTypeOK
    BY DEF Init, CountsTypeOK
  <1>3. CapacityIsConserved
    <2> SUFFICES ASSUME NEW p \in Pools
                 PROVE  ready[p] + TakenByHandler(p) + Len(queue[p]) =
                           Cardinality(Waiting(p))
      BY DEF CapacityIsConserved
    <2>1. Waiting(p) = {}
      BY DEF Init, Waiting, AllWorkers
    <2>2. ready[p] = 0 /\ TakenByHandler(p) = 0 /\ Len(queue[p]) = 0
      BY DEF Init, TakenByHandler
    <2> QED
      BY <2>1, <2>2, FS_EmptySet
  <1>4. Ownership
    <2>1. \A s : ~Held(s)
      BY DEF Init, Held
    <2>2. \A s : \A p \in Pools, i \in Nat : ~Queued(s, p, i)
      BY DEF Init, Queued
    <2>3. \A s : \A w \in AllWorkers : ~Served(s, w)
      BY DEF Init, Served
    <2>4. \A s \in Sockets : socket[s] # "async"
      BY DEF Init
    <2> QED
      BY <2>1, <2>2, <2>3, <2>4
         DEF Init, Ownership, HandlerHasSocket, AsyncIsOwned, OwnersAreOne
  <1> QED
    BY <1>1, <1>2, <1>3, <1>4 DEF IInv

\* Every step of a client, of the server task and of a worker keeps the
\* invariant.
LEMMA Inductive == IInv /\ [Next]_vars => IInv'
  <1> SUFFICES ASSUME IInv, [Next]_vars PROVE IInv'
    OBVIOUS
  <1> USE DEF IInv
  <1>1. StatesTypeOK' /\ CountsTypeOK'
    BY StatesTyping, CountsTyping
  <1>2. CASE Clone \/ Take \/ Enqueue
    BY <1>1, <1>2, HandlerConserves, HandlerOwns
  <1>3. ASSUME NEW w \in AllWorkers, WorkerGive(w) \/ WorkerReceive(w)
        PROVE  IInv'
    BY <1>1, <1>3, WorkerConserves, WorkerOwns
  <1>4. ASSUME NEW s \in Sockets,
               \/ Connect(s) \/ ClientSends(s) \/ ClientLeaves(s)
               \/ HttpdServes(s)
        PROVE  IInv'
    <2>1. UNCHANGED <<ready, queue, workerPc>>
      BY <1>4 DEF Connect, ClientSends, ClientLeaves, HttpdServes,
             HttpdAnswers, Request, HttpdCloses, workerVars
    <2>2. \A p : TakenByHandler(p)' = TakenByHandler(p)
      BY <1>4 DEF Connect, ClientSends, ClientLeaves, HttpdServes,
             HttpdAnswers, Request, HttpdCloses, TakenByHandler,
             httpdVars
    <2>3. \A p : Waiting(p)' = Waiting(p)
      BY <2>1 DEF Waiting
    <2>4. CapacityIsConserved'
      BY <2>1, <2>2, <2>3 DEF CapacityIsConserved
    <2> QED
      BY <1>1, <1>4, <2>4, ServerOwns
  <1>5. ASSUME NEW w \in AllWorkers,
               ServeReads(w) \/ ServeEnds(w) \/ WorkerComplete(w)
        PROVE  IInv'
    <2>1. UNCHANGED <<ready, queue, httpdVars>>
      BY <1>5 DEF ServeReads, ServeEnds, WorkerComplete
    <2>2. \A p : TakenByHandler(p)' = TakenByHandler(p)
      BY <2>1 DEF TakenByHandler, httpdVars
    <2>3. ASSUME NEW p \in Pools
          PROVE  Waiting(p)' = Waiting(p)
      <3>1. \A v \in Workers(p) : v \in AllWorkers
        BY DEF AllWorkers
      <3> QED
        BY <1>5, <3>1 DEF ServeReads, ServeEnds, WorkerComplete, Waiting,
               StatesTypeOK, workerVars
    <2>4. CapacityIsConserved'
      BY <2>1, <2>2, <2>3 DEF CapacityIsConserved
    <2> QED
      BY <1>1, <1>5, <2>4, WorkerOwns
  <1>6. CASE UNCHANGED vars
    <2>1. CapacityIsConserved'
      BY <1>6 DEF vars, httpdVars, workerVars, CapacityIsConserved,
             TakenByHandler, Waiting
    <2>2. Ownership'
      BY <1>6 DEF vars, httpdVars, workerVars, Ownership, HandlerHasSocket,
             AsyncIsOwned, OwnersAreOne, Held, Queued, Served
    <2> QED
      BY <1>1, <2>1, <2>2
  <1> QED
    BY <1>2, <1>3, <1>4, <1>5, <1>6 DEF Next

THEOREM Invariance == Spec => []IInv
  BY Initially, Inductive, PTL DEF Spec

\* Every variable keeps to its type; a semaphore never counts beyond its pool.
THEOREM TypeCorrectness == Spec => []TypeOK
  <1>1. IInv => TypeOK
    <2> SUFFICES ASSUME IInv PROVE TypeOK
      OBVIOUS
    <2>1. ASSUME NEW p \in Pools
          PROVE  ready[p] \in 0 .. Capacity(p) /\ queue[p] \in Seq(Sockets)
      <3>1. /\ ready[p] \in Nat /\ queue[p] \in Seq(Sockets)
            /\ TakenByHandler(p) \in {0, 1} /\ Len(queue[p]) \in Nat
            /\ ready[p] + TakenByHandler(p) + Len(queue[p]) =
                  Cardinality(Waiting(p))
        BY DEF IInv, CountsTypeOK, TakenByHandler, CapacityIsConserved
      <3>2. Cardinality(Waiting(p)) \in 0 .. Capacity(p) /\ Capacity(p) \in Nat
        BY WaitingIsFinite, PoolIsFinite
      <3> QED
        BY <3>1, <3>2
    <2> QED
      BY <2>1 DEF IInv, StatesTypeOK, TypeOK
  <1> QED
    BY <1>1, Invariance, PTL

\* Capacity is neither lost nor made: every waiting worker is advertised once,
\* promised to the handler once, or has a request queued, also when a clone or
\* an enqueue fails.
THEOREM NoCapacityIsLost == Spec => []CapacityIsConserved
  BY Invariance, PTL DEF IInv

\* Owners that exclude one another are counted as one.
LEMMA OwnersCounted == IInv => AsyncSocketHasOneOwner
  <1> SUFFICES ASSUME IInv, NEW s \in Sockets
               PROVE  LET inHandler == IF Held(s) THEN 1 ELSE 0
                          queued == {q \in Pools \X (1 .. StreamWorkers) :
                                        q[2] <= Len(queue[q[1]])
                                           /\ queue[q[1]][q[2]] = s}
                          served == {w \in AllWorkers : Served(s, w)}
                      IN  inHandler + Cardinality(queued) + Cardinality(served)
                            = IF socket[s] = "async" THEN 1 ELSE 0
    BY DEF AsyncSocketHasOneOwner, Held, Served
  <1> DEFINE queued == {q \in Pools \X (1 .. StreamWorkers) :
                           q[2] <= Len(queue[q[1]]) /\ queue[q[1]][q[2]] = s}
             served == {w \in AllWorkers : Served(s, w)}
  <1>1. AsyncIsOwned(s) /\ OwnersAreOne(s)
    BY DEF IInv, Ownership
  <1>2. ASSUME NEW p \in Pools, NEW i \in Nat
        PROVE  Queued(s, p, i) <=> <<p, i>> \in queued
    <2>1. /\ ready[p] \in Nat /\ TakenByHandler(p) \in {0, 1}
          /\ Len(queue[p]) \in Nat
          /\ ready[p] + TakenByHandler(p) + Len(queue[p]) =
                Cardinality(Waiting(p))
      BY DEF IInv, CountsTypeOK, TakenByHandler, CapacityIsConserved
    <2>2. Len(queue[p]) <= StreamWorkers
      BY <2>1, WaitingIsFinite, StreamAssumption DEF Capacity
    <2> QED
      BY <2>1, <2>2, StreamAssumption DEF Queued
  <1>3. \A q \in queued : /\ q[1] \in Pools /\ q[2] \in Nat /\ q = <<q[1], q[2]>>
                          /\ Queued(s, q[1], q[2])
    BY <1>2, StreamAssumption
  <1>4. ASSUME NEW S, \A a, b \in S : a = b
        PROVE  Cardinality(S) = IF S = {} THEN 0 ELSE 1
    <2>1. CASE S = {}
      BY <2>1, FS_EmptySet
    <2>2. CASE S # {}
      <3>1. PICK a \in S : TRUE
        BY <2>2
      <3>2. S = {a}
        BY <1>4, <3>1
      <3> QED
        BY <2>2, <3>2, FS_Singleton
    <2> QED
      BY <2>1, <2>2
  <1>5. \A q, r \in queued : q = r
    BY <1>1, <1>3 DEF OwnersAreOne
  <1>6. \A v, w \in served : v = w
    BY <1>1 DEF OwnersAreOne
  <1>7. /\ Cardinality(queued) = IF queued = {} THEN 0 ELSE 1
        /\ Cardinality(served) = IF served = {} THEN 0 ELSE 1
    BY <1>4, <1>5, <1>6
  <1>8. /\ Held(s) => queued = {} /\ served = {}
        /\ queued = {} \/ served = {}
        /\ socket[s] = "async" <=> Held(s) \/ queued # {} \/ served # {}
    <2>1. queued # {} <=> \E p \in Pools, i \in Nat : Queued(s, p, i)
      BY <1>2, <1>3
    <2>2. served # {} <=> \E w \in AllWorkers : Served(s, w)
      OBVIOUS
    <2> HIDE DEF queued, served
    <2> QED
      BY <1>1, <2>1, <2>2 DEF AsyncIsOwned, OwnersAreOne
  <1> QED
    BY <1>7, <1>8

\* A socket that has left the server has exactly one owner, who returns it:
\* the handler, one place of one queue, or one worker.
THEOREM SocketsAreOwnedOnce == Spec => []AsyncSocketHasOneOwner
  BY Invariance, OwnersCounted, PTL
=============================================================================
