-------------------------- MODULE StreamFanoutProofs --------------------------
(***************************************************************************)
(* Proofs about StreamFanout, for every number of workers and every bound  *)
(* on the publications.                                                    *)
(***************************************************************************)
EXTENDS StreamFanout, TLAPS

\* The dispatcher's loop starts with the first worker.
LoopStartsAtFirst == stackPc # "notify" => notifyIndex = 1

IInv ==
    /\ TypeOK
    /\ SequencesInOrder
    /\ NoLostWakeup
    /\ LoopStartsAtFirst

\* The invariant holds initially.
LEMMA InitIInv == Init => IInv
  <1> SUFFICES ASSUME Init PROVE IInv
    OBVIOUS
  <1>1. TypeOK
    BY WorkerAssumption, SequenceAssumption DEF Init, TypeOK, DataTypeOK, FlagsTypeOK, Workers, WorkerPcs
  <1>2. SequencesInOrder
    BY DEF Init, SequencesInOrder
  <1>3. NoLostWakeup /\ LoopStartsAtFirst
    BY DEF Init, NoLostWakeup, LoopStartsAtFirst
  <1> QED
    BY <1>1, <1>2, <1>3 DEF IInv

\* Every step keeps the numbers, the queue and the program counters in their
\* types.
LEMMA DataTyping == TypeOK /\ [Next]_vars => DataTypeOK'
  <1> SUFFICES ASSUME TypeOK, [Next]_vars PROVE DataTypeOK'
    OBVIOUS
  <1> USE SequenceAssumption DEF TypeOK, DataTypeOK, WorkerPcs, stackVars, workerVars,
          clientVars, vars
  <1>1. CASE Publish
    BY <1>1 DEF Publish
  <1>2. CASE StackReceive
    <2>1. PICK n \in 1 .. MaxSequence : publicationQueue = <<n>>
      BY <1>2 DEF StackReceive
    <2>2. stackPublication' = n /\ publicationQueue' = <<>>
      BY <1>2, <2>1 DEF StackReceive
    <2> QED
      BY <1>2, <2>1, <2>2 DEF StackReceive
  <1>3. CASE StackCopy
    BY <1>3 DEF StackCopy
  <1>4. CASE StackNotify
    <2>1. notifyIndex' \in Workers
      BY <1>4, WorkerAssumption DEF StackNotify, Workers
    <2> QED
      BY <1>4, <2>1 DEF StackNotify
  <1>5. ASSUME NEW w \in Workers, WorkerConnect(w) PROVE DataTypeOK'
    BY <1>5 DEF WorkerConnect
  <1>6. ASSUME NEW w \in Workers, WorkerClear(w) PROVE DataTypeOK'
    BY <1>6 DEF WorkerClear
  <1>7. ASSUME NEW w \in Workers, WorkerCopy(w) PROVE DataTypeOK'
    BY <1>7 DEF WorkerCopy
  <1>8. ASSUME NEW w \in Workers, WorkerSend(w) PROVE DataTypeOK'
    BY <1>8 DEF WorkerSend
  <1>9. ASSUME NEW w \in Workers, WorkerSendFails(w) PROVE DataTypeOK'
    BY <1>9 DEF WorkerSendFails
  <1>10. ASSUME NEW w \in Workers, WorkerWake(w) PROVE DataTypeOK'
    BY <1>10 DEF WorkerWake
  <1>11. ASSUME NEW w \in Workers, WorkerProbe(w) PROVE DataTypeOK'
    BY <1>11 DEF WorkerProbe
  <1>12. ASSUME NEW w \in Workers, WorkerTimeout(w) PROVE DataTypeOK'
    BY <1>12 DEF WorkerTimeout
  <1>13. ASSUME NEW w \in Workers, ClientLeaves(w) PROVE DataTypeOK'
    BY <1>13 DEF ClientLeaves
  <1>14. ASSUME NEW w \in Workers, ClientWrites(w) PROVE DataTypeOK'
    BY <1>14 DEF ClientWrites
  <1>15. CASE UNCHANGED vars
    BY <1>15
  <1> QED
    BY <1>1, <1>2, <1>3, <1>4, <1>5, <1>6, <1>7,
       <1>8, <1>9, <1>10, <1>11, <1>12, <1>13, <1>14, <1>15
    DEF Next, HttpStackTask, WorkerRuns

\* Every step keeps the Boolean arrays in their types.
LEMMA FlagsTyping == TypeOK /\ [Next]_vars => FlagsTypeOK'
  <1> SUFFICES ASSUME TypeOK, [Next]_vars PROVE FlagsTypeOK'
    OBVIOUS
  <1> USE DEF TypeOK, FlagsTypeOK, stackVars, workerVars,
          clientVars, vars
  <1>1. CASE Publish
    BY <1>1 DEF Publish
  <1>2. CASE StackReceive
    BY <1>2 DEF StackReceive
  <1>3. CASE StackCopy
    BY <1>3 DEF StackCopy
  <1>4. CASE StackNotify
    BY <1>4 DEF StackNotify
  <1>5. ASSUME NEW w \in Workers, WorkerConnect(w) PROVE FlagsTypeOK'
    BY <1>5 DEF WorkerConnect
  <1>6. ASSUME NEW w \in Workers, WorkerClear(w) PROVE FlagsTypeOK'
    BY <1>6 DEF WorkerClear
  <1>7. ASSUME NEW w \in Workers, WorkerCopy(w) PROVE FlagsTypeOK'
    BY <1>7 DEF WorkerCopy
  <1>8. ASSUME NEW w \in Workers, WorkerSend(w) PROVE FlagsTypeOK'
    BY <1>8 DEF WorkerSend
  <1>9. ASSUME NEW w \in Workers, WorkerSendFails(w) PROVE FlagsTypeOK'
    BY <1>9 DEF WorkerSendFails
  <1>10. ASSUME NEW w \in Workers, WorkerWake(w) PROVE FlagsTypeOK'
    BY <1>10 DEF WorkerWake
  <1>11. ASSUME NEW w \in Workers, WorkerProbe(w) PROVE FlagsTypeOK'
    BY <1>11 DEF WorkerProbe
  <1>12. ASSUME NEW w \in Workers, WorkerTimeout(w) PROVE FlagsTypeOK'
    BY <1>12 DEF WorkerTimeout
  <1>13. ASSUME NEW w \in Workers, ClientLeaves(w) PROVE FlagsTypeOK'
    BY <1>13 DEF ClientLeaves
  <1>14. ASSUME NEW w \in Workers, ClientWrites(w) PROVE FlagsTypeOK'
    BY <1>14 DEF ClientWrites
  <1>15. CASE UNCHANGED vars
    BY <1>15
  <1> QED
    BY <1>1, <1>2, <1>3, <1>4, <1>5, <1>6, <1>7,
       <1>8, <1>9, <1>10, <1>11, <1>12, <1>13, <1>14, <1>15
    DEF Next, HttpStackTask, WorkerRuns

\* Publications never overtake each other on their way to the clients.
LEMMA OrderStep == IInv /\ [Next]_vars => SequencesInOrder'
  <1> SUFFICES ASSUME IInv, [Next]_vars PROVE SequencesInOrder'
    OBVIOUS
  <1> USE DEF IInv, TypeOK, DataTypeOK, SequencesInOrder, stackVars, workerVars,
          clientVars, vars
  <1>1. CASE Publish
    BY <1>1 DEF Publish
  <1>2. CASE StackReceive
    <2>1. PICK n \in 1 .. MaxSequence : publicationQueue = <<n>>
      BY <1>2 DEF StackReceive
    <2>2. /\ stackPublication' = n /\ publicationQueue' = <<>>
          /\ stackPublication < n /\ n < nextSequence
      BY <1>2, <2>1 DEF StackReceive
    <2> QED
      BY <1>2, <2>1, <2>2 DEF StackReceive
  <1>3. CASE StackCopy
    BY <1>3 DEF StackCopy
  <1>4. CASE StackNotify
    BY <1>4 DEF StackNotify
  <1>5. ASSUME NEW w \in Workers, WorkerConnect(w) PROVE SequencesInOrder'
    BY <1>5 DEF WorkerConnect
  <1>6. ASSUME NEW w \in Workers, WorkerRuns(w) PROVE SequencesInOrder'
    BY <1>6 DEF WorkerRuns, WorkerClear, WorkerCopy, WorkerSend,
                WorkerSendFails, WorkerWake, WorkerProbe
  <1>7. ASSUME NEW w \in Workers, WorkerTimeout(w) PROVE SequencesInOrder'
    BY <1>7 DEF WorkerTimeout
  <1>8. ASSUME NEW w \in Workers, ClientWrites(w) \/ ClientLeaves(w)
        PROVE  SequencesInOrder'
    BY <1>8 DEF ClientWrites, ClientLeaves
  <1>9. CASE UNCHANGED vars
    BY <1>9
  <1> QED
    BY <1>1, <1>2, <1>3, <1>4, <1>5, <1>6, <1>7, <1>8, <1>9
    DEF Next, HttpStackTask

\* A sleeping worker has the newest snapshot or a wakeup on the way: a new
\* snapshot starts the loop at the first worker, and the loop leaves a
\* notification behind at every worker it passes.
LEMMA WakeupStep ==
    IInv /\ [Next]_vars => NoLostWakeup' /\ LoopStartsAtFirst'
  <1> SUFFICES ASSUME IInv, [Next]_vars
               PROVE  NoLostWakeup' /\ LoopStartsAtFirst'
    OBVIOUS
  <1> USE WorkerAssumption
      DEF IInv, TypeOK, DataTypeOK, NoLostWakeup, LoopStartsAtFirst, stackVars,
          workerVars, clientVars, vars, Workers
  <1>1. CASE Publish
    BY <1>1 DEF Publish
  <1>2. CASE StackReceive
    BY <1>2 DEF StackReceive
  <1>3. CASE StackCopy
    BY <1>3 DEF StackCopy
  <1>4. CASE StackNotify
    <2>1. /\ \A w \in Workers : w # notifyIndex => notified'[w] = notified[w]
          /\ notified'[notifyIndex]
      BY <1>4 DEF StackNotify, FlagsTypeOK
    <2>2. /\ UNCHANGED <<latest, lastSequence, workerPc>>
          /\ stackPc' # "notify" => notifyIndex = WorkerCount
          /\ stackPc' = "notify" => notifyIndex' = notifyIndex + 1
          /\ stackPc' # "notify" => notifyIndex' = 1
      BY <1>4 DEF StackNotify
    <2>3. ASSUME NEW w \in Workers, workerPc[w] = "wait",
                 lastSequence[w] # latest, ~notified'[w]
          PROVE  stackPc' = "notify" /\ notifyIndex' <= w
      <3>1. ~notified[w] /\ w # notifyIndex
        BY <2>1, <2>3
      <3>2. stackPc = "notify" /\ notifyIndex <= w
        BY <2>3, <3>1
      <3> QED
        BY <2>2, <3>1, <3>2
    <2>4. NoLostWakeup'
      BY <2>2, <2>3
    <2> QED
      BY <2>2, <2>4
  <1>5. ASSUME NEW w \in Workers, WorkerConnect(w)
        PROVE  NoLostWakeup' /\ LoopStartsAtFirst'
    BY <1>5 DEF WorkerConnect
  <1>6. ASSUME NEW w \in Workers, WorkerCopy(w)
        PROVE  NoLostWakeup' /\ LoopStartsAtFirst'
    <2>1. latest = 0 => lastSequence[w] = 0
      BY <1>6 DEF SequencesInOrder
    <2> QED
      BY <1>6, <2>1 DEF WorkerCopy
  <1>7. ASSUME NEW w \in Workers,
               \/ WorkerClear(w) \/ WorkerSend(w) \/ WorkerSendFails(w)
               \/ WorkerWake(w) \/ WorkerProbe(w)
        PROVE  NoLostWakeup' /\ LoopStartsAtFirst'
    <2>1. /\ UNCHANGED <<stackPc, notifyIndex, latest>>
          /\ workerPc'[w] # "wait"
          /\ \A v \in Workers \ {w} :
                /\ workerPc'[v] = workerPc[v]
                /\ notified'[v] = notified[v]
                /\ lastSequence'[v] = lastSequence[v]
      BY <1>7 DEF WorkerClear, WorkerSend, WorkerSendFails, WorkerWake,
                  WorkerProbe, FlagsTypeOK
    <2>2. ASSUME NEW v \in Workers, workerPc'[v] = "wait"
          PROVE  \/ lastSequence'[v] = latest'
                 \/ notified'[v]
                 \/ stackPc' = "notify" /\ notifyIndex' <= v
      BY <2>1, <2>2
    <2> QED
      BY <2>1, <2>2
  <1>8. ASSUME NEW w \in Workers,
               WorkerTimeout(w) \/ ClientWrites(w) \/ ClientLeaves(w)
        PROVE  NoLostWakeup' /\ LoopStartsAtFirst'
    BY <1>8 DEF WorkerTimeout, ClientWrites, ClientLeaves
  <1>9. CASE UNCHANGED vars
    BY <1>9
  <1> QED
    BY <1>1, <1>2, <1>3, <1>4, <1>5, <1>6, <1>7, <1>8, <1>9
    DEF Next, HttpStackTask, WorkerRuns

\* The invariant holds in every reachable state.
THEOREM Invariance == Spec => []IInv
  <1>1. IInv /\ [Next]_vars => IInv'
    BY DataTyping, FlagsTyping, OrderStep, WakeupStep DEF IInv, TypeOK, DataTypeOK
  <1> QED
    BY InitIInv, <1>1, PTL DEF Spec

\* Every variable keeps to its type.
THEOREM TypeCorrectness == Spec => []TypeOK
  <1>1. IInv => TypeOK
    BY DEF IInv
  <1> QED
    BY <1>1, Invariance, PTL

\* No interleaving of snapshot, notification and take loses a wakeup.
THEOREM WakeupsAreKept == Spec => []NoLostWakeup
  <1>1. IInv => NoLostWakeup
    BY DEF IInv
  <1> QED
    BY <1>1, Invariance, PTL

\* Publications reach the snapshot and the clients in order.
THEOREM OrderIsKept == Spec => []SequencesInOrder
  <1>1. IInv => SequencesInOrder
    BY DEF IInv
  <1> QED
    BY <1>1, Invariance, PTL

\* The fan-out implements the promise to each connection: a step of it is a
\* publication, a delivery of a newer publication, a new connection or a
\* stutter of LatestValue.
THEOREM Implementation == Spec => ImplementsLatestValue
  <1>1. Init => Promise!Init
    BY DEF Init, Promise!Init
  <1>2. ASSUME IInv, [Next]_vars
        PROVE  [Promise!Next]_<<nextSequence - 1, lastSequence>>
    <2> USE DEF stackVars, workerVars,
          clientVars, vars
    <2>1. CASE Publish
      BY <1>2, <2>1 DEF Publish, IInv, TypeOK, DataTypeOK, Promise!Next, Promise!Publish
    <2>2. CASE HttpStackTask
      BY <2>2 DEF HttpStackTask, StackReceive, StackCopy, StackNotify
    <2>3. ASSUME NEW w \in Workers, WorkerConnect(w)
          PROVE  [Promise!Next]_<<nextSequence - 1, lastSequence>>
      BY <2>3 DEF WorkerConnect, Promise!Next, Promise!Connect
    <2>4. ASSUME NEW w \in Workers, WorkerSend(w)
          PROVE  [Promise!Next]_<<nextSequence - 1, lastSequence>>
      <3>1. copied[w] \in lastSequence[w] + 1 .. nextSequence - 1
        BY <1>2, <2>4 DEF WorkerSend, IInv, TypeOK, DataTypeOK,
                            SequencesInOrder
      <3>2. /\ lastSequence' = [lastSequence EXCEPT ![w] = copied[w]]
            /\ UNCHANGED nextSequence
        BY <2>4 DEF WorkerSend
      <3> QED
        BY <3>1, <3>2 DEF Promise!Next, Promise!Deliver
    <2>5. ASSUME NEW w \in Workers,
                 \/ WorkerClear(w) \/ WorkerCopy(w) \/ WorkerSendFails(w)
                 \/ WorkerWake(w) \/ WorkerProbe(w) \/ WorkerTimeout(w)
                 \/ ClientWrites(w) \/ ClientLeaves(w)
          PROVE  UNCHANGED <<nextSequence, lastSequence>>
      BY <2>5 DEF WorkerClear, WorkerCopy, WorkerSendFails, WorkerWake,
                  WorkerProbe, WorkerTimeout, ClientWrites, ClientLeaves
    <2>6. CASE UNCHANGED vars
      BY <2>6
    <2> QED
      BY <1>2, <2>1, <2>2, <2>3, <2>4, <2>5, <2>6 DEF Next, WorkerRuns
  <1> QED
    BY <1>1, <1>2, Invariance, PTL DEF Spec, ImplementsLatestValue, Promise!Spec
=============================================================================
