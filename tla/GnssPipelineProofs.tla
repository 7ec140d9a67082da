-------------------------- MODULE GnssPipelineProofs --------------------------
(***************************************************************************)
(* Proofs about GnssPipeline, for every queue length, every range of the   *)
(* input epoch and every set of HDOP values.                               *)
(***************************************************************************)
EXTENDS GnssPipeline, TLAPS, FiniteSetTheorems, SequenceTheorems

-----------------------------------------------------------------------------
(* Lemmas about the operators of the model.                                *)

\* The epoch after an epoch is an epoch, and a different one: the counter
\* skips zero and has at least two values.
LEMMA EpochAfterProperties ==
    ASSUME NEW e \in Epochs
    PROVE  EpochAfter(e) \in Epochs /\ EpochAfter(e) # e
  BY EpochAssumption DEF EpochAfter, Epochs

\* A finite sequence holds a natural number of occurrences of a marker.
LEMMA OccurrencesType ==
    ASSUME NEW S, NEW s \in Seq(S), NEW m
    PROVE  /\ IsFiniteSet({i \in DOMAIN s : s[i] = m})
           /\ Occurrences(s, m) \in Nat
  <1>1. DOMAIN s = 1 .. Len(s) /\ Len(s) \in Nat
    BY LenProperties
  <1>2. IsFiniteSet(DOMAIN s)
    BY <1>1, FS_Interval
  <1>3. IsFiniteSet({i \in DOMAIN s : s[i] = m})
    BY <1>2, FS_Subset
  <1> QED
    BY <1>3, FS_CardinalityType DEF Occurrences

\* There is no occurrence of m exactly when no position holds m.
LEMMA OccurrencesZero ==
    ASSUME NEW S, NEW s \in Seq(S), NEW m
    PROVE  Occurrences(s, m) = 0 <=> \A i \in DOMAIN s : s[i] # m
  <1> DEFINE P == {i \in DOMAIN s : s[i] = m}
  <1>1. IsFiniteSet(P)
    BY OccurrencesType
  <1>2. Cardinality(P) = 0 <=> P = {}
    BY <1>1, FS_EmptySet
  <1>3. P = {} <=> \A i \in DOMAIN s : s[i] # m
    OBVIOUS
  <1> QED
    BY <1>2, <1>3 DEF Occurrences

\* Appending a marker adds one occurrence of it and of no other.
LEMMA OccurrencesAppend ==
    ASSUME NEW S, NEW s \in Seq(S), NEW x \in S, NEW m
    PROVE  Occurrences(Append(s, x), m)
               = Occurrences(s, m) + (IF x = m THEN 1 ELSE 0)
  <1> DEFINE P == {i \in DOMAIN s : s[i] = m}
             t == Append(s, x)
             Q == {i \in DOMAIN t : t[i] = m}
  <1>1. Len(s) \in Nat /\ DOMAIN s = 1 .. Len(s)
    BY LenProperties
  <1>2. /\ DOMAIN t = 1 .. Len(s) + 1
        /\ t[Len(s) + 1] = x
        /\ \A i \in 1 .. Len(s) : t[i] = s[i]
    BY <1>1
  <1>3. IsFiniteSet(P) /\ Cardinality(P) \in Nat
    BY OccurrencesType, FS_CardinalityType
  <1>4. Occurrences(s, m) = Cardinality(P) /\ Occurrences(t, m) = Cardinality(Q)
    BY DEF Occurrences
  <1>5. t = Append(s, x)
    OBVIOUS
  <1> HIDE DEF t
  <1>6. CASE x = m
    <2>1. Q = P \cup {Len(s) + 1} /\ Len(s) + 1 \notin P
      BY <1>1, <1>2, <1>6
    <2> HIDE DEF P, Q
    <2>2. Cardinality(Q) = Cardinality(P) + 1
      BY <2>1, <1>3, FS_AddElement
    <2> QED
      BY <2>2, <1>4, <1>5, <1>6
  <1>7. CASE x # m
    <2>1. Q = P
      BY <1>1, <1>2, <1>7
    <2> HIDE DEF P, Q
    <2> QED
      BY <2>1, <1>3, <1>4, <1>5, <1>7
  <1> QED
    BY <1>6, <1>7

\* Taking the first marker removes one occurrence of it and of no other.
LEMMA OccurrencesTail ==
    ASSUME NEW S, NEW s \in Seq(S), s # << >>, NEW m
    PROVE  Occurrences(s, m)
               = Occurrences(Tail(s), m) + (IF Head(s) = m THEN 1 ELSE 0)
  <1> DEFINE P == {i \in DOMAIN s : s[i] = m}
             t == Tail(s)
             Q == {i \in DOMAIN t : t[i] = m}
             R == {i \in P : i # 1}
             f == [i \in Q |-> i + 1]
  <1>1. Len(s) \in Nat \ {0} /\ DOMAIN s = 1 .. Len(s) /\ Head(s) = s[1]
    BY LenProperties, EmptySeq
  <1>2. /\ t \in Seq(S)
        /\ DOMAIN t = 1 .. Len(s) - 1
        /\ \A i \in 1 .. Len(s) - 1 : t[i] = s[i + 1]
    BY <1>1, HeadTailProperties, LenProperties
  <1>3. /\ IsFiniteSet(P) /\ Cardinality(P) \in Nat
        /\ IsFiniteSet(Q) /\ Cardinality(Q) \in Nat
    BY <1>2, OccurrencesType, FS_CardinalityType
  <1>4. Occurrences(s, m) = Cardinality(P) /\ Occurrences(t, m) = Cardinality(Q)
    BY DEF Occurrences
  <1>5. t = Tail(s)
    OBVIOUS
  <1> HIDE DEF t
  <1>6. f \in Bijection(Q, R)
    <2>1. \A i \in Q : i + 1 \in R
      BY <1>1, <1>2
    <2>2. \A i \in R : i - 1 \in Q /\ f[i - 1] = i
      BY <1>1, <1>2
    <2>3. \A i, j \in Q : f[i] = f[j] => i = j
      BY <1>1, <1>2
    <2>4. f \in [Q -> R]
      BY <2>1
    <2> HIDE DEF Q, R, f
    <2>5. f \in Injection(Q, R)
      BY <2>3, <2>4 DEF Injection, IsInjective
    <2>6. \A r \in R : \E q \in Q : f[q] = r
      BY <2>2
    <2> QED
      BY <2>4, <2>5, <2>6 DEF Bijection, Surjection
  <1>7. Cardinality(Q) = Cardinality(R)
    <2> HIDE DEF P, Q, f, R
    <2> QED BY <1>3, <1>6, FS_Bijection DEF ExistsBijection
  <1>8. CASE Head(s) = m
    <2>1. 1 \in P /\ R = P \ {1}
      BY <1>1, <1>8
    <2> HIDE DEF P, Q, R
    <2>2. Cardinality(R) = Cardinality(P) - 1
      BY <2>1, <1>3, FS_RemoveElement
    <2> QED
      BY <2>2, <1>3, <1>4, <1>5, <1>7, <1>8
  <1>9. CASE Head(s) # m
    <2>1. R = P
      BY <1>1, <1>9
    <2> HIDE DEF P, Q, R
    <2> QED
      BY <2>1, <1>3, <1>4, <1>5, <1>7, <1>9
  <1> QED
    BY <1>8, <1>9

-----------------------------------------------------------------------------
(* The inductive invariant.                                                *)

\* The override flags and the mutex follow the upload worker's position.
OverridePhases ==
    /\ overrideActive <=> writerPc # "idle"
    /\ overrideClosing <=> writerPc \in {"drain", "send", "await", "finish"}
    /\ parserMutex = "uart" => ~overrideActive
    /\ parserMutex = "http" => writerPc = "receive"
    /\ overrideClosing => writerEpoch = inputEpoch

\* The filter's local variables follow its position.
FilterPhases ==
    /\ hand # None <=> filterPc = "consider"
    /\ filterPc = "publish" => best # None
    /\ filterPc = "ack" => best = None
    /\ best = None => window = {}
    /\ flushing => filterPc \in {"check", "publish", "ack"}

\* The filter is serving a flush request it has received.
Serving == filterPc \in {"compare", "ack"} \/ flushing

\* A flush request is in one place at a time: in the control queue, in the
\* filter's hands, or answered; and only while the worker awaits the answer.
FlushInOnePlace ==
    /\ controlQueue # <<>> =>
          /\ writerPc = "await"
          /\ controlQueue[1] = inputEpoch
          /\ ~Serving
    /\ Serving => writerPc = "await" /\ controlEpoch = inputEpoch
    /\ flushDone => writerPc = "await" /\ controlQueue = <<>> /\ ~Serving

\* No candidate's marker is behind the flush marker: the parser is idle from
\* the moment the flush is requested.
NoCandidateBehindFlush ==
    \A i, j \in DOMAIN filterSet :
        filterSet[i] = "control" /\ filterSet[j] = "candidate" => j < i

\* From the moment the filter selects the flush, the candidate queue is empty.
FlushedQueueIsEmpty ==
    filterPc = "control" \/ Serving => candidateQueue = <<>>

\* A pair of the history that is not of the current epoch is of the one before.
WindowEpochs ==
    \A c \in window :
        c.epoch # inputEpoch =>
            overrideActive /\ inputEpoch = EpochAfter(c.epoch)

IInv ==
    /\ TypeOK
    /\ MarkersMatchItems
    /\ OverridePhases
    /\ FilterPhases
    /\ ParserHoldsSelectedSource
    /\ EpochIdentifiesSource
    /\ FlushInOnePlace
    /\ NoCandidateBehindFlush
    /\ FlushedQueueIsEmpty
    /\ FlushLeavesNothing
    /\ WindowEpochs
    /\ BestIsLowest

\* Every step keeps the flags Boolean.
LEMMA FlagsTyping ==
    FlagsTypeOK /\ [Next]_vars => FlagsTypeOK'
  <1> SUFFICES ASSUME FlagsTypeOK, [Next]_vars PROVE FlagsTypeOK'
    OBVIOUS
  <1> USE DEF FlagsTypeOK, vars, overrideVars, parserVars, queueVars,
         filterVars, writerVars
  <1>1. ASSUME NEW s \in Sources, ParseStart(s) \/ ParseOverlong(s) \/
         ParseGga(s) \/ ParseRmc(s) \/ ParseOther(s) \/ ParseChunkEnds(s)
       PROVE  FlagsTypeOK'
    BY <1>1 DEF ParseStart, ParseOverlong, ParseGga, ParseRmc,
           GnssCandidateSend, ParserReset, ParseOther, ParseChunkEnds
  <1>2. CASE UartSetup \/ UartLock \/ UartRead \/ SelectionTimerCallback
    BY <1>2 DEF UartSetup, ParserReset, UartLock, GnssUartInputFeed, UartRead,
           SelectionTimerCallback
  <1>3. CASE FilterSelect \/ FilterReceiveCandidate \/ ConsiderCandidate \/
         FilterReceiveTimer \/ FilterReceiveControl
    BY <1>3 DEF FilterSelect, FilterReceiveCandidate, ConsiderCandidate,
           BestAfter, FilterReceiveTimer, FilterReceiveControl
  <1>4. CASE FilterCompareEpoch \/ PublishCheck \/ PublishBestCandidate \/
         FilterAcknowledge \/ GnssPublicationReceive
    BY <1>4 DEF FilterCompareEpoch, PublishCheck, PublishBestCandidate,
           FilterAcknowledge, GnssPublicationReceive
  <1>5. CASE OverrideBegin \/ OverrideFeed \/ WriteBodyEnds \/ OverrideClose
    BY <1>5 DEF OverrideBegin, OverrideFeed, WriteBodyEnds, OverrideClose
  <1>6. CASE OverrideDiscardStaleAck \/ OverrideSendFlush \/
         OverrideAwaitFlush \/ OverrideFinish
    BY <1>6 DEF OverrideDiscardStaleAck, OverrideSendFlush,
           OverrideAwaitFlush, OverrideFinish, ParserReset
  <1>7. CASE UNCHANGED vars
    BY <1>7
  <1> QED BY <1>1, <1>2, <1>3, <1>4, <1>5, <1>6, <1>7
          DEF Next, NmeaParserFeed, GnssFilterTask, OverrideEnd

\* Every step keeps the input side typed: the epoch wraps within its range.
LEMMA InputTyping ==
    TypeOK /\ [Next]_vars => InputTypeOK'
  <1> SUFFICES ASSUME TypeOK, [Next]_vars PROVE InputTypeOK'
    OBVIOUS
  <1> USE EpochAfterProperties DEF TypeOK, InputTypeOK, Sources, UartPcs,
         WriterPcs, vars, overrideVars, parserVars, queueVars, filterVars,
         writerVars
  <1>1. ASSUME NEW s \in Sources, ParseStart(s) \/ ParseOverlong(s) \/
         ParseRmc(s) \/ ParseOther(s) \/ ParseChunkEnds(s)
       PROVE  InputTypeOK'
    BY <1>1 DEF ParseStart, ParseOverlong, ParseRmc, GnssCandidateSend,
           ParserReset, ParseOther, ParseChunkEnds
  <1>2. ASSUME NEW s \in Sources, ParseGga(s)
       PROVE  InputTypeOK'
    BY <1>2 DEF ParseGga, PendingGga
  <1>3. CASE UartSetup \/ UartLock \/ UartRead \/ SelectionTimerCallback
    BY <1>3 DEF UartSetup, ParserReset, UartLock, GnssUartInputFeed, UartRead,
           SelectionTimerCallback
  <1>4. CASE FilterSelect \/ FilterReceiveCandidate \/ ConsiderCandidate \/
         FilterReceiveTimer \/ FilterReceiveControl
    BY <1>4 DEF FilterSelect, FilterReceiveCandidate, ConsiderCandidate,
           BestAfter, FilterReceiveTimer, FilterReceiveControl
  <1>5. CASE FilterCompareEpoch \/ PublishCheck \/ PublishBestCandidate \/
         FilterAcknowledge \/ GnssPublicationReceive
    BY <1>5 DEF FilterCompareEpoch, PublishCheck, PublishBestCandidate,
           FilterAcknowledge, GnssPublicationReceive
  <1>6. CASE OverrideBegin \/ OverrideFeed \/ WriteBodyEnds \/ OverrideClose
    BY <1>6 DEF OverrideBegin, OverrideFeed, WriteBodyEnds, OverrideClose
  <1>7. CASE OverrideDiscardStaleAck \/ OverrideSendFlush \/
         OverrideAwaitFlush \/ OverrideFinish
    BY <1>7 DEF OverrideDiscardStaleAck, OverrideSendFlush,
           OverrideAwaitFlush, OverrideFinish, ParserReset
  <1>8. CASE UNCHANGED vars
    BY <1>8
  <1> QED BY <1>1, <1>2, <1>3, <1>4, <1>5, <1>6, <1>7, <1>8
          DEF Next, NmeaParserFeed, GnssFilterTask, OverrideEnd

\* Every step keeps the queues typed and within their lengths; publishing
\* needs the filter to hold a pair.
LEMMA QueuesTyping ==
    TypeOK /\ FilterPhases /\ [Next]_vars => QueuesTypeOK'
  <1> SUFFICES ASSUME TypeOK /\ FilterPhases, [Next]_vars PROVE QueuesTypeOK'
    OBVIOUS
  <1> USE QueueAssumption DEF TypeOK, QueuesTypeOK, Markers, vars,
         overrideVars, parserVars, queueVars, filterVars, writerVars
  <1>1. ASSUME NEW s \in Sources, ParseStart(s) \/ ParseOverlong(s) \/
         ParseGga(s) \/ ParseOther(s) \/ ParseChunkEnds(s)
       PROVE  QueuesTypeOK'
    BY <1>1 DEF ParseStart, ParseOverlong, ParseGga, ParseOther,
           ParseChunkEnds
  <1>2. ASSUME NEW s \in Sources, ParseRmc(s)
       PROVE  QueuesTypeOK'
    <2>1. /\ pendingGga.hdop \in Hdops
          /\ pendingGga.from \cup sentenceFrom \cup {s} \in SUBSET Sources
          /\ inputEpoch \in Epochs
      BY <1>2, NoneAssumption DEF InputTypeOK, PendingGga, ParseRmc
    <2> DEFINE c == [hdop |-> pendingGga.hdop, epoch |-> inputEpoch,
                     from |-> pendingGga.from \cup sentenceFrom \cup {s}]
    <2>2. c \in Candidate
      BY <2>1 DEF Candidate
    <2>3. GnssCandidateSend(c) /\ UNCHANGED publicationQueue
      BY <1>2 DEF ParseRmc
    <2> HIDE DEF c
    <2> QED
      BY <2>2, <2>3 DEF GnssCandidateSend
  <1>3. CASE UartSetup
    BY <1>3 DEF UartSetup, ParserReset
  <1>4. CASE UartLock
    BY <1>4 DEF UartLock, GnssUartInputFeed
  <1>5. CASE UartRead
    BY <1>5 DEF UartRead, GnssUartInputFeed
  <1>6. CASE SelectionTimerCallback
    BY <1>6 DEF SelectionTimerCallback
  <1>7. CASE FilterSelect
    BY <1>7 DEF FilterSelect
  <1>8. CASE ConsiderCandidate
    BY <1>8 DEF ConsiderCandidate, BestAfter
  <1>9. CASE FilterReceiveTimer
    BY <1>9 DEF FilterReceiveTimer
  <1>10. CASE FilterReceiveControl
    BY <1>10 DEF FilterReceiveControl
  <1>11. CASE FilterReceiveCandidate
    <2>1. CASE candidateQueue = << >>
      BY <1>11, <2>1 DEF FilterReceiveCandidate
    <2>2. CASE candidateQueue # << >>
      BY <1>11, <2>2 DEF FilterReceiveCandidate
    <2> QED
      BY <2>1, <2>2
  <1>12. CASE FilterCompareEpoch
    BY <1>12 DEF FilterCompareEpoch
  <1>13. CASE PublishCheck
    BY <1>13 DEF PublishCheck
  <1>14. CASE FilterAcknowledge
    BY <1>14 DEF FilterAcknowledge
  <1>15. CASE GnssPublicationReceive
    BY <1>15 DEF GnssPublicationReceive
  <1>16. CASE PublishBestCandidate
    <2>1. [hdop |-> best.hdop, from |-> best.from] \in PendingGga
      BY <1>16, NoneAssumption DEF PublishBestCandidate, FilterPhases, FilterTypeOK, Candidate, PendingGga
    <2> QED
      BY <2>1, <1>16 DEF PublishBestCandidate
  <1>17. CASE OverrideBegin \/ OverrideFeed \/ WriteBodyEnds \/ OverrideClose
    BY <1>17 DEF OverrideBegin, OverrideFeed, WriteBodyEnds, OverrideClose
  <1>18. CASE OverrideDiscardStaleAck \/ OverrideAwaitFlush \/ OverrideFinish
    BY <1>18 DEF OverrideDiscardStaleAck, OverrideAwaitFlush, OverrideFinish,
           ParserReset
  <1>19. CASE OverrideSendFlush
    BY <1>19 DEF OverrideSendFlush, InputTypeOK
  <1>20. CASE UNCHANGED vars
    BY <1>20
  <1> QED BY <1>1, <1>2, <1>3, <1>4, <1>5, <1>6, <1>7, <1>8, <1>9, <1>10,
         <1>11, <1>12, <1>13, <1>14, <1>15, <1>16, <1>17, <1>18, <1>19, <1>20
          DEF Next, NmeaParserFeed, GnssFilterTask, OverrideEnd

\* Every step keeps the filter's local variables typed.
LEMMA FilterTyping ==
    TypeOK /\ FilterPhases /\ [Next]_vars => FilterTypeOK'
  <1> SUFFICES ASSUME TypeOK /\ FilterPhases, [Next]_vars PROVE FilterTypeOK'
    OBVIOUS
  <1> USE DEF TypeOK, QueuesTypeOK, FilterTypeOK, FilterPcs, Markers, vars,
         overrideVars, parserVars, queueVars, filterVars, writerVars
  <1>1. ASSUME NEW s \in Sources, ParseStart(s) \/ ParseOverlong(s) \/
         ParseGga(s) \/ ParseRmc(s) \/ ParseOther(s) \/ ParseChunkEnds(s)
       PROVE  FilterTypeOK'
    BY <1>1 DEF ParseStart, ParseOverlong, ParseGga, ParseRmc,
           GnssCandidateSend, ParserReset, ParseOther, ParseChunkEnds
  <1>2. CASE UartSetup \/ UartLock \/ UartRead \/ SelectionTimerCallback
    BY <1>2 DEF UartSetup, ParserReset, UartLock, GnssUartInputFeed, UartRead,
           SelectionTimerCallback
  <1>3. CASE FilterSelect \/ FilterReceiveCandidate \/ FilterReceiveTimer \/
         FilterReceiveControl
    BY <1>3 DEF FilterSelect, FilterReceiveCandidate, FilterReceiveTimer,
           FilterReceiveControl
  <1>4. CASE ConsiderCandidate
    <2>1. hand \in Candidate
      BY <1>4 DEF ConsiderCandidate, FilterPhases
    <2>2. BestAfter(hand) \in Candidate \cup {None}
      BY <2>1 DEF BestAfter
    <2> QED
      BY <1>4, <2>1, <2>2 DEF ConsiderCandidate
  <1>5. CASE FilterCompareEpoch \/ PublishCheck \/ PublishBestCandidate \/
         FilterAcknowledge \/ GnssPublicationReceive
    BY <1>5 DEF FilterCompareEpoch, PublishCheck, PublishBestCandidate,
           FilterAcknowledge, GnssPublicationReceive
  <1>6. CASE OverrideBegin \/ OverrideFeed \/ WriteBodyEnds \/ OverrideClose
    BY <1>6 DEF OverrideBegin, OverrideFeed, WriteBodyEnds, OverrideClose
  <1>7. CASE OverrideDiscardStaleAck \/ OverrideSendFlush \/
         OverrideAwaitFlush \/ OverrideFinish
    BY <1>7 DEF OverrideDiscardStaleAck, OverrideSendFlush,
           OverrideAwaitFlush, OverrideFinish, ParserReset
  <1>8. CASE UNCHANGED vars
    BY <1>8
  <1> QED BY <1>1, <1>2, <1>3, <1>4, <1>5, <1>6, <1>7, <1>8
          DEF Next, NmeaParserFeed, GnssFilterTask, OverrideEnd

\* The filter's local variables follow its position; a request it serves is of
\* the current epoch, so it is never acknowledged over a pair it kept.
LEMMA FilterPhasesStep ==
    IInv /\ [Next]_vars => FilterPhases'
  <1> SUFFICES ASSUME IInv, [Next]_vars PROVE FilterPhases'
    OBVIOUS
  <1> USE NoneAssumption DEF IInv, TypeOK, FilterTypeOK, FilterPcs, Markers,
         FilterPhases, vars, overrideVars, parserVars, queueVars, filterVars,
         writerVars
  <1>1. ASSUME NEW s \in Sources, ParseStart(s) \/ ParseOverlong(s) \/
         ParseGga(s) \/ ParseRmc(s) \/ ParseOther(s) \/ ParseChunkEnds(s)
       PROVE  FilterPhases'
    BY <1>1 DEF ParseStart, ParseOverlong, ParseGga, ParseRmc,
           GnssCandidateSend, ParserReset, ParseOther, ParseChunkEnds
  <1>2. CASE UartSetup \/ UartLock \/ UartRead \/ SelectionTimerCallback
    BY <1>2 DEF UartSetup, ParserReset, UartLock, GnssUartInputFeed, UartRead,
           SelectionTimerCallback
  <1>3. CASE ConsiderCandidate \/ FilterReceiveTimer \/ FilterReceiveControl
    BY <1>3 DEF ConsiderCandidate, BestAfter, FilterReceiveTimer,
           FilterReceiveControl
  <1>4. CASE FilterSelect
    BY <1>4 DEF FilterSelect, QueuesTypeOK
  <1>5. CASE FilterReceiveCandidate
    BY <1>5, NoneAssumption DEF FilterReceiveCandidate, QueuesTypeOK
  <1>6. CASE PublishCheck \/ PublishBestCandidate \/ FilterAcknowledge \/
         GnssPublicationReceive
    BY <1>6 DEF PublishCheck, PublishBestCandidate, FilterAcknowledge,
           GnssPublicationReceive
  <1>7. CASE FilterCompareEpoch
    <2>1. filterPc' = "check" /\ hand' = hand /\ best' = best /\ window' = window
      BY <1>7 DEF FilterCompareEpoch, FlushInOnePlace, Serving
    <2> QED
      BY <1>7, <2>1 DEF FilterCompareEpoch
  <1>8. CASE OverrideBegin
    BY <1>8 DEF OverrideBegin
  <1>9. CASE OverrideFeed
    BY <1>9 DEF OverrideFeed
  <1>10. CASE WriteBodyEnds
    BY <1>10 DEF WriteBodyEnds
  <1>11. CASE OverrideClose
    BY <1>11 DEF OverrideClose
  <1>12. CASE OverrideDiscardStaleAck \/ OverrideSendFlush \/
         OverrideAwaitFlush \/ OverrideFinish
    BY <1>12 DEF OverrideDiscardStaleAck, OverrideSendFlush,
           OverrideAwaitFlush, OverrideFinish, ParserReset
  <1>13. CASE UNCHANGED vars
    BY <1>13
  <1> QED BY <1>1, <1>2, <1>3, <1>4, <1>5, <1>6, <1>7, <1>8, <1>9, <1>10,
         <1>11, <1>12, <1>13
          DEF Next, NmeaParserFeed, GnssFilterTask, OverrideEnd

\* The override flags and the mutex follow the worker's position.
LEMMA OverridePhasesStep ==
    OverridePhases /\ [Next]_vars => OverridePhases'
  <1> SUFFICES ASSUME OverridePhases, [Next]_vars PROVE OverridePhases'
    OBVIOUS
  <1> USE DEF OverridePhases, vars, overrideVars, parserVars, queueVars,
         filterVars, writerVars
  <1>1. ASSUME NEW s \in Sources, ParseStart(s) \/ ParseOverlong(s) \/
         ParseGga(s) \/ ParseRmc(s) \/ ParseOther(s) \/ ParseChunkEnds(s)
       PROVE  OverridePhases'
    BY <1>1 DEF ParseStart, ParseOverlong, ParseGga, ParseRmc,
           GnssCandidateSend, ParserReset, ParseOther, ParseChunkEnds
  <1>2. CASE UartSetup \/ UartLock \/ UartRead \/ SelectionTimerCallback
    BY <1>2 DEF UartSetup, ParserReset, UartLock, GnssUartInputFeed, UartRead,
           SelectionTimerCallback
  <1>3. CASE FilterSelect \/ FilterReceiveCandidate \/ ConsiderCandidate \/
         FilterReceiveTimer \/ FilterReceiveControl
    BY <1>3 DEF FilterSelect, FilterReceiveCandidate, ConsiderCandidate,
           BestAfter, FilterReceiveTimer, FilterReceiveControl
  <1>4. CASE FilterCompareEpoch \/ PublishCheck \/ PublishBestCandidate \/
         FilterAcknowledge \/ GnssPublicationReceive
    BY <1>4 DEF FilterCompareEpoch, PublishCheck, PublishBestCandidate,
           FilterAcknowledge, GnssPublicationReceive
  <1>5. CASE OverrideBegin
    BY <1>5 DEF OverrideBegin
  <1>6. CASE OverrideFeed
    BY <1>6 DEF OverrideFeed
  <1>7. CASE WriteBodyEnds
    BY <1>7 DEF WriteBodyEnds
  <1>8. CASE OverrideClose
    BY <1>8 DEF OverrideClose
  <1>9. CASE OverrideDiscardStaleAck \/ OverrideSendFlush \/
         OverrideAwaitFlush \/ OverrideFinish
    BY <1>9 DEF OverrideDiscardStaleAck, OverrideSendFlush,
           OverrideAwaitFlush, OverrideFinish, ParserReset
  <1>10. CASE UNCHANGED vars
    BY <1>10
  <1> QED BY <1>1, <1>2, <1>3, <1>4, <1>5, <1>6, <1>7, <1>8, <1>9, <1>10
          DEF Next, NmeaParserFeed, GnssFilterTask, OverrideEnd

\* The parser only ever holds text of the selected source: feeding happens
\* under the mutex, and both switches reset the parser under it.
LEMMA ParserStep ==
    IInv /\ [Next]_vars => ParserHoldsSelectedSource'
  <1> SUFFICES ASSUME IInv, [Next]_vars PROVE ParserHoldsSelectedSource'
    OBVIOUS
  <1> USE NoneAssumption DEF IInv, TypeOK, InputTypeOK, OverridePhases,
         ParserHoldsSelectedSource, SelectedSource, Sources, vars,
         overrideVars, parserVars, queueVars, filterVars, writerVars
  <1>1. ASSUME NEW s \in Sources, ParseStart(s)
       PROVE  ParserHoldsSelectedSource'
    BY <1>1 DEF ParseStart
  <1>2. ASSUME NEW s \in Sources, ParseOverlong(s)
       PROVE  ParserHoldsSelectedSource'
    BY <1>2 DEF ParseOverlong
  <1>3. ASSUME NEW s \in Sources, ParseRmc(s)
       PROVE  ParserHoldsSelectedSource'
    BY <1>3 DEF ParseRmc, GnssCandidateSend, ParserReset
  <1>4. ASSUME NEW s \in Sources, ParseOther(s)
       PROVE  ParserHoldsSelectedSource'
    BY <1>4 DEF ParseOther
  <1>5. ASSUME NEW s \in Sources, ParseChunkEnds(s)
       PROVE  ParserHoldsSelectedSource'
    BY <1>5 DEF ParseChunkEnds
  <1>6. ASSUME NEW s \in Sources, ParseGga(s)
       PROVE  ParserHoldsSelectedSource'
    <2>1. s = SelectedSource
      BY <1>6 DEF ParseGga
    <2>2. PICK h \in Hdops :
             pendingGga' = [hdop |-> h, from |-> sentenceFrom \cup {s}]
      BY <1>6 DEF ParseGga
    <2> QED
      BY <1>6, <2>1, <2>2 DEF ParseGga
  <1>7. CASE UartSetup
    BY <1>7 DEF UartSetup, ParserReset
  <1>8. CASE UartLock
    BY <1>8 DEF UartLock, GnssUartInputFeed
  <1>9. CASE UartRead
    BY <1>9 DEF UartRead, GnssUartInputFeed
  <1>10. CASE SelectionTimerCallback
    BY <1>10 DEF SelectionTimerCallback
  <1>11. CASE FilterSelect
    BY <1>11 DEF FilterSelect
  <1>12. CASE FilterReceiveCandidate
    BY <1>12 DEF FilterReceiveCandidate
  <1>13. CASE ConsiderCandidate
    BY <1>13 DEF ConsiderCandidate, BestAfter
  <1>14. CASE FilterReceiveTimer
    BY <1>14 DEF FilterReceiveTimer
  <1>15. CASE FilterReceiveControl
    BY <1>15 DEF FilterReceiveControl
  <1>16. CASE FilterCompareEpoch
    BY <1>16 DEF FilterCompareEpoch
  <1>17. CASE PublishCheck
    BY <1>17 DEF PublishCheck
  <1>18. CASE PublishBestCandidate
    BY <1>18 DEF PublishBestCandidate
  <1>19. CASE FilterAcknowledge
    BY <1>19 DEF FilterAcknowledge
  <1>20. CASE GnssPublicationReceive
    BY <1>20 DEF GnssPublicationReceive
  <1>21. CASE OverrideBegin \/ OverrideFeed \/ WriteBodyEnds \/ OverrideClose
    BY <1>21 DEF OverrideBegin, OverrideFeed, WriteBodyEnds, OverrideClose
  <1>22. CASE OverrideDiscardStaleAck \/ OverrideSendFlush \/
         OverrideAwaitFlush \/ OverrideFinish
    BY <1>22 DEF OverrideDiscardStaleAck, OverrideSendFlush,
           OverrideAwaitFlush, OverrideFinish, ParserReset
  <1>23. CASE UNCHANGED vars
    BY <1>23
  <1> QED BY <1>1, <1>2, <1>3, <1>4, <1>5, <1>6, <1>7, <1>8, <1>9, <1>10,
         <1>11, <1>12, <1>13, <1>14, <1>15, <1>16, <1>17, <1>18, <1>19, <1>20,
         <1>21, <1>22, <1>23
          DEF Next, NmeaParserFeed, GnssFilterTask, OverrideEnd

\* Posting a marker goes with queueing an item, selecting a marker goes with
\* receiving the item: their numbers stay equal.
LEMMA MarkersStep ==
    IInv /\ [Next]_vars => MarkersMatchItems'
  <1> SUFFICES ASSUME IInv, [Next]_vars PROVE MarkersMatchItems'
    OBVIOUS
  <1> USE DEF MarkersMatchItems, Unanswered, vars, overrideVars, parserVars,
         queueVars, filterVars, writerVars
  <1>0. /\ MarkersMatchItems
        /\ \A m : Occurrences(filterSet, m) \in Nat
        /\ filterSet \in Seq(Markers)
        /\ candidateQueue \in Seq(Candidate)
        /\ controlQueue \in Seq(Epochs) /\ Len(controlQueue) <= 1
        /\ timerQueue \in 0 .. 1
        /\ filterPc \in FilterPcs
    BY OccurrencesType DEF IInv, TypeOK, QueuesTypeOK, FilterTypeOK
  <1>1. ASSUME NEW s \in Sources, ParseStart(s) \/ ParseOverlong(s) \/
         ParseGga(s) \/ ParseOther(s) \/ ParseChunkEnds(s)
       PROVE  MarkersMatchItems'
    BY <1>0, <1>1 DEF ParseStart, ParseOverlong, ParseGga, ParseOther,
           ParseChunkEnds
  <1>2. ASSUME NEW s \in Sources, ParseRmc(s)
       PROVE  MarkersMatchItems'
    <2>1. PICK c : GnssCandidateSend(c) /\ UNCHANGED filterPc
      BY <1>2 DEF ParseRmc
    <2>2. CASE Len(candidateQueue) < CandidateQueueLength
      <3>1. /\ filterSet' = Append(filterSet, "candidate")
            /\ candidateQueue' = Append(candidateQueue, c)
        BY <2>1, <2>2 DEF GnssCandidateSend
      <3>2. \A m : Occurrences(filterSet', m)
                     = Occurrences(filterSet, m) + (IF "candidate" = m THEN 1 ELSE 0)
        <4>1. "candidate" \in Markers
          BY DEF Markers
        <4> QED
          BY <1>0, <3>1, <4>1, OccurrencesAppend
      <3>3. Len(candidateQueue') = Len(candidateQueue) + 1
        BY <1>0, <3>1
      <3>4. UNCHANGED <<timerQueue, controlQueue, filterPc>>
        BY <2>1 DEF GnssCandidateSend
      <3> QED
        BY <1>0, <3>2, <3>3, <3>4
    <2>3. CASE ~(Len(candidateQueue) < CandidateQueueLength)
      BY <1>0, <2>1, <2>3 DEF GnssCandidateSend
    <2> QED
      BY <2>2, <2>3
  <1>3. CASE UartSetup \/ UartLock \/ UartRead
    BY <1>0, <1>3 DEF UartSetup, ParserReset, UartLock, GnssUartInputFeed,
           UartRead
  <1>4. CASE SelectionTimerCallback
    <2>1. CASE timerQueue = 0
      <3>1. filterSet' = Append(filterSet, "timer")
        BY <1>4, <2>1 DEF SelectionTimerCallback
      <3>2. \A m : Occurrences(filterSet', m)
                     = Occurrences(filterSet, m) + (IF "timer" = m THEN 1 ELSE 0)
        <4>1. "timer" \in Markers
          BY DEF Markers
        <4> QED
          BY <1>0, <3>1, <4>1, OccurrencesAppend
      <3> QED
        <4>1. timerQueue' = 1 /\ UNCHANGED <<candidateQueue, controlQueue, filterPc>>
          BY <1>4 DEF SelectionTimerCallback
        <4> QED
          BY <1>0, <2>1, <3>2, <4>1
    <2>2. CASE timerQueue # 0
      BY <1>4, <1>0, <2>2 DEF SelectionTimerCallback
    <2> QED
      BY <2>1, <2>2
  <1>5. CASE ConsiderCandidate
    BY <1>0, <1>5 DEF ConsiderCandidate, BestAfter
  <1>6. CASE FilterSelect
    <2>1. \A m : Occurrences(filterSet, m)
                  = Occurrences(filterSet', m) + (IF Head(filterSet) = m THEN 1 ELSE 0)
      BY <1>6, <1>0, OccurrencesTail DEF FilterSelect
    <2>2. \A m : Occurrences(filterSet', m) \in Nat
      <3>1. filterSet' \in Seq(Markers)
        BY <1>6, <1>0 DEF FilterSelect
      <3> QED
        BY <3>1, OccurrencesType
    <2>3. filterPc' = Head(filterSet) /\ filterPc \notin Markers
      BY <1>6 DEF FilterSelect, Markers
    <2> QED
      BY <1>6, <1>0, <2>1, <2>2, <2>3 DEF FilterSelect, Markers
  <1>7. CASE FilterReceiveCandidate
    <2>1. candidateQueue # << >>
      BY <1>7, <1>0 DEF FilterReceiveCandidate
    <2> QED
      BY <1>7, <1>0, <2>1 DEF FilterReceiveCandidate
  <1>8. CASE FilterReceiveTimer
    BY <1>8, <1>0 DEF FilterReceiveTimer
  <1>9. CASE FilterReceiveControl
    <2>1. controlQueue # << >>
      BY <1>9, <1>0 DEF FilterReceiveControl
    <2> QED
      BY <1>9, <1>0, <2>1 DEF FilterReceiveControl
  <1>10. CASE FilterCompareEpoch \/ PublishCheck \/ PublishBestCandidate \/
         FilterAcknowledge \/ GnssPublicationReceive
    BY <1>0, <1>10 DEF FilterCompareEpoch, PublishCheck, PublishBestCandidate,
           FilterAcknowledge, GnssPublicationReceive
  <1>11. CASE OverrideBegin \/ OverrideFeed \/ WriteBodyEnds \/ OverrideClose
    BY <1>0, <1>11 DEF OverrideBegin, OverrideFeed, WriteBodyEnds,
           OverrideClose
  <1>12. CASE OverrideDiscardStaleAck \/ OverrideAwaitFlush \/ OverrideFinish
    BY <1>0, <1>12 DEF OverrideDiscardStaleAck, OverrideAwaitFlush,
           OverrideFinish, ParserReset
  <1>13. CASE OverrideSendFlush
    <2>1. \A m : Occurrences(filterSet', m)
                  = Occurrences(filterSet, m) + (IF "control" = m THEN 1 ELSE 0)
      <3>1. "control" \in Markers
        BY DEF Markers
      <3>2. filterSet' = Append(filterSet, "control")
        BY <1>13 DEF OverrideSendFlush
      <3> QED
        BY <1>0, <3>1, <3>2, OccurrencesAppend
    <2> QED
      BY <1>13, <1>0, <2>1 DEF OverrideSendFlush
  <1>14. CASE UNCHANGED vars
    BY <1>0, <1>14
  <1> QED BY <1>1, <1>2, <1>3, <1>4, <1>5, <1>6, <1>7, <1>8, <1>9, <1>10,
         <1>11, <1>12, <1>13, <1>14
          DEF Next, NmeaParserFeed, GnssFilterTask, OverrideEnd

\* A selected or queued flush marker stands for a request in the queue.
LEMMA FlushMarkerMeansRequest ==
    ASSUME IInv,
           filterPc = "control" \/ \E i \in DOMAIN filterSet : filterSet[i] = "control"
    PROVE  controlQueue # << >> /\ writerPc = "await" /\ ~Serving /\ ~flushDone
  <1>1. /\ filterSet \in Seq(Markers)
        /\ controlQueue \in Seq(Epochs)
        /\ Unanswered("control") = Len(controlQueue)
    BY DEF IInv, TypeOK, QueuesTypeOK, MarkersMatchItems
  <1>2. Occurrences(filterSet, "control") \in Nat
    BY <1>1, OccurrencesType
  <1>3. Unanswered("control") # 0
    <2>1. CASE filterPc = "control"
      BY <1>2, <2>1 DEF Unanswered
    <2>2. CASE \E i \in DOMAIN filterSet : filterSet[i] = "control"
      <3>1. Occurrences(filterSet, "control") # 0
        BY <1>1, <2>2, OccurrencesZero
      <3> QED
        BY <1>2, <3>1 DEF Unanswered
    <2> QED
      BY <2>1, <2>2
  <1>4. controlQueue # << >>
    BY <1>1, <1>3
  <1> QED
    BY <1>4 DEF IInv, FlushInOnePlace

\* While bytes are fed, they are the selected source's, and no flush is
\* requested, being served or acknowledged.
LEMMA FeedingMeansNoFlush ==
    ASSUME IInv, NEW s \in Sources, parserMutex = s
    PROVE  /\ s = SelectedSource
           /\ writerPc \in {"idle", "receive"}
           /\ filterPc # "control" /\ ~Serving /\ ~flushDone
           /\ \A i \in DOMAIN filterSet : filterSet[i] # "control"
  <1>1. s = SelectedSource /\ writerPc \in {"idle", "receive"}
    BY DEF IInv, OverridePhases, SelectedSource, Sources
  <1>2. ~Serving /\ ~flushDone
    BY <1>1 DEF IInv, FlushInOnePlace
  <1> QED
    BY <1>1, <1>2, FlushMarkerMeansRequest

\* The pair an RMC line completes is of the selected source and current epoch.
LEMMA CompletedPair ==
    ASSUME IInv, NEW s \in Sources, ParseRmc(s)
    PROVE  \E c \in Candidate :
              /\ c.epoch = inputEpoch
              /\ c.from = {SelectedSource}
              /\ GnssCandidateSend(c)
  <1> DEFINE c == [hdop |-> pendingGga.hdop, epoch |-> inputEpoch,
                   from |-> pendingGga.from \cup sentenceFrom \cup {s}]
  <1>1. GnssCandidateSend(c)
    BY DEF ParseRmc
  <1>2. s = SelectedSource
    BY FeedingMeansNoFlush DEF ParseRmc
  <1>3. /\ pendingGga.hdop \in Hdops
        /\ pendingGga.from = {s}
        /\ sentenceFrom \subseteq {s}
        /\ inputEpoch \in Epochs
    BY <1>2, NoneAssumption
    DEF IInv, TypeOK, InputTypeOK, PendingGga, ParserHoldsSelectedSource, ParseRmc
  <1>4. c \in Candidate /\ c.epoch = inputEpoch /\ c.from = {SelectedSource}
    BY <1>2, <1>3 DEF Candidate, Sources
  <1> QED
    BY <1>1, <1>4

\* The flush request moves from the worker to the queue, the filter and the
\* semaphore, and is never in two of these places.
LEMMA FlushInOnePlaceStep ==
    IInv /\ [Next]_vars => FlushInOnePlace'
  <1> SUFFICES ASSUME IInv, [Next]_vars PROVE FlushInOnePlace'
    OBVIOUS
  <1> USE DEF IInv, TypeOK, FlagsTypeOK, QueuesTypeOK, OverridePhases,
         FilterPhases, FlushInOnePlace, Serving, vars, overrideVars,
         parserVars, queueVars, filterVars, writerVars
  <1>1. ASSUME NEW s \in Sources, ParseStart(s) \/ ParseOverlong(s) \/
         ParseGga(s) \/ ParseRmc(s) \/ ParseOther(s) \/ ParseChunkEnds(s)
       PROVE  FlushInOnePlace'
    BY <1>1 DEF ParseStart, ParseOverlong, ParseGga, ParseRmc,
           GnssCandidateSend, ParserReset, ParseOther, ParseChunkEnds
  <1>2. CASE UartSetup \/ UartLock \/ UartRead \/ SelectionTimerCallback
    BY <1>2 DEF UartSetup, ParserReset, UartLock, GnssUartInputFeed, UartRead,
           SelectionTimerCallback
  <1>3. CASE FilterReceiveCandidate \/ ConsiderCandidate \/ FilterReceiveTimer
         \/ FilterReceiveControl
    BY <1>3 DEF FilterReceiveCandidate, ConsiderCandidate, BestAfter,
           FilterReceiveTimer, FilterReceiveControl
  <1>4. CASE FilterSelect
    <2>1. filterPc' \in Markers /\ ~flushing
      BY <1>4 DEF FilterSelect
    <2> QED
      BY <1>4, <2>1 DEF FilterSelect, Markers
  <1>5. CASE FilterCompareEpoch \/ PublishCheck \/ PublishBestCandidate \/
         FilterAcknowledge \/ GnssPublicationReceive
    BY <1>5 DEF FilterCompareEpoch, PublishCheck, PublishBestCandidate,
           FilterAcknowledge, GnssPublicationReceive
  <1>6. CASE OverrideBegin
    BY <1>6 DEF OverrideBegin
  <1>7. CASE OverrideFeed
    BY <1>7 DEF OverrideFeed
  <1>8. CASE WriteBodyEnds
    BY <1>8 DEF WriteBodyEnds
  <1>9. CASE OverrideClose
    BY <1>9 DEF OverrideClose
  <1>10. CASE OverrideDiscardStaleAck \/ OverrideSendFlush \/
         OverrideAwaitFlush \/ OverrideFinish
    BY <1>10 DEF OverrideDiscardStaleAck, OverrideSendFlush,
           OverrideAwaitFlush, OverrideFinish, ParserReset
  <1>11. CASE UNCHANGED vars
    BY <1>11
  <1> QED BY <1>1, <1>2, <1>3, <1>4, <1>5, <1>6, <1>7, <1>8, <1>9, <1>10,
         <1>11
          DEF Next, NmeaParserFeed, GnssFilterTask, OverrideEnd

\* Selecting the flush marker means every candidate before it was received,
\* and nothing is queued behind it.
LEMMA FlushedQueueStep ==
    IInv /\ [Next]_vars => FlushedQueueIsEmpty'
  <1> SUFFICES ASSUME IInv, [Next]_vars PROVE FlushedQueueIsEmpty'
    OBVIOUS
  <1> USE DEF IInv, OverridePhases, FilterPhases, FlushInOnePlace, Serving,
         FlushedQueueIsEmpty, vars, overrideVars, parserVars, queueVars,
         filterVars, writerVars
  <1>1. ASSUME NEW s \in Sources, ParseStart(s) \/ ParseOverlong(s) \/
         ParseGga(s) \/ ParseOther(s) \/ ParseChunkEnds(s)
       PROVE  FlushedQueueIsEmpty'
    BY <1>1 DEF ParseStart, ParseOverlong, ParseGga, ParseOther,
           ParseChunkEnds
  <1>2. ASSUME NEW s \in Sources, ParseRmc(s)
       PROVE  FlushedQueueIsEmpty'
    BY <1>2, FeedingMeansNoFlush DEF ParseRmc
  <1>3. CASE UartSetup \/ UartLock \/ UartRead \/ SelectionTimerCallback
    BY <1>3 DEF UartSetup, ParserReset, UartLock, GnssUartInputFeed, UartRead,
           SelectionTimerCallback
  <1>4. CASE FilterReceiveCandidate \/ ConsiderCandidate \/ FilterReceiveTimer
         \/ FilterReceiveControl
    BY <1>4 DEF FilterReceiveCandidate, ConsiderCandidate, BestAfter,
           FilterReceiveTimer, FilterReceiveControl
  <1>5. CASE FilterSelect
    <2>1. /\ filterPc' \in Markers /\ ~flushing /\ UNCHANGED <<flushing, candidateQueue>>
      BY <1>5 DEF FilterSelect, TypeOK, QueuesTypeOK
    <2> SUFFICES ASSUME filterPc' = "control" PROVE candidateQueue = << >>
      BY <2>1 DEF Markers
    <2>2. /\ filterSet \in Seq(Markers) /\ filterSet # << >>
          /\ filterSet[1] = "control" /\ 1 \in DOMAIN filterSet
          /\ candidateQueue \in Seq(Candidate)
          /\ filterPc = "select"
      BY <1>5 DEF FilterSelect, TypeOK, QueuesTypeOK
    <2>3. \A j \in DOMAIN filterSet : filterSet[j] # "candidate"
      BY <2>2 DEF NoCandidateBehindFlush
    <2>4. Occurrences(filterSet, "candidate") = 0
      BY <2>2, <2>3, OccurrencesZero
    <2> QED
      BY <2>2, <2>4 DEF MarkersMatchItems, Unanswered
  <1>6. CASE FilterCompareEpoch \/ PublishCheck \/ PublishBestCandidate \/
         FilterAcknowledge \/ GnssPublicationReceive
    BY <1>6 DEF FilterCompareEpoch, PublishCheck, PublishBestCandidate,
           FilterAcknowledge, GnssPublicationReceive
  <1>7. CASE OverrideBegin \/ OverrideFeed \/ WriteBodyEnds \/ OverrideClose
    BY <1>7 DEF OverrideBegin, OverrideFeed, WriteBodyEnds, OverrideClose
  <1>8. CASE OverrideDiscardStaleAck \/ OverrideSendFlush \/
         OverrideAwaitFlush \/ OverrideFinish
    BY <1>8 DEF OverrideDiscardStaleAck, OverrideSendFlush,
           OverrideAwaitFlush, OverrideFinish, ParserReset
  <1>9. CASE UNCHANGED vars
    BY <1>9
  <1> QED BY <1>1, <1>2, <1>3, <1>4, <1>5, <1>6, <1>7, <1>8, <1>9
          DEF Next, NmeaParserFeed, GnssFilterTask, OverrideEnd

\* Nothing is fed while a flush marker waits, so no candidate marker follows it.
LEMMA NoCandidateBehindFlushStep ==
    IInv /\ [Next]_vars => NoCandidateBehindFlush'
  <1> SUFFICES ASSUME IInv, [Next]_vars PROVE NoCandidateBehindFlush'
    OBVIOUS
  <1> USE DEF IInv, TypeOK, QueuesTypeOK, NoCandidateBehindFlush, vars,
         overrideVars, parserVars, queueVars, filterVars, writerVars
  <1>1. ASSUME NEW s \in Sources, ParseStart(s) \/ ParseOverlong(s) \/
         ParseGga(s) \/ ParseOther(s) \/ ParseChunkEnds(s)
       PROVE  NoCandidateBehindFlush'
    BY <1>1 DEF ParseStart, ParseOverlong, ParseGga, ParseOther,
           ParseChunkEnds
  <1>2. ASSUME NEW s \in Sources, ParseRmc(s)
       PROVE  NoCandidateBehindFlush'
    <2>1. \A i \in DOMAIN filterSet : filterSet[i] # "control"
      BY <1>2, FeedingMeansNoFlush DEF ParseRmc
    <2>2. CASE filterSet' = filterSet
      BY <2>2
    <2>3. CASE filterSet' = Append(filterSet, "candidate")
      <3>1. \A i \in DOMAIN filterSet' : filterSet'[i] # "control"
        BY <2>1, <2>3
      <3> QED
        BY <3>1
    <2> QED
      BY <1>2, <2>2, <2>3 DEF ParseRmc, GnssCandidateSend
  <1>3. CASE UartSetup
    BY <1>3 DEF UartSetup, ParserReset
  <1>4. CASE UartLock
    BY <1>4 DEF UartLock, GnssUartInputFeed
  <1>5. CASE UartRead
    BY <1>5 DEF UartRead, GnssUartInputFeed
  <1>6. CASE SelectionTimerCallback
    BY <1>6 DEF SelectionTimerCallback
  <1>7. CASE FilterSelect
    BY <1>7 DEF FilterSelect
  <1>8. CASE FilterReceiveCandidate
    BY <1>8 DEF FilterReceiveCandidate
  <1>9. CASE ConsiderCandidate
    BY <1>9 DEF ConsiderCandidate, BestAfter
  <1>10. CASE FilterReceiveTimer
    BY <1>10 DEF FilterReceiveTimer
  <1>11. CASE FilterReceiveControl
    BY <1>11 DEF FilterReceiveControl
  <1>12. CASE FilterCompareEpoch \/ PublishCheck \/ PublishBestCandidate \/
         FilterAcknowledge \/ GnssPublicationReceive
    BY <1>12 DEF FilterCompareEpoch, PublishCheck, PublishBestCandidate,
           FilterAcknowledge, GnssPublicationReceive
  <1>13. CASE OverrideBegin \/ OverrideFeed \/ WriteBodyEnds \/ OverrideClose
    BY <1>13 DEF OverrideBegin, OverrideFeed, WriteBodyEnds, OverrideClose
  <1>14. CASE OverrideDiscardStaleAck
    BY <1>14 DEF OverrideDiscardStaleAck
  <1>15. CASE OverrideSendFlush
    BY <1>15 DEF OverrideSendFlush
  <1>16. CASE OverrideAwaitFlush
    BY <1>16 DEF OverrideAwaitFlush
  <1>17. CASE OverrideFinish
    BY <1>17 DEF OverrideFinish, ParserReset
  <1>18. CASE UNCHANGED vars
    BY <1>18
  <1> QED BY <1>1, <1>2, <1>3, <1>4, <1>5, <1>6, <1>7, <1>8, <1>9, <1>10,
         <1>11, <1>12, <1>13, <1>14, <1>15, <1>16, <1>17, <1>18
          DEF Next, NmeaParserFeed, GnssFilterTask, OverrideEnd

\* Both switches advance the epoch: at the first one the live pairs become
\* pairs of the previous epoch, at the second one no pair is alive.
LEMMA EpochStep ==
    IInv /\ [Next]_vars => EpochIdentifiesSource'
  <1> SUFFICES ASSUME IInv, [Next]_vars PROVE EpochIdentifiesSource'
    OBVIOUS
  <1> USE NoneAssumption DEF IInv, EpochIdentifiesSource, LiveCandidates,
         OverridePhases, SelectedSource, vars, overrideVars, parserVars,
         queueVars, filterVars, writerVars
  <1>1. ASSUME NEW s \in Sources, ParseStart(s) \/ ParseOverlong(s) \/
         ParseGga(s) \/ ParseOther(s) \/ ParseChunkEnds(s)
       PROVE  EpochIdentifiesSource'
    BY <1>1 DEF ParseStart, ParseOverlong, ParseGga, ParseOther,
           ParseChunkEnds
  <1>2. ASSUME NEW s \in Sources, ParseRmc(s)
       PROVE  EpochIdentifiesSource'
    <2>1. PICK c \in Candidate : /\ c.epoch = inputEpoch
                                /\ c.from = {SelectedSource}
                                /\ GnssCandidateSend(c)
      BY <1>2, CompletedPair
    <2>2. UNCHANGED <<hand, best, overrideActive, inputEpoch>>
      BY <1>2 DEF ParseRmc
    <2>3. LiveCandidates' \subseteq LiveCandidates \cup {c}
      BY <2>1, <2>2 DEF GnssCandidateSend, TypeOK, QueuesTypeOK
    <2> QED
      BY <2>1, <2>2, <2>3
  <1>3. CASE UartSetup \/ UartLock \/ UartRead \/ SelectionTimerCallback
    BY <1>3 DEF UartSetup, ParserReset, UartLock, GnssUartInputFeed, UartRead,
           SelectionTimerCallback
  <1>4. CASE FilterSelect \/ FilterReceiveCandidate \/ ConsiderCandidate \/
         FilterReceiveTimer \/ FilterReceiveControl
    BY <1>4 DEF FilterSelect, FilterReceiveCandidate, ConsiderCandidate,
           BestAfter, FilterReceiveTimer, FilterReceiveControl
  <1>5. CASE FilterCompareEpoch \/ PublishCheck \/ PublishBestCandidate \/
         FilterAcknowledge \/ GnssPublicationReceive
    BY <1>5 DEF FilterCompareEpoch, PublishCheck, PublishBestCandidate,
           FilterAcknowledge, GnssPublicationReceive
  <1>6. CASE OverrideFeed \/ WriteBodyEnds \/ OverrideClose
    BY <1>6 DEF OverrideFeed, WriteBodyEnds, OverrideClose
  <1>7. CASE OverrideBegin
    <2>1. ~overrideActive /\ overrideActive' /\ inputEpoch' = EpochAfter(inputEpoch)
      BY <1>7 DEF OverrideBegin
    <2>2. inputEpoch' # inputEpoch
      BY <2>1, EpochAfterProperties DEF TypeOK, InputTypeOK
    <2>3. LiveCandidates' = LiveCandidates
      BY <1>7 DEF OverrideBegin
    <2> QED
      BY <2>1, <2>2, <2>3
  <1>8. CASE OverrideDiscardStaleAck \/ OverrideSendFlush \/
         OverrideAwaitFlush
    BY <1>8 DEF OverrideDiscardStaleAck, OverrideSendFlush, OverrideAwaitFlush
  <1>9. CASE OverrideFinish
    <2>1. LiveCandidates' = LiveCandidates
      BY <1>9 DEF OverrideFinish
    <2>2. LiveCandidates = {}
      BY <1>9 DEF OverrideFinish, FlushLeavesNothing
    <2> QED
      BY <2>1, <2>2
  <1>10. CASE UNCHANGED vars
    BY <1>10
  <1> QED BY <1>1, <1>2, <1>3, <1>4, <1>5, <1>6, <1>7, <1>8, <1>9, <1>10
          DEF Next, NmeaParserFeed, GnssFilterTask, OverrideEnd

\* The filter acknowledges with an empty queue, an empty hand and no best pair,
\* and nothing is queued until the worker has finished.
LEMMA FlushLeavesNothingStep ==
    IInv /\ [Next]_vars => FlushLeavesNothing'
  <1> SUFFICES ASSUME IInv, [Next]_vars PROVE FlushLeavesNothing'
    OBVIOUS
  <1> USE DEF IInv, TypeOK, FlagsTypeOK, LiveCandidates, FlushLeavesNothing,
         FilterPhases, vars, overrideVars, parserVars, queueVars, filterVars,
         writerVars
  <1>1. ASSUME NEW s \in Sources, ParseStart(s) \/ ParseOverlong(s) \/
         ParseGga(s) \/ ParseOther(s) \/ ParseChunkEnds(s)
       PROVE  FlushLeavesNothing'
    BY <1>1 DEF ParseStart, ParseOverlong, ParseGga, ParseOther,
           ParseChunkEnds
  <1>2. ASSUME NEW s \in Sources, ParseRmc(s)
       PROVE  FlushLeavesNothing'
    BY <1>2, FeedingMeansNoFlush DEF ParseRmc
  <1>3. CASE UartSetup \/ UartLock \/ UartRead \/ SelectionTimerCallback
    BY <1>3 DEF UartSetup, ParserReset, UartLock, GnssUartInputFeed, UartRead,
           SelectionTimerCallback
  <1>4. CASE FilterSelect \/ ConsiderCandidate \/ FilterReceiveTimer \/
         FilterReceiveControl
    BY <1>4 DEF FilterSelect, ConsiderCandidate, BestAfter,
           FilterReceiveTimer, FilterReceiveControl
  <1>5. CASE FilterReceiveCandidate
    <2>1. CASE candidateQueue = << >>
      BY <1>5, <2>1 DEF FilterReceiveCandidate
    <2>2. CASE candidateQueue # << >>
      <3>1. LiveCandidates # {}
        <4>1. candidateQueue[1] \in Candidate /\ 1 \in DOMAIN candidateQueue
          BY <2>2 DEF QueuesTypeOK
        <4> QED
          BY <4>1, NoneAssumption
      <3> QED
        BY <1>5, <3>1 DEF FilterReceiveCandidate
    <2> QED
      BY <2>1, <2>2
  <1>6. CASE FilterCompareEpoch \/ PublishCheck \/ PublishBestCandidate \/
         GnssPublicationReceive
    BY <1>6 DEF FilterCompareEpoch, PublishCheck, PublishBestCandidate,
           GnssPublicationReceive
  <1>7. CASE FilterAcknowledge
    BY <1>7 DEF FilterAcknowledge, FlushedQueueIsEmpty, Serving
  <1>8. CASE OverrideFeed \/ WriteBodyEnds \/ OverrideClose
    BY <1>8 DEF OverrideFeed, WriteBodyEnds, OverrideClose
  <1>9. CASE OverrideBegin
    BY <1>9 DEF OverrideBegin, FlushInOnePlace
  <1>10. CASE OverrideDiscardStaleAck \/ OverrideSendFlush \/
         OverrideAwaitFlush \/ OverrideFinish
    BY <1>10 DEF OverrideDiscardStaleAck, OverrideSendFlush,
           OverrideAwaitFlush, OverrideFinish, ParserReset
  <1>11. CASE UNCHANGED vars
    BY <1>11
  <1> QED BY <1>1, <1>2, <1>3, <1>4, <1>5, <1>6, <1>7, <1>8, <1>9, <1>10,
         <1>11
          DEF Next, NmeaParserFeed, GnssFilterTask, OverrideEnd

\* The pairs of the quality window are of the current epoch or, during an
\* upload, of the one before.
LEMMA WindowEpochsStep ==
    IInv /\ [Next]_vars => WindowEpochs'
  <1> SUFFICES ASSUME IInv, [Next]_vars PROVE WindowEpochs'
    OBVIOUS
  <1> USE DEF IInv, WindowEpochs, OverridePhases, FilterPhases, vars,
         overrideVars, parserVars, queueVars, filterVars, writerVars
  <1>1. ASSUME NEW s \in Sources, ParseStart(s) \/ ParseOverlong(s) \/
         ParseGga(s) \/ ParseRmc(s) \/ ParseOther(s) \/ ParseChunkEnds(s)
       PROVE  WindowEpochs'
    BY <1>1 DEF ParseStart, ParseOverlong, ParseGga, ParseRmc,
           GnssCandidateSend, ParserReset, ParseOther, ParseChunkEnds
  <1>2. CASE UartSetup \/ UartLock \/ UartRead \/ SelectionTimerCallback
    BY <1>2 DEF UartSetup, ParserReset, UartLock, GnssUartInputFeed, UartRead,
           SelectionTimerCallback
  <1>3. CASE FilterSelect \/ FilterReceiveCandidate \/ FilterReceiveTimer \/
         FilterReceiveControl
    BY <1>3 DEF FilterSelect, FilterReceiveCandidate, FilterReceiveTimer,
           FilterReceiveControl
  <1>4. CASE ConsiderCandidate
    BY <1>4 DEF ConsiderCandidate
  <1>5. CASE FilterCompareEpoch \/ PublishCheck \/ PublishBestCandidate \/
         FilterAcknowledge \/ GnssPublicationReceive
    BY <1>5 DEF FilterCompareEpoch, PublishCheck, PublishBestCandidate,
           FilterAcknowledge, GnssPublicationReceive
  <1>6. CASE OverrideFeed \/ WriteBodyEnds \/ OverrideClose
    BY <1>6 DEF OverrideFeed, WriteBodyEnds, OverrideClose
  <1>7. CASE OverrideBegin
    <2>1. ~overrideActive /\ overrideActive' /\ inputEpoch' = EpochAfter(inputEpoch)
      BY <1>7 DEF OverrideBegin
    <2> QED
      BY <1>7, <2>1 DEF OverrideBegin
  <1>8. CASE OverrideDiscardStaleAck \/ OverrideSendFlush \/
         OverrideAwaitFlush
    BY <1>8 DEF OverrideDiscardStaleAck, OverrideSendFlush, OverrideAwaitFlush
  <1>9. CASE OverrideFinish
    <2>1. LiveCandidates = {}
      BY <1>9 DEF OverrideFinish, FlushLeavesNothing
    <2>2. best = None
      BY <2>1 DEF LiveCandidates
    <2> QED
      BY <1>9, <2>2 DEF OverrideFinish
  <1>10. CASE UNCHANGED vars
    BY <1>10
  <1> QED BY <1>1, <1>2, <1>3, <1>4, <1>5, <1>6, <1>7, <1>8, <1>9, <1>10
          DEF Next, NmeaParserFeed, GnssFilterTask, OverrideEnd

\* The best pair stays the lowest of its window and epoch.
LEMMA BestIsLowestStep ==
    IInv /\ [Next]_vars => BestIsLowest'
  <1> SUFFICES ASSUME IInv, [Next]_vars PROVE BestIsLowest'
    OBVIOUS
  <1> USE DEF IInv, BestIsLowest, FilterPhases, vars, overrideVars,
         parserVars, queueVars, filterVars, writerVars
  <1>1. ASSUME NEW s \in Sources, ParseStart(s) \/ ParseOverlong(s) \/
         ParseGga(s) \/ ParseRmc(s) \/ ParseOther(s) \/ ParseChunkEnds(s)
       PROVE  BestIsLowest'
    BY <1>1 DEF ParseStart, ParseOverlong, ParseGga, ParseRmc,
           GnssCandidateSend, ParserReset, ParseOther, ParseChunkEnds
  <1>2. CASE UartSetup \/ UartLock \/ UartRead \/ SelectionTimerCallback
    BY <1>2 DEF UartSetup, ParserReset, UartLock, GnssUartInputFeed, UartRead,
           SelectionTimerCallback
  <1>3. CASE FilterSelect \/ FilterReceiveCandidate \/ FilterReceiveTimer \/
         FilterReceiveControl
    BY <1>3 DEF FilterSelect, FilterReceiveCandidate, FilterReceiveTimer,
           FilterReceiveControl
  <1>4. CASE ConsiderCandidate
    <2>1. hand \in Candidate /\ hand # None /\ hand.hdop \in Nat
      BY <1>4, NoneAssumption, HdopAssumption
      DEF ConsiderCandidate, TypeOK, FilterTypeOK, Candidate
    <2>2. best = None \/ best.hdop \in Nat
      BY HdopAssumption DEF TypeOK, FilterTypeOK, Candidate
    <2>3. \A c \in window : c.hdop \in Nat
      BY HdopAssumption DEF TypeOK, FilterTypeOK, Candidate
    <2> QED
      BY <1>4, <2>1, <2>2, <2>3 DEF ConsiderCandidate, BestAfter
  <1>5. CASE FilterCompareEpoch \/ PublishBestCandidate \/ FilterAcknowledge
         \/ GnssPublicationReceive
    BY <1>5 DEF FilterCompareEpoch, PublishBestCandidate, FilterAcknowledge,
           GnssPublicationReceive
  <1>6. CASE PublishCheck
    BY <1>6 DEF PublishCheck
  <1>7. CASE OverrideFeed \/ WriteBodyEnds \/ OverrideClose
    BY <1>7 DEF OverrideFeed, WriteBodyEnds, OverrideClose
  <1>8. CASE OverrideBegin
    <2>1. ~overrideActive /\ inputEpoch' = EpochAfter(inputEpoch)
      BY <1>8 DEF OverrideBegin, OverridePhases
    <2>2. inputEpoch' # inputEpoch
      BY <2>1, EpochAfterProperties DEF TypeOK, InputTypeOK
    <2>3. \A c \in window : c.epoch = inputEpoch
      BY <2>1 DEF WindowEpochs
    <2> QED
      BY <1>8, <2>2, <2>3 DEF OverrideBegin
  <1>9. CASE OverrideDiscardStaleAck \/ OverrideSendFlush \/
         OverrideAwaitFlush
    BY <1>9 DEF OverrideDiscardStaleAck, OverrideSendFlush, OverrideAwaitFlush
  <1>10. CASE OverrideFinish
    <2>1. LiveCandidates = {}
      BY <1>10 DEF OverrideFinish, FlushLeavesNothing
    <2>2. best = None
      BY <2>1 DEF LiveCandidates
    <2> QED
      BY <1>10, <2>2 DEF OverrideFinish
  <1>11. CASE UNCHANGED vars
    BY <1>11
  <1> QED BY <1>1, <1>2, <1>3, <1>4, <1>5, <1>6, <1>7, <1>8, <1>9, <1>10,
         <1>11
          DEF Next, NmeaParserFeed, GnssFilterTask, OverrideEnd

-----------------------------------------------------------------------------
(* The theorems.                                                           *)

\* The inductive invariant holds initially.
LEMMA InitIInv == Init => IInv
  <1> SUFFICES ASSUME Init PROVE IInv
    OBVIOUS
  <1> USE DEF Init
  <1>1. FlagsTypeOK
    BY DEF FlagsTypeOK
  <1>2. InputTypeOK
    BY EpochAssumption DEF InputTypeOK, Epochs, WriterPcs, UartPcs
  <1>3. QueuesTypeOK
    BY QueueAssumption DEF QueuesTypeOK
  <1>4. FilterTypeOK
    BY EpochAssumption DEF FilterTypeOK, FilterPcs, Epochs
  <1>5. MarkersMatchItems
    <2>1. \A m : Occurrences(filterSet, m) = 0
      <3>1. filterSet \in Seq(Markers) /\ DOMAIN filterSet = {}
        OBVIOUS
      <3> QED
        BY <3>1, OccurrencesZero
    <2> QED
      BY <2>1 DEF MarkersMatchItems, Unanswered
  <1>6. OverridePhases /\ FilterPhases /\ WindowEpochs /\ BestIsLowest
    BY DEF OverridePhases, FilterPhases, WindowEpochs, BestIsLowest
  <1>7. ParserHoldsSelectedSource
    BY DEF ParserHoldsSelectedSource
  <1>8. LiveCandidates = {}
    BY DEF LiveCandidates
  <1>9. EpochIdentifiesSource /\ FlushLeavesNothing
    BY <1>8 DEF EpochIdentifiesSource, FlushLeavesNothing
  <1>10. FlushInOnePlace /\ FlushedQueueIsEmpty
    BY DEF FlushInOnePlace, FlushedQueueIsEmpty, Serving
  <1>11. NoCandidateBehindFlush
    BY DEF NoCandidateBehindFlush
  <1> QED
    BY <1>1, <1>2, <1>3, <1>4, <1>5, <1>6, <1>7, <1>9, <1>10, <1>11
    DEF IInv, TypeOK

\* Every step keeps the inductive invariant.
LEMMA NextIInv == IInv /\ [Next]_vars => IInv'
  <1> SUFFICES ASSUME IInv, [Next]_vars PROVE IInv'
    OBVIOUS
  <1>1. TypeOK'
    BY FlagsTyping, InputTyping, QueuesTyping, FilterTyping DEF IInv, TypeOK
  <1>2. OverridePhases'
    BY OverridePhasesStep DEF IInv
  <1> QED
    BY <1>1, <1>2, FilterPhasesStep, ParserStep, MarkersStep,
       FlushInOnePlaceStep, FlushedQueueStep, NoCandidateBehindFlushStep,
       EpochStep, FlushLeavesNothingStep, WindowEpochsStep, BestIsLowestStep
    DEF IInv

\* The inductive invariant holds in every reachable state.
THEOREM Invariance == Spec => []IInv
  BY InitIInv, NextIInv, PTL DEF Spec

\* Every variable stays within its type: in particular no queue exceeds the
\* length it was created with.
THEOREM TypeCorrectness == Spec => []TypeOK
  <1>1. IInv => TypeOK
    BY DEF IInv
  <1> QED
    BY <1>1, Invariance, PTL

\* The queue set holds one marker per queued item, whatever the interleaving
\* of the UART2 reader, the timer, the upload worker and the filter.
THEOREM MarkersAreExact == Spec => []MarkersMatchItems
  <1>1. IInv => MarkersMatchItems
    BY DEF IInv
  <1> QED
    BY <1>1, Invariance, PTL

\* The parser never joins bytes of two sources.
THEOREM ParserIsUnmixed == Spec => []ParserHoldsSelectedSource
  <1>1. IInv => ParserHoldsSelectedSource
    BY DEF IInv
  <1> QED
    BY <1>1, Invariance, PTL

\* Equality of epochs identifies the source of a live pair, for every range of
\* the wrapping epoch counter.
THEOREM EpochSeparatesSources == Spec => []EpochIdentifiesSource
  <1>1. IInv => EpochIdentifiesSource
    BY DEF IInv
  <1> QED
    BY <1>1, Invariance, PTL

\* The acknowledged flush leaves no candidate anywhere in the filter.
THEOREM FlushIsComplete == Spec => []FlushLeavesNothing
  <1>1. IInv => FlushLeavesNothing
    BY DEF IInv
  <1> QED
    BY <1>1, Invariance, PTL

\* The acknowledgement semaphore is never full while nobody awaits it.
THEOREM NoStaleAcknowledgement == Spec => []AcknowledgementIsAwaited
  <1>1. IInv => AcknowledgementIsAwaited
    BY DEF IInv, FlushInOnePlace, AcknowledgementIsAwaited
  <1> QED
    BY <1>1, Invariance, PTL

\* The selected pair is the best of its window.
THEOREM SelectionIsBest == Spec => []BestIsLowest
  <1>1. IInv => BestIsLowest
    BY DEF IInv
  <1> QED
    BY <1>1, Invariance, PTL

\* No step publishes an uploaded pair after its upload gave the parser back.
THEOREM MockStaysInItsUpload == Spec => MockOnlyWhileOverridden
  <1>1. ASSUME IInv PROVE Publishes /\ "http" \in best.from => overrideActive
    <2> SUFFICES ASSUME Publishes, "http" \in best.from PROVE overrideActive
      OBVIOUS
    <2>1. best \in LiveCandidates
      BY <1>1 DEF Publishes, IInv, FilterPhases, LiveCandidates
    <2> QED
      BY <1>1, <2>1 DEF IInv, EpochIdentifiesSource, SelectedSource
  <1>2. IInv => [Publishes /\ "http" \in best.from => overrideActive]_vars
    BY <1>1
  <1> QED
    BY <1>2, Invariance, PTL DEF MockOnlyWhileOverridden
===============================================================================
