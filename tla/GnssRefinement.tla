---------------------------- MODULE GnssRefinement ----------------------------
(***************************************************************************)
(* GnssPipeline implements BestOfWindow, for every queue length, range of  *)
(* the epoch and set of HDOPs: each of its steps is one of the promise or  *)
(* leaves what the consumers see alone.                                    *)
(***************************************************************************)
EXTENDS GnssPipelineProofs

\* The best pair is one of those accepted.
BestInWindow == best # None => best \in window

LEMMA BestInWindowStep ==
    ASSUME IInv, BestInWindow, [Next]_vars
    PROVE  BestInWindow'
  <1> USE DEF BestInWindow, vars, overrideVars, parserVars, queueVars,
         filterVars, writerVars
  <1>1. CASE ConsiderCandidate
    <2>1. hand # None
      BY <1>1 DEF ConsiderCandidate, IInv, FilterPhases
    <2> QED
      BY <1>1, <2>1 DEF ConsiderCandidate, BestAfter
  <1>2. CASE PublishCheck
    BY <1>2 DEF PublishCheck
  <1>3. CASE PublishBestCandidate
    BY <1>3 DEF PublishBestCandidate
  <1>4. ASSUME UNCHANGED <<best, window>>
        PROVE  BestInWindow'
    BY <1>4
  <1>5. ASSUME NEW s \in Sources, NmeaParserFeed(s) \/ ParseChunkEnds(s)
        PROVE  UNCHANGED <<best, window>>
    BY <1>5 DEF NmeaParserFeed, ParseStart, ParseOverlong, ParseGga, ParseRmc,
           ParseOther, ParseChunkEnds
  <1>6. CASE UartSetup \/ UartLock \/ UartRead \/ SelectionTimerCallback
               \/ GnssPublicationReceive
    BY <1>6 DEF UartSetup, UartLock, UartRead, GnssUartInputFeed,
           SelectionTimerCallback, GnssPublicationReceive
  <1>7. CASE \/ FilterSelect \/ FilterReceiveCandidate \/ FilterReceiveTimer
             \/ FilterReceiveControl \/ FilterCompareEpoch \/ FilterAcknowledge
    BY <1>7 DEF FilterSelect, FilterReceiveCandidate, FilterReceiveTimer,
           FilterReceiveControl, FilterCompareEpoch, FilterAcknowledge
  <1>8. CASE OverrideBegin \/ OverrideFeed \/ WriteBodyEnds \/ OverrideEnd
    <2>1. UNCHANGED <<best, window>>
      BY <1>8 DEF OverrideBegin, OverrideFeed, WriteBodyEnds, OverrideEnd,
             OverrideClose, OverrideDiscardStaleAck, OverrideSendFlush,
             OverrideAwaitFlush, OverrideFinish
    <2> QED
      BY <1>4, <2>1
  <1>9. CASE UNCHANGED vars
    BY <1>9
  <1> QED
    BY <1>1, <1>2, <1>3, <1>4, <1>5, <1>6, <1>7, <1>8, <1>9
       DEF Next, GnssFilterTask

-----------------------------------------------------------------------------
(* The mapping, with names for its parts.                                  *)

Window ==
    IF filterPc = "publish" THEN {}
    ELSE {PairOf(c) : c \in {c \in window : c.epoch = inputEpoch}}

Chosen == IF filterPc = "publish" THEN PairOf(best) ELSE None

Mapped == <<SelectedSource, Window, Chosen, publicationQueue>>

\* A step that leaves alone what the mapping looks at.
LEMMA Stutter ==
    ASSUME UNCHANGED <<overrideActive, inputEpoch, window, best, publicationQueue>>,
           (filterPc = "publish") = (filterPc' = "publish")
    PROVE  UNCHANGED Mapped
  BY DEF Mapped, SelectedSource, Window, Chosen, PairOf

\* A candidate of the current epoch joins the window of its source.
LEMMA ConsiderMaps ==
    ASSUME IInv, ConsiderCandidate
    PROVE  Promise!Accept \/ UNCHANGED Mapped
  <1>1. /\ filterPc = "consider" /\ filterPc' = "select" /\ hand # None
        /\ UNCHANGED <<overrideActive, inputEpoch, publicationQueue>>
    BY DEF ConsiderCandidate, overrideVars, IInv, FilterPhases
  <1>2. UNCHANGED <<SelectedSource, Chosen, publicationQueue>>
    BY <1>1 DEF SelectedSource, Chosen
  <1>3. CASE hand.epoch # inputEpoch
    <2>1. window' = window
      BY <1>3 DEF ConsiderCandidate
    <2>2. Window' = Window
      BY <1>1, <2>1 DEF Window, PairOf
    <2> QED
      BY <1>2, <2>2 DEF Mapped
  <1>4. CASE hand.epoch = inputEpoch
    <2>1. window' = {c \in window : c.epoch = inputEpoch} \cup {hand}
      BY <1>4 DEF ConsiderCandidate
    <2>2. hand \in Candidate /\ hand.from = {SelectedSource}
      BY <1>1, <1>4 DEF IInv, TypeOK, FilterTypeOK, EpochIdentifiesSource,
             LiveCandidates
    <2>3. PairOf(hand) \in PendingGga /\ PairOf(hand).from = {SelectedSource}
      BY <2>2 DEF PairOf, PendingGga, Candidate
    <2>4. {c \in window' : c.epoch = inputEpoch'}
              = {c \in window : c.epoch = inputEpoch} \cup {hand}
      BY <1>1, <1>4, <2>1
    <2>5. Window' = Window \cup {PairOf(hand)}
      BY <1>1, <2>4 DEF Window, PairOf
    <2> QED
      BY <1>2, <2>3, <2>5 DEF Promise!Accept, Window, Chosen
  <1> QED
    BY <1>3, <1>4

\* The check of the epoch chooses the best pair, or finds no pair to choose.
LEMMA CheckMaps ==
    ASSUME IInv, BestInWindow, PublishCheck
    PROVE  Promise!Choose \/ UNCHANGED Mapped
  <1>1. /\ filterPc = "check"
        /\ UNCHANGED <<overrideActive, inputEpoch, publicationQueue>>
    BY DEF PublishCheck, overrideVars
  <1>2. UNCHANGED <<SelectedSource, publicationQueue>>
    BY <1>1 DEF SelectedSource
  <1>3. CASE best = None \/ best.epoch # inputEpoch
    <2>1. window' = {} /\ filterPc' # "publish"
      BY <1>3 DEF PublishCheck
    <2>2. {c \in window : c.epoch = inputEpoch} = {}
      BY <1>3 DEF IInv, BestIsLowest
    <2>3. Window = {} /\ Window' = {}
      BY <2>1, <2>2 DEF Window
    <2>4. Chosen = None /\ Chosen' = None
      BY <1>1, <2>1 DEF Chosen
    <2> QED
      BY <1>2, <2>3, <2>4 DEF Mapped
  <1>4. CASE best # None /\ best.epoch = inputEpoch
    <2>1. best' = best /\ window' = window /\ filterPc' = "publish"
      BY <1>4 DEF PublishCheck
    <2>2. Window' = {} /\ Chosen' = PairOf(best) /\ Chosen = None
      BY <1>1, <2>1 DEF Window, Chosen, PairOf
    <2>3. best \in {c \in window : c.epoch = inputEpoch}
      BY <1>4 DEF BestInWindow
    <2>4. PairOf(best) \in Window
      BY <1>1, <2>3 DEF Window
    <2>5. \A q \in Window : PairOf(best).hdop <= q.hdop
      <3> SUFFICES ASSUME NEW c \in window, c.epoch = inputEpoch
                   PROVE  PairOf(best).hdop <= PairOf(c).hdop
        BY <1>1 DEF Window
      <3> QED
        BY DEF IInv, BestIsLowest, PairOf
    <2> QED
      BY <1>2, <2>2, <2>4, <2>5 DEF Promise!Choose, Window, Chosen
  <1> QED
    BY <1>3, <1>4

LEMMA PublishMaps ==
    ASSUME IInv, PublishBestCandidate
    PROVE  Promise!Publish
  <1>1. /\ filterPc = "publish" /\ filterPc' # "publish" /\ window' = {}
        /\ publicationQueue' = <<PairOf(best)>>
        /\ UNCHANGED <<overrideActive, inputEpoch>>
    BY DEF PublishBestCandidate, overrideVars, PairOf
  <1>2. best # None /\ best \in Candidate
    BY <1>1 DEF IInv, FilterPhases, TypeOK, FilterTypeOK
  <1>3. PairOf(best) \in PendingGga
    BY <1>2 DEF PairOf, PendingGga, Candidate
  <1>4. PairOf(best) # None
    BY <1>3, NoneAssumption
  <1>5. Window = {} /\ Window' = {} /\ Chosen = PairOf(best) /\ Chosen' = None
    BY <1>1 DEF Window, Chosen
  <1>6. SelectedSource' = SelectedSource
    BY <1>1 DEF SelectedSource
  <1> QED
    BY <1>1, <1>4, <1>5, <1>6 DEF Promise!Publish, Window, Chosen

\* An upload begins: no pair of the history is of the new epoch.
LEMMA BeginMaps ==
    ASSUME IInv, OverrideBegin
    PROVE  Promise!Override
  <1>1. /\ ~overrideActive /\ overrideActive'
        /\ inputEpoch' = EpochAfter(inputEpoch)
        /\ UNCHANGED <<window, best, filterPc, publicationQueue>>
    BY DEF OverrideBegin, filterVars, IInv, OverridePhases
  <1>2. \A c \in window : c.epoch = inputEpoch
    BY <1>1 DEF IInv, WindowEpochs
  <1>3. inputEpoch' # inputEpoch
    BY <1>1, EpochAfterProperties DEF IInv, TypeOK, InputTypeOK
  <1>4. Window' = {}
    BY <1>1, <1>2, <1>3 DEF Window
  <1>5. Chosen' = Chosen
    BY <1>1 DEF Chosen, PairOf
  <1>6. SelectedSource = "uart" /\ SelectedSource' = "http"
    BY <1>1 DEF SelectedSource
  <1> QED
    BY <1>1, <1>4, <1>5, <1>6 DEF Promise!Override, Window, Chosen

\* The flush has left nothing to choose when the upload ends.
LEMMA FinishMaps ==
    ASSUME IInv, OverrideFinish
    PROVE  Promise!Release
  <1>1. /\ writerPc = "finish" /\ overrideActive' = FALSE
        /\ UNCHANGED <<window, best, filterPc, publicationQueue>>
    BY DEF OverrideFinish, filterVars
  <1>2. overrideActive
    BY <1>1 DEF IInv, OverridePhases
  <1>3. best = None
    BY <1>1 DEF IInv, FlushLeavesNothing, LiveCandidates
  <1>4. window = {} /\ filterPc # "publish"
    BY <1>3 DEF IInv, FilterPhases
  <1>5. Window = {} /\ Window' = {} /\ Chosen = None /\ Chosen' = None
    BY <1>1, <1>4 DEF Window, Chosen
  <1>6. SelectedSource = "http" /\ SelectedSource' = "uart"
    BY <1>1, <1>2 DEF SelectedSource
  <1> QED
    BY <1>1, <1>5, <1>6 DEF Promise!Release, Window, Chosen

LEMMA TakeMaps ==
    ASSUME GnssPublicationReceive
    PROVE  Promise!Take
  <1>1. /\ publicationQueue # <<>> /\ publicationQueue' = <<>>
        /\ UNCHANGED <<overrideActive, inputEpoch, window, best, filterPc>>
    BY DEF GnssPublicationReceive, overrideVars, filterVars
  <1> QED
    BY <1>1 DEF Promise!Take, SelectedSource, PairOf

LEMMA OthersStutter ==
    ASSUME \/ \E s \in Sources : NmeaParserFeed(s) \/ ParseChunkEnds(s)
           \/ UartSetup \/ UartLock \/ UartRead \/ SelectionTimerCallback
           \/ FilterSelect \/ FilterReceiveCandidate \/ FilterReceiveTimer
           \/ FilterReceiveControl \/ FilterCompareEpoch \/ FilterAcknowledge
           \/ OverrideFeed \/ WriteBodyEnds \/ OverrideClose
           \/ OverrideDiscardStaleAck \/ OverrideSendFlush \/ OverrideAwaitFlush
           \/ UNCHANGED vars,
           IInv
    PROVE  UNCHANGED Mapped
  <1> USE DEF vars, overrideVars, parserVars, queueVars, filterVars, writerVars
  <1>1. UNCHANGED <<overrideActive, inputEpoch, window, best, publicationQueue>>
    BY DEF NmeaParserFeed, ParseStart, ParseOverlong, ParseGga, ParseRmc,
           ParseOther, ParseChunkEnds, UartSetup, UartLock, UartRead,
           GnssUartInputFeed, SelectionTimerCallback, FilterSelect,
           FilterReceiveCandidate, FilterReceiveTimer, FilterReceiveControl,
           FilterCompareEpoch, FilterAcknowledge, OverrideFeed, WriteBodyEnds,
           OverrideClose, OverrideDiscardStaleAck, OverrideSendFlush,
           OverrideAwaitFlush
  <1>2. CASE \/ FilterSelect \/ FilterReceiveCandidate \/ FilterReceiveTimer
             \/ FilterReceiveControl \/ FilterCompareEpoch \/ FilterAcknowledge
    <2>1. CASE FilterSelect
      <3>1. filterSet # <<>> /\ filterSet \in Seq(Markers)
        BY <2>1 DEF FilterSelect, IInv, TypeOK, QueuesTypeOK
      <3>2. Head(filterSet) \in Markers
        BY <3>1
      <3> QED
        BY <1>1, <2>1, <3>2, Stutter DEF FilterSelect, Markers
    <2>2. CASE ~FilterSelect
      <3>1. filterPc # "publish" /\ filterPc' # "publish"
        BY <1>2, <2>2 DEF FilterReceiveCandidate, FilterReceiveTimer,
               FilterReceiveControl, FilterCompareEpoch, FilterAcknowledge
      <3> QED
        BY <1>1, <3>1, Stutter
    <2> QED
      BY <2>1, <2>2
  <1>3. CASE ~(\/ FilterSelect \/ FilterReceiveCandidate \/ FilterReceiveTimer
               \/ FilterReceiveControl \/ FilterCompareEpoch
               \/ FilterAcknowledge)
    <2>1. filterPc' = filterPc
      BY <1>3 DEF NmeaParserFeed, ParseStart, ParseOverlong, ParseGga, ParseRmc,
             ParseOther, ParseChunkEnds, UartSetup, UartLock, UartRead,
             GnssUartInputFeed, SelectionTimerCallback, OverrideFeed,
             WriteBodyEnds, OverrideClose, OverrideDiscardStaleAck,
             OverrideSendFlush, OverrideAwaitFlush
    <2> QED
      BY <1>1, <2>1, Stutter
  <1> QED
    BY <1>2, <1>3

-----------------------------------------------------------------------------
\* The pipeline of gnss.c keeps the promise of BestOfWindow: a publication is
\* the best pair of a window of one source, and an upload gives the parser back
\* only after its last window is out.
THEOREM Implementation == Spec => ImplementsBestOfWindow
  <1>1. Init => BestInWindow
    BY DEF Init, BestInWindow
  <1>2. IInv /\ BestInWindow /\ [Next]_vars => BestInWindow'
    BY BestInWindowStep
  <1>3. Spec => [](IInv /\ BestInWindow)
    BY <1>1, <1>2, Invariance, PTL DEF Spec
  <1>4. Init => Promise!Init
    BY DEF Init, Promise!Init, SelectedSource
  <1>5. ASSUME IInv, BestInWindow, [Next]_vars
        PROVE  [Promise!Next]_Mapped
    <2>1. CASE \/ ConsiderCandidate \/ PublishCheck \/ PublishBestCandidate
               \/ OverrideBegin \/ OverrideFinish \/ GnssPublicationReceive
      BY <1>5, <2>1, ConsiderMaps, CheckMaps, PublishMaps, BeginMaps,
         FinishMaps, TakeMaps DEF Promise!Next
    <2>2. CASE ~(\/ ConsiderCandidate \/ PublishCheck \/ PublishBestCandidate
                 \/ OverrideBegin \/ OverrideFinish \/ GnssPublicationReceive)
      BY <1>5, <2>2, OthersStutter DEF Next, GnssFilterTask, OverrideEnd
    <2> QED
      BY <2>1, <2>2
  <1>6. IInv /\ BestInWindow /\ [Next]_vars
            => [Promise!Next]_<<SelectedSource, Window, Chosen, publicationQueue>>
    BY <1>5 DEF Mapped
  <1> QED
    BY <1>3, <1>4, <1>6, PTL DEF Spec, ImplementsBestOfWindow, Promise!Spec,
       Window, Chosen
=============================================================================
