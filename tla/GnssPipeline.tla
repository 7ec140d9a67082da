---------------------------- MODULE GnssPipeline ----------------------------
(***************************************************************************)
(* The GNSS input pipeline of main/gnss.c, with the upload worker of       *)
(* main/http_stream.c that drives its override interface.                  *)
(*                                                                         *)
(* Two byte sources share one NMEA parser under s_parser_mutex: UART2 and  *)
(* a POST /write upload, which overrides UART2 while it lasts.  A GGA line *)
(* followed by an RMC line makes a candidate pair, stamped with the        *)
(* current input epoch and queued for the filter task.  The filter blocks  *)
(* on a FreeRTOS queue set of three queues (candidates, selection-timer    *)
(* expirations, flush requests), keeps the pair of lowest HDOP of the      *)
(* current quality window, and overwrites the one-item publication queue   *)
(* with it when the timer expires or when an ending upload asks for a      *)
(* flush.                                                                  *)
(*                                                                         *)
(* The ESP32 has two cores and every task here is created without core     *)
(* affinity, so each task moves between any two steps of the others.  A    *)
(* step ends where another task can observe or disturb it: at the parser   *)
(* mutex, at a queue, at a semaphore.  A short critical section is one     *)
(* step enabled while the mutex is free; feeding bytes holds the mutex for *)
(* as many steps as there are sentences in the chunk, because candidates   *)
(* leave for the filter in the middle of it.                               *)
(***************************************************************************)
EXTENDS Integers, Sequences, FiniteSets

CONSTANTS
    CandidateQueueLength,   \* GNSS_CANDIDATE_QUEUE_LENGTH, 8 in the code
    EpochMax,               \* largest s_input_epoch, 2^32 - 1 in the code
    Hdops,                  \* HDOP values in thousandths
    None                    \* no pair (has_best_candidate, has_pending_gga)

Sources == {"uart", "http"}

Epochs == 1 .. EpochMax

\* gnss_candidate_t.  The text of the two lines is abstracted to `from`, the
\* set of sources that contributed a byte to either of them.
Candidate == [hdop : Hdops, epoch : Epochs, from : SUBSET Sources]

\* The pending half of nmea_parser_state_t.
PendingGga == [hdop : Hdops, from : SUBSET Sources]

ASSUME QueueAssumption == CandidateQueueLength \in Nat \ {0}
ASSUME EpochAssumption == EpochMax \in Nat /\ EpochMax >= 2
ASSUME HdopAssumption == Hdops \subseteq Nat
ASSUME NoneAssumption == None \notin Candidate /\ None \notin PendingGga

VARIABLES
    inputEpoch,         \* s_input_epoch
    overrideActive,     \* s_input_override_active
    overrideClosing,    \* s_input_override_closing
    parserMutex,        \* s_parser_mutex: "free", or the source feeding bytes
    sentenceFrom,       \* sources of the sentence being built, {} outside one
    pendingGga,         \* the GGA waiting for its RMC, or None
    candidateQueue,     \* s_candidate_queue
    timerQueue,         \* items in s_timer_event_queue
    controlQueue,       \* s_filter_control_queue
    filterSet,          \* s_filter_queue_set: one marker per readiness event
    flushDone,          \* s_override_flush_done, a binary semaphore
    publicationQueue,   \* s_publication_queue
    filterPc,           \* where gnss_filter_task is
    hand,               \* the candidate the filter received, or None
    best,               \* best_candidate, None when ~has_best_candidate
    controlEpoch,       \* control.input_epoch of the request in hand
    flushing,           \* publish_best_candidate was called for a flush
    window,             \* history: candidates accepted since the last publish
    writerPc,           \* where the upload worker is
    writerEpoch,        \* control.input_epoch in gnss_input_override_end
    uartPc              \* which of the UART2 tasks is running, and its phase

overrideVars == <<inputEpoch, overrideActive, overrideClosing>>
parserVars == <<sentenceFrom, pendingGga>>
queueVars == <<candidateQueue, timerQueue, controlQueue, filterSet>>
filterVars == <<filterPc, hand, best, controlEpoch, flushing, window>>
writerVars == <<writerPc, writerEpoch>>
vars == <<overrideVars, parserMutex, parserVars, queueVars, flushDone,
          publicationQueue, filterVars, writerVars, uartPc>>

Markers == {"candidate", "timer", "control"}
FilterPcs == Markers \cup {"select", "consider", "compare", "check",
                           "publish", "ack"}
WriterPcs == {"idle", "receive", "end", "drain", "send", "await", "finish"}
UartPcs == {"setup", "scan", "read"}

-----------------------------------------------------------------------------
(* The state before the scheduler starts: gnss_stack_init has created the  *)
(* objects and the static variables hold their initialisers.               *)
Init ==
    /\ inputEpoch = 1
    /\ overrideActive = FALSE
    /\ overrideClosing = FALSE
    /\ parserMutex = "free"
    /\ sentenceFrom = {}
    /\ pendingGga = None
    /\ candidateQueue = <<>>
    /\ timerQueue = 0
    /\ controlQueue = <<>>
    /\ filterSet = <<>>
    /\ flushDone = FALSE
    /\ publicationQueue = <<>>
    /\ filterPc = "select"
    /\ hand = None
    /\ best = None
    /\ controlEpoch = 1
    /\ flushing = FALSE
    /\ window = {}
    /\ writerPc = "idle"
    /\ writerEpoch = 1
    /\ uartPc = "setup"

-----------------------------------------------------------------------------
(* Faulty variants of the definitions below, for the mutation runs.        *)

\* A full queue makes room by receiving its oldest pair outside the filter.
SendDropOldest(c) ==
    LET full == Len(candidateQueue) = CandidateQueueLength
    IN  /\ candidateQueue' = Append(IF full THEN Tail(candidateQueue)
                                            ELSE candidateQueue, c)
        /\ filterSet' = Append(filterSet, "candidate")
        /\ UNCHANGED <<timerQueue, controlQueue>>

\* A marker is posted only when the queue was empty.
SendMarkFirst(c) ==
    LET stored == Len(candidateQueue) < CandidateQueueLength
    IN  /\ candidateQueue' = IF stored THEN Append(candidateQueue, c)
                                       ELSE candidateQueue
        /\ filterSet' = IF candidateQueue = <<>>
                        THEN Append(filterSet, "candidate") ELSE filterSet
        /\ UNCHANGED <<timerQueue, controlQueue>>

\* The reset forgets the sentence being built.
ResetPendingOnly ==
    /\ sentenceFrom' = sentenceFrom
    /\ pendingGga' = None

\* The epoch does not change at a switch.
EpochStays(e) == e

\* A best pair of an older epoch competes with a new pair.
BestKeepsStale(c) ==
    IF c.epoch # inputEpoch THEN best
    ELSE IF best = None \/ c.hdop < best.hdop THEN c ELSE best

\* The expiration is not received, so no later one posts a marker.
TimerNotReceived ==
    /\ filterPc = "timer"
    /\ timerQueue' = timerQueue
    /\ flushing' = FALSE
    /\ filterPc' = "check"
    /\ UNCHANGED <<overrideVars, parserMutex, parserVars, candidateQueue,
                   controlQueue, filterSet, flushDone, publicationQueue, hand,
                   best, controlEpoch, window, writerVars, uartPc>>

\* The flush is acknowledged without publishing.
CompareAcknowledges ==
    /\ filterPc = "compare"
    /\ parserMutex = "free"
    /\ flushing' = TRUE
    /\ filterPc' = "ack"
    /\ UNCHANGED <<overrideVars, parserMutex, parserVars, queueVars, flushDone,
                   publicationQueue, hand, best, controlEpoch, window,
                   writerVars, uartPc>>

\* A flush with nothing to publish returns without an acknowledgement.
CheckForgetsAck ==
    /\ filterPc = "check"
    /\ parserMutex = "free"
    /\ LET stale == best = None \/ best.epoch # inputEpoch
       IN  /\ best' = IF stale THEN None ELSE best
           /\ window' = IF stale THEN {} ELSE window
           /\ filterPc' = IF stale THEN "select" ELSE "publish"
    /\ UNCHANGED <<overrideVars, parserMutex, parserVars, queueVars, flushDone,
                   publicationQueue, hand, controlEpoch, flushing, writerVars,
                   uartPc>>

\* The publication does not ask for the epoch.
CheckReadsNoEpoch ==
    /\ filterPc = "check"
    /\ parserMutex = "free"
    /\ LET stale == best = None
       IN  /\ best' = IF stale THEN None ELSE best
           /\ window' = IF stale THEN {} ELSE window
           /\ filterPc' = IF ~stale THEN "publish"
                          ELSE IF flushing THEN "ack" ELSE "select"
    /\ UNCHANGED <<overrideVars, parserMutex, parserVars, queueVars, flushDone,
                   publicationQueue, hand, controlEpoch, flushing, writerVars,
                   uartPc>>

\* The wait for the acknowledgement times out.
AwaitTimesOut ==
    /\ writerPc = "await"
    /\ flushDone' = FALSE
    /\ writerPc' = "finish"
    /\ UNCHANGED <<overrideVars, parserMutex, parserVars, queueVars,
                   publicationQueue, filterVars, writerEpoch, uartPc>>

-----------------------------------------------------------------------------
(* Helpers.                                                                *)

\* The epoch after e: an unsigned increment that skips zero.
EpochAfter(e) == IF e = EpochMax THEN 1 ELSE e + 1

\* memset(&s_parser_state, 0, sizeof(s_parser_state)).
ParserReset ==
    /\ sentenceFrom' = {}
    /\ pendingGga' = None

\* xQueueSend to the candidate queue with no wait.  A full queue drops the
\* newest pair; a stored pair posts its readiness marker in the same step.
GnssCandidateSend(c) ==
    LET stored == Len(candidateQueue) < CandidateQueueLength
    IN  /\ candidateQueue' = IF stored THEN Append(candidateQueue, c)
                                       ELSE candidateQueue
        /\ filterSet' = IF stored THEN Append(filterSet, "candidate")
                                  ELSE filterSet
        /\ UNCHANGED <<timerQueue, controlQueue>>

-----------------------------------------------------------------------------
(* Feeding the parser.  The task that holds the mutex for source s feeds   *)
(* its chunk one event at a time and then gives the mutex back.            *)

\* '$' starts a sentence and abandons the one being built.
ParseStart(s) ==
    /\ parserMutex = s
    /\ sentenceFrom' = {s}
    /\ UNCHANGED <<overrideVars, parserMutex, pendingGga, queueVars, flushDone,
                   publicationQueue, filterVars, writerVars, uartPc>>

\* A line longer than the buffer is abandoned.
ParseOverlong(s) ==
    /\ parserMutex = s
    /\ sentenceFrom # {}
    /\ sentenceFrom' = {}
    /\ UNCHANGED <<overrideVars, parserMutex, pendingGga, queueVars, flushDone,
                   publicationQueue, filterVars, writerVars, uartPc>>

\* A newline completes a GGA line with a valid checksum and an HDOP.
ParseGga(s) ==
    /\ parserMutex = s
    /\ sentenceFrom # {}
    /\ \E h \in Hdops :
          pendingGga' = [hdop |-> h, from |-> sentenceFrom \cup {s}]
    /\ sentenceFrom' = {}
    /\ UNCHANGED <<overrideVars, parserMutex, queueVars, flushDone,
                   publicationQueue, filterVars, writerVars, uartPc>>

\* A newline completes the RMC line the pending GGA was waiting for.
ParseRmc(s) ==
    /\ parserMutex = s
    /\ sentenceFrom # {}
    /\ pendingGga # None
    /\ GnssCandidateSend([hdop |-> pendingGga.hdop,
                          epoch |-> inputEpoch,
                          from |-> pendingGga.from \cup sentenceFrom \cup {s}])
    /\ ParserReset
    /\ UNCHANGED <<overrideVars, parserMutex, flushDone,
                   publicationQueue, filterVars, writerVars, uartPc>>

\* A newline completes any other line: a bad checksum, a GGA without an HDOP,
\* an RMC nothing waits for, another sentence type.  Pairing is untouched.
ParseOther(s) ==
    /\ parserMutex = s
    /\ sentenceFrom # {}
    /\ sentenceFrom' = {}
    /\ UNCHANGED <<overrideVars, parserMutex, pendingGga, queueVars, flushDone,
                   publicationQueue, filterVars, writerVars, uartPc>>

\* The chunk is consumed.
ParseChunkEnds(s) ==
    /\ parserMutex = s
    /\ parserMutex' = "free"
    /\ UNCHANGED <<overrideVars, parserVars, queueVars, flushDone,
                   publicationQueue, filterVars, writerVars, uartPc>>

NmeaParserFeed(s) ==
    ParseStart(s) \/ ParseOverlong(s) \/ ParseGga(s) \/ ParseRmc(s)
        \/ ParseOther(s)

-----------------------------------------------------------------------------
(* The UART2 tasks: gnss_init_task until the baud rate is known, then      *)
(* gnss_uart_task.  Both feed through gnss_uart_input_feed.                *)

\* gnss_init_task clears the parser, whoever owns it at that moment.
UartSetup ==
    /\ uartPc = "setup"
    /\ parserMutex = "free"
    /\ ParserReset
    /\ uartPc' = "scan"
    /\ UNCHANGED <<overrideVars, parserMutex, queueVars, flushDone,
                   publicationQueue, filterVars, writerVars>>

\* gnss_uart_input_feed: while the override is active the chunk is ignored.
GnssUartInputFeed ==
    /\ parserMutex = "free"
    /\ parserMutex' = IF overrideActive THEN "free" ELSE "uart"
    /\ UNCHANGED <<overrideVars, parserVars, queueVars, flushDone,
                   publicationQueue, filterVars, writerVars>>

\* A scanned chunk holds a valid sentence: the rate is locked, the chunk is
\* fed again, and the steady-state reader takes over.
UartLock ==
    /\ uartPc = "scan"
    /\ uartPc' = "read"
    /\ GnssUartInputFeed

\* gnss_uart_task read a chunk.
UartRead ==
    /\ uartPc = "read"
    /\ uartPc' = "read"
    /\ GnssUartInputFeed

-----------------------------------------------------------------------------
(* The selection timer, in the FreeRTOS timer service task.  Overwriting a *)
(* full queue posts no second marker.                                      *)
SelectionTimerCallback ==
    /\ timerQueue' = 1
    /\ filterSet' = IF timerQueue = 0 THEN Append(filterSet, "timer")
                                      ELSE filterSet
    /\ UNCHANGED <<overrideVars, parserMutex, parserVars, candidateQueue,
                   controlQueue, flushDone, publicationQueue, filterVars,
                   writerVars, uartPc>>

-----------------------------------------------------------------------------
(* gnss_filter_task.                                                       *)

\* xQueueSelectFromSet: take the oldest marker.
FilterSelect ==
    /\ filterPc = "select"
    /\ filterSet # <<>>
    /\ filterPc' = Head(filterSet)
    /\ filterSet' = Tail(filterSet)
    /\ UNCHANGED <<overrideVars, parserMutex, parserVars, candidateQueue,
                   timerQueue, controlQueue, flushDone, publicationQueue, hand,
                   best, controlEpoch, flushing, window, writerVars, uartPc>>

\* A failed receive goes back to select without a candidate.
FilterReceiveCandidate ==
    /\ filterPc = "candidate"
    /\ LET failed == candidateQueue = <<>>
       IN  /\ filterPc' = IF failed THEN "select" ELSE "consider"
           /\ hand' = IF failed THEN None ELSE Head(candidateQueue)
           /\ candidateQueue' = IF failed THEN <<>> ELSE Tail(candidateQueue)
    /\ UNCHANGED <<overrideVars, parserMutex, parserVars, timerQueue,
                   controlQueue, filterSet, flushDone, publicationQueue, best,
                   controlEpoch, flushing, window, writerVars, uartPc>>

\* The best pair once c has been considered at the current epoch.
BestAfter(c) ==
    LET current == IF best # None /\ best.epoch # inputEpoch THEN None ELSE best
    IN  IF c.epoch # inputEpoch THEN best
        ELSE IF current = None \/ c.hdop < current.hdop THEN c
        ELSE current

\* consider_candidate: reading the epoch waits for the mutex; the rest only
\* touches the filter's own variables.
ConsiderCandidate ==
    /\ filterPc = "consider"
    /\ parserMutex = "free"
    /\ best' = BestAfter(hand)
    /\ window' = IF hand.epoch # inputEpoch THEN window
                 ELSE {c \in window : c.epoch = inputEpoch} \cup {hand}
    /\ hand' = None
    /\ filterPc' = "select"
    /\ UNCHANGED <<overrideVars, parserMutex, parserVars, queueVars, flushDone,
                   publicationQueue, controlEpoch, flushing, writerVars, uartPc>>

FilterReceiveTimer ==
    /\ filterPc = "timer"
    /\ timerQueue' = 0
    /\ flushing' = FALSE
    /\ filterPc' = "check"
    /\ UNCHANGED <<overrideVars, parserMutex, parserVars, candidateQueue,
                   controlQueue, filterSet, flushDone, publicationQueue, hand,
                   best, controlEpoch, window, writerVars, uartPc>>

\* A failed receive goes back to select and acknowledges nothing.
FilterReceiveControl ==
    /\ filterPc = "control"
    /\ LET failed == controlQueue = <<>>
       IN  /\ filterPc' = IF failed THEN "select" ELSE "compare"
           /\ controlEpoch' = IF failed THEN controlEpoch
                                        ELSE Head(controlQueue)
           /\ controlQueue' = IF failed THEN <<>> ELSE Tail(controlQueue)
    /\ UNCHANGED <<overrideVars, parserMutex, parserVars, candidateQueue,
                   timerQueue, filterSet, flushDone, publicationQueue, hand,
                   best, flushing, window, writerVars, uartPc>>

\* A request of another epoch is acknowledged without a flush.
FilterCompareEpoch ==
    /\ filterPc = "compare"
    /\ parserMutex = "free"
    /\ flushing' = TRUE
    /\ filterPc' = IF controlEpoch = inputEpoch THEN "check" ELSE "ack"
    /\ UNCHANGED <<overrideVars, parserMutex, parserVars, queueVars, flushDone,
                   publicationQueue, hand, best, controlEpoch, window,
                   writerVars, uartPc>>

\* publish_best_candidate, first half: reading the epoch waits for the mutex.
\* A pair of another epoch is dropped, and without a pair nothing is sent.
PublishCheck ==
    /\ filterPc = "check"
    /\ parserMutex = "free"
    /\ LET stale == best = None \/ best.epoch # inputEpoch
       IN  /\ best' = IF stale THEN None ELSE best
           /\ window' = IF stale THEN {} ELSE window
           /\ filterPc' = IF ~stale THEN "publish"
                          ELSE IF flushing THEN "ack" ELSE "select"
    /\ UNCHANGED <<overrideVars, parserMutex, parserVars, queueVars, flushDone,
                   publicationQueue, hand, controlEpoch, flushing, writerVars,
                   uartPc>>

\* Second half, after the mutex was given back: overwrite the publication.
PublishBestCandidate ==
    /\ filterPc = "publish"
    /\ publicationQueue' = <<[hdop |-> best.hdop, from |-> best.from]>>
    /\ best' = None
    /\ window' = {}
    /\ filterPc' = IF flushing THEN "ack" ELSE "select"
    /\ UNCHANGED <<overrideVars, parserMutex, parserVars, queueVars, flushDone,
                   hand, controlEpoch, flushing, writerVars, uartPc>>

\* xSemaphoreGive(s_override_flush_done).
FilterAcknowledge ==
    /\ filterPc = "ack"
    /\ flushDone' = TRUE
    /\ flushing' = FALSE
    /\ filterPc' = "select"
    /\ UNCHANGED <<overrideVars, parserMutex, parserVars, queueVars,
                   publicationQueue, hand, best, controlEpoch, window,
                   writerVars, uartPc>>

GnssFilterTask ==
    \/ FilterSelect \/ FilterReceiveCandidate \/ ConsiderCandidate
    \/ FilterReceiveTimer \/ FilterReceiveControl \/ FilterCompareEpoch
    \/ PublishCheck \/ PublishBestCandidate \/ FilterAcknowledge

\* http_stack_task takes the publication out of the queue.
GnssPublicationReceive ==
    /\ publicationQueue # <<>>
    /\ publicationQueue' = <<>>
    /\ UNCHANGED <<overrideVars, parserMutex, parserVars, queueVars, flushDone,
                   filterVars, writerVars, uartPc>>

-----------------------------------------------------------------------------
(* The upload worker: write_request_receive and the override interface.    *)

\* gnss_input_override_begin; an active override refuses the upload (409).
OverrideBegin ==
    /\ writerPc = "idle"
    /\ parserMutex = "free"
    /\ writerPc' = IF overrideActive THEN "idle" ELSE "receive"
    /\ overrideActive' = TRUE
    /\ overrideClosing' = IF overrideActive THEN overrideClosing ELSE FALSE
    /\ inputEpoch' = IF overrideActive THEN inputEpoch
                                       ELSE EpochAfter(inputEpoch)
    /\ sentenceFrom' = IF overrideActive THEN sentenceFrom ELSE {}
    /\ pendingGga' = IF overrideActive THEN pendingGga ELSE None
    /\ UNCHANGED <<parserMutex, queueVars, flushDone, publicationQueue,
                   filterVars, writerEpoch, uartPc>>

\* A received chunk enters gnss_input_override_feed, which refuses it unless
\* the override is active and not closing; a refusal ends the upload.
OverrideFeed ==
    /\ writerPc = "receive"
    /\ parserMutex = "free"
    /\ LET accepted == overrideActive /\ ~overrideClosing
       IN  /\ parserMutex' = IF accepted THEN "http" ELSE "free"
           /\ writerPc' = IF accepted THEN "receive" ELSE "end"
    /\ UNCHANGED <<overrideVars, parserVars, queueVars, flushDone,
                   publicationQueue, filterVars, writerEpoch, uartPc>>

\* The body is complete, or the client is gone.  A receive timeout is not an
\* end: the loop asks again.
WriteBodyEnds ==
    /\ writerPc = "receive"
    /\ parserMutex # "http"
    /\ writerPc' = "end"
    /\ UNCHANGED <<overrideVars, parserMutex, parserVars, queueVars, flushDone,
                   publicationQueue, filterVars, writerEpoch, uartPc>>

\* gnss_input_override_end, first critical section.
OverrideClose ==
    /\ writerPc = "end"
    /\ parserMutex = "free"
    /\ LET flush == overrideActive /\ ~overrideClosing
       IN  /\ overrideClosing' = (overrideClosing \/ flush)
           /\ writerEpoch' = IF flush THEN inputEpoch ELSE writerEpoch
           /\ writerPc' = IF flush THEN "drain" ELSE "idle"
    /\ UNCHANGED <<inputEpoch, overrideActive, parserMutex, parserVars,
                   queueVars, flushDone, publicationQueue, filterVars, uartPc>>

\* xSemaphoreTake(s_override_flush_done, 0).
OverrideDiscardStaleAck ==
    /\ writerPc = "drain"
    /\ flushDone' = FALSE
    /\ writerPc' = "send"
    /\ UNCHANGED <<overrideVars, parserMutex, parserVars, queueVars,
                   publicationQueue, filterVars, writerEpoch, uartPc>>

\* xQueueSend to the control queue, waiting for room.
OverrideSendFlush ==
    /\ writerPc = "send"
    /\ controlQueue = <<>>
    /\ controlQueue' = <<writerEpoch>>
    /\ filterSet' = Append(filterSet, "control")
    /\ writerPc' = "await"
    /\ UNCHANGED <<overrideVars, parserMutex, parserVars, candidateQueue,
                   timerQueue, flushDone, publicationQueue, filterVars,
                   writerEpoch, uartPc>>

\* xSemaphoreTake(s_override_flush_done, portMAX_DELAY).
OverrideAwaitFlush ==
    /\ writerPc = "await"
    /\ flushDone
    /\ flushDone' = FALSE
    /\ writerPc' = "finish"
    /\ UNCHANGED <<overrideVars, parserMutex, parserVars, queueVars,
                   publicationQueue, filterVars, writerEpoch, uartPc>>

\* gnss_input_override_end, last critical section: UART2 owns the parser.
OverrideFinish ==
    /\ writerPc = "finish"
    /\ parserMutex = "free"
    /\ overrideActive' = FALSE
    /\ overrideClosing' = FALSE
    /\ inputEpoch' = EpochAfter(inputEpoch)
    /\ ParserReset
    /\ writerPc' = "idle"
    /\ UNCHANGED <<parserMutex, queueVars, flushDone, publicationQueue,
                   filterVars, writerEpoch, uartPc>>

OverrideEnd ==
    \/ OverrideClose \/ OverrideDiscardStaleAck \/ OverrideSendFlush
    \/ OverrideAwaitFlush \/ OverrideFinish

-----------------------------------------------------------------------------
Next ==
    \/ \E s \in Sources : NmeaParserFeed(s) \/ ParseChunkEnds(s)
    \/ UartSetup \/ UartLock \/ UartRead
    \/ SelectionTimerCallback
    \/ GnssFilterTask
    \/ GnssPublicationReceive
    \/ OverrideBegin \/ OverrideFeed \/ WriteBodyEnds \/ OverrideEnd

Spec == Init /\ [][Next]_vars

\* The scheduler runs every ready task, chunks are finite and the periodic
\* timer keeps expiring.  The two filter steps that compete with the UART2
\* reader for the mutex need strong fairness: the filter has the higher
\* priority and the reader sleeps between chunks, so the mutex is free for
\* the filter again and again.  Nothing is assumed of bytes or of uploads.
Fairness ==
    /\ \A s \in Sources : WF_vars(ParseChunkEnds(s))
    /\ WF_vars(SelectionTimerCallback)
    /\ WF_vars(GnssFilterTask)
    /\ SF_vars(ConsiderCandidate)
    /\ SF_vars(PublishCheck)
    /\ WF_vars(OverrideEnd)

FairSpec == Spec /\ Fairness

-----------------------------------------------------------------------------
(* Properties.                                                             *)

FlagsTypeOK ==
    /\ overrideActive \in BOOLEAN
    /\ overrideClosing \in BOOLEAN
    /\ flushDone \in BOOLEAN
    /\ flushing \in BOOLEAN

InputTypeOK ==
    /\ inputEpoch \in Epochs
    /\ parserMutex \in Sources \cup {"free"}
    /\ sentenceFrom \in SUBSET Sources
    /\ pendingGga \in PendingGga \cup {None}
    /\ writerPc \in WriterPcs
    /\ writerEpoch \in Epochs
    /\ uartPc \in UartPcs

QueuesTypeOK ==
    /\ candidateQueue \in Seq(Candidate)
    /\ Len(candidateQueue) <= CandidateQueueLength
    /\ timerQueue \in 0 .. 1
    /\ controlQueue \in Seq(Epochs)
    /\ Len(controlQueue) <= 1
    /\ filterSet \in Seq(Markers)
    /\ publicationQueue \in Seq(PendingGga)
    /\ Len(publicationQueue) <= 1

FilterTypeOK ==
    /\ filterPc \in FilterPcs
    /\ hand \in Candidate \cup {None}
    /\ best \in Candidate \cup {None}
    /\ controlEpoch \in Epochs
    /\ window \in SUBSET Candidate

\* Every variable keeps to the values its C type and its FreeRTOS object
\* allow: queues stay within their length, the queue set within the sum of
\* its members' lengths.
TypeOK == FlagsTypeOK /\ InputTypeOK /\ QueuesTypeOK /\ FilterTypeOK

\* The number of markers m in the sequence s.
Occurrences(s, m) == Cardinality({i \in DOMAIN s : s[i] = m})

\* Markers of queue m posted and not yet answered by a receive.
Unanswered(m) == Occurrences(filterSet, m) + (IF filterPc = m THEN 1 ELSE 0)

\* The rule the comments in gnss.c insist on: there is exactly one readiness
\* marker for every item of every member queue, whatever the tasks' order, so
\* no receive after a select fails, no queued item is forgotten, and the
\* queue set never overflows.
MarkersMatchItems ==
    /\ Unanswered("candidate") = Len(candidateQueue)
    /\ Unanswered("timer") = timerQueue
    /\ Unanswered("control") = Len(controlQueue)

\* The source whose bytes the parser accepts.
SelectedSource == IF overrideActive THEN "http" ELSE "uart"

\* No sentence and no pending GGA outlives the source that produced it: both
\* switches reset the parser under the mutex that feeding holds.
ParserHoldsSelectedSource ==
    /\ sentenceFrom \subseteq {SelectedSource}
    /\ pendingGga # None => pendingGga.from = {SelectedSource}

\* Every candidate the filter may still use.
LiveCandidates ==
    ({candidateQueue[i] : i \in DOMAIN candidateQueue} \cup {hand, best})
        \ {None}

\* A live candidate of the current epoch comes from the selected source.  A
\* live candidate of another epoch is a UART2 pair of the epoch just before,
\* and only while an upload is active: comparing epochs for equality is
\* therefore enough to tell sources apart, even where the counter wraps.
EpochIdentifiesSource ==
    \A c \in LiveCandidates :
        IF c.epoch = inputEpoch
        THEN c.from = {SelectedSource}
        ELSE /\ overrideActive
             /\ inputEpoch = EpochAfter(c.epoch)
             /\ c.from = {"uart"}

\* When the acknowledgement lets gnss_input_override_end hand the parser back,
\* the filter has considered and published (or discarded) every candidate:
\* nothing of the upload is left to leak into the next UART2 window.
FlushLeavesNothing ==
    (flushDone \/ writerPc = "finish") => LiveCandidates = {}

\* The acknowledgement semaphore is only ever full while the worker waits for
\* it: the "impossible stale acknowledgement" of the code cannot happen.
AcknowledgementIsAwaited == flushDone => writerPc = "await"

\* The pair about to be published has the lowest HDOP of the pairs of its
\* epoch accepted since the last publication, across source switches too.
BestIsLowest ==
    \A c \in window :
        c.epoch = inputEpoch =>
            /\ best # None
            /\ best.epoch = inputEpoch
            /\ best.hdop <= c.hdop

\* The step that overwrites the publication queue.
Publishes == filterPc = "publish" /\ filterPc' # "publish"

\* An uploaded pair is published only while its upload owns the parser: no
\* mock position appears on /stream once UART2 has been given back.
MockOnlyWhileOverridden ==
    [][Publishes /\ "http" \in best.from => overrideActive]_vars

\* What the comments at the input epoch say: pairs queued before a switch of
\* the source are discarded, so each published pair is of the selected source.
PublishesSelectedSource ==
    [][Publishes => best.from = {SelectedSource}]_vars

\* A pair as its consumers see it.
PairOf(c) == [hdop |-> c.hdop, from |-> c.from]

Promise ==
    INSTANCE BestOfWindow WITH
        Pairs <- PendingGga,
        source <- SelectedSource,
        window <- IF filterPc = "publish" THEN {}
                  ELSE {PairOf(c) : c \in {c \in window : c.epoch = inputEpoch}},
        chosen <- IF filterPc = "publish" THEN PairOf(best) ELSE None,
        publication <- publicationQueue

\* Tasks, queues, epochs and the flush handshake together keep the promise of
\* BestOfWindow: each publication is the best of a window of one source, and an
\* upload ends with its last window published.
ImplementsBestOfWindow == Promise!Spec

\* An upload that has ended gives the parser back: the flush handshake between
\* the upload worker and the filter cannot block for ever.
OverrideEnds == (writerPc = "end") ~> (writerPc = "idle")

\* A selected pair is not kept: the timer publishes or discards it.
BestIsPublished == (best # None) ~> (best = None)

\* A queued candidate reaches the filter.
CandidatesDrain == (candidateQueue # <<>>) ~> (filterPc = "consider")
=============================================================================
