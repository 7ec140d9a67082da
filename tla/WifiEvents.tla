----------------------------- MODULE WifiEvents -----------------------------
(***************************************************************************)
(* Station events in main/wifi_ap.c: the handler, in the event loop's      *)
(* task, queues each event without waiting, and wifi_stack_task reports it *)
(* in the log.  An event is a station and whether it joined or left; the   *)
(* event loop calls the handler for every one, in order.                   *)
(***************************************************************************)
EXTENDS Integers, Sequences, FiniteSets

CONSTANTS
    Stations,           \* stations in range
    MaxStations,        \* CONFIG_STREAM_MAX_STA_CONNECTIONS
    EventQueueLength    \* WIFI_EVENT_QUEUE_LENGTH

VARIABLES
    joined,         \* the stations that have joined the access point
    eventQueue,     \* s_wifi_event_queue
    inHand,         \* what wifi_stack_task has received: an event or none
    reported,       \* history: the stations that have joined, says the log
    stale           \* history: the stations whose last event was dropped

vars == <<joined, eventQueue, inHand, reported, stale>>

Events == [station : Stations, joined : BOOLEAN]

Init ==
    /\ joined = {}
    /\ eventQueue = <<>>
    /\ inHand = <<>>
    /\ reported = {}
    /\ stale = {}

-----------------------------------------------------------------------------
(* Faulty variants of definitions below, for the mutation runs.            *)

\* The event goes to the front of the queue.
HandlerSendsToFront(event) ==
    IF Len(eventQueue) < EventQueueLength
    THEN /\ eventQueue' = <<event>> \o eventQueue
         /\ stale' = stale \ {event.station}
    ELSE /\ stale' = stale \cup {event.station}
         /\ UNCHANGED eventQueue

-----------------------------------------------------------------------------
\* wifi_event_handler: xQueueSend without waiting.
WifiEventHandler(event) ==
    IF Len(eventQueue) < EventQueueLength
    THEN /\ eventQueue' = Append(eventQueue, event)
         /\ stale' = stale \ {event.station}
    ELSE /\ stale' = stale \cup {event.station}
         /\ UNCHANGED eventQueue

StationJoins(s) ==
    /\ s \notin joined
    /\ Cardinality(joined) < MaxStations
    /\ joined' = joined \cup {s}
    /\ WifiEventHandler([station |-> s, joined |-> TRUE])
    /\ UNCHANGED <<inHand, reported>>

StationLeaves(s) ==
    /\ s \in joined
    /\ joined' = joined \ {s}
    /\ WifiEventHandler([station |-> s, joined |-> FALSE])
    /\ UNCHANGED <<inHand, reported>>

\* wifi_stack_task: xQueueReceive, then the line in the log.
Receive ==
    /\ inHand = <<>>
    /\ eventQueue # <<>>
    /\ inHand' = <<Head(eventQueue)>>
    /\ eventQueue' = Tail(eventQueue)
    /\ UNCHANGED <<joined, reported, stale>>

Report ==
    /\ inHand # <<>>
    /\ reported' = IF inHand[1].joined
                   THEN reported \cup {inHand[1].station}
                   ELSE reported \ {inHand[1].station}
    /\ inHand' = <<>>
    /\ UNCHANGED <<joined, eventQueue, stale>>

WifiStackTask == Receive \/ Report

-----------------------------------------------------------------------------
(* Properties.                                                             *)

\* Every variable keeps to the values its C type allows, the queue to its
\* length.
TypeOK ==
    /\ joined \in SUBSET Stations
    /\ eventQueue \in Seq(Events) /\ Len(eventQueue) <= EventQueueLength
    /\ inHand \in Seq(Events) /\ Len(inHand) <= 1
    /\ reported \in SUBSET Stations
    /\ stale \in SUBSET Stations

\* What the log will say of station s once everything queued is reported.
WillBeReported(s) ==
    LET queued == {i \in DOMAIN eventQueue : eventQueue[i].station = s}
    IN  IF queued # {}
        THEN \E i \in queued : /\ \A j \in queued : j <= i
                               /\ eventQueue[i].joined
        ELSE IF inHand # <<>> /\ inHand[1].station = s
        THEN inHand[1].joined
        ELSE s \in reported

\* The log ends up saying what is so of every station whose last event was
\* not dropped: a drop makes it wrong about that station only, and only until
\* the station's next event finds room.
ReportsCatchUp == \A s \in Stations \ stale : WillBeReported(s) <=> s \in joined
=============================================================================
