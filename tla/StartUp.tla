------------------------------- MODULE StartUp -------------------------------
(***************************************************************************)
(* app_main in main/app_main.c, one call after the other, with the tasks   *)
(* and event sources that run as soon as it has started them: stations     *)
(* join and HTTP requests arrive while it is still going on.  A call that  *)
(* fails aborts, and the device boots again: another behaviour.            *)
(*                                                                         *)
(* The LED indicator and the station events run here in full; of the other *)
(* components, what their tasks and handlers touch: the queues, semaphores *)
(* and timers that the start-up creates.  The stacks' own runs begin with  *)
(* them created.                                                           *)
(***************************************************************************)
EXTENDS Integers, Sequences, FiniteSets

CONSTANTS
    StreamWorkers, Blinks, PendingMax,          \* of LedIndicator
    Stations, MaxStations, EventQueueLength     \* of WifiEvents

ASSUME LedAssumption ==
    /\ IsFiniteSet(StreamWorkers)
    /\ Blinks \in Nat /\ PendingMax \in Nat \ {0}
ASSUME WifiAssumption ==
    /\ IsFiniteSet(Stations)
    /\ MaxStations \in Nat /\ EventQueueLength \in Nat \ {0}

VARIABLES
    done,       \* calls of app_main that have returned
    clients, pending, handle, notified, ledPc, level, toggles, workerPc, owed,
    joined, eventQueue, inHand, reported, stale

Led == INSTANCE LedIndicator
Wifi == INSTANCE WifiEvents

ledVars ==
    <<clients, pending, handle, notified, ledPc, level, toggles, workerPc, owed>>
wifiVars == <<joined, eventQueue, inHand, reported, stale>>
vars == <<done, ledVars, wifiVars>>

-----------------------------------------------------------------------------
(* What app_main calls, in pieces that create resources or start an actor. *)

Create(resources) == [creates |-> resources, starts |-> {}]
Start(actor) == [creates |-> {}, starts |-> {actor}]

LogStreamStackInit == Create({"log_requests", "log_ready"})

\* init_nvs: a partition that cannot be used is erased first, and then it can.
NvsInit == Create({"nvs"})

GenericStackStartTask == Start("led_task")

\* The queue is there before the driver that fills it is started.
WifiEventQueueCreate == Create({"station_events"})
WifiStart == Start("stations")

GnssStackInit ==
    Create({"candidates", "timer_events", "controls", "publications",
            "filter_set", "parser_mutex", "flush_done", "selection_timer"})

\* The trial of a new image, if this boot is one, begins here.
OtaUpdateStackInit ==
    Create({"ota_requests", "ota_ready", "restart_timer", "confirmation_timer"})

HttpQueuesCreate ==
    Create({"stream_requests", "write_requests", "stream_ready", "write_ready",
            "latest_mutex"})
HttpdStart == Start("httpd")

OtaUpdateStartTask == Start("ota_task")
WifiApStartTask == Start("wifi_task")

\* The window timer runs before the antenna is looked for.
GnssFilterStart == Start("filter_task")
SelectionTimerStart == Start("window_timer")
GnssInitStart == Start("uart_task")

\* The loop that creates the stream workers is one piece.
HttpWorkersStart == Start("stream_workers")
HttpWriteWorkerStart == Start("write_task")
HttpStackTaskStart == Start("stack_task")
LogStreamStartTask == Start("log_task")

\* For the mutation runs: the HTTP server comes up before OTA is initialised.
AppMainServesEarly ==
    <<LogStreamStackInit, NvsInit, GenericStackStartTask,
      WifiEventQueueCreate, WifiStart, GnssStackInit,
      HttpQueuesCreate, HttpdStart, OtaUpdateStackInit,
      OtaUpdateStartTask, WifiApStartTask,
      GnssFilterStart, SelectionTimerStart, GnssInitStart,
      HttpWorkersStart, HttpWriteWorkerStart, HttpStackTaskStart,
      LogStreamStartTask>>

AppMain ==
    <<LogStreamStackInit, NvsInit, GenericStackStartTask,
      WifiEventQueueCreate, WifiStart, GnssStackInit, OtaUpdateStackInit,
      HttpQueuesCreate, HttpdStart,
      OtaUpdateStartTask, WifiApStartTask,
      GnssFilterStart, SelectionTimerStart, GnssInitStart,
      HttpWorkersStart, HttpWriteWorkerStart, HttpStackTaskStart,
      LogStreamStartTask>>

Created == UNION {AppMain[i].creates : i \in 1 .. done}
Started == UNION {AppMain[i].starts : i \in 1 .. done}

\* What an actor may touch from its first step on.  The handlers of the HTTP
\* server give the upload, the update and the log their requests, and those
\* of /flash/confirm and /flash/rollback stop and start timers.
Uses(actor) ==
    CASE actor = "stations" -> {"station_events", "nvs"}
      [] actor = "wifi_task" -> {"station_events"}
      [] actor = "httpd" ->
             {"stream_requests", "stream_ready", "write_requests",
              "write_ready", "log_requests", "log_ready", "ota_requests",
              "ota_ready", "restart_timer", "confirmation_timer"}
      [] actor = "ota_task" -> {"ota_requests", "ota_ready", "restart_timer"}
      [] actor = "filter_task" ->
             {"candidates", "timer_events", "controls", "filter_set",
              "parser_mutex", "publications", "flush_done"}
      [] actor = "window_timer" -> {"timer_events", "selection_timer"}
      [] actor = "uart_task" -> {"parser_mutex", "candidates"}
      [] actor = "stream_workers" ->
             {"stream_requests", "stream_ready", "latest_mutex"}
      [] actor = "write_task" ->
             {"write_requests", "write_ready", "parser_mutex", "candidates",
              "controls", "flush_done"}
      [] actor = "stack_task" -> {"publications", "latest_mutex"}
      [] actor = "log_task" -> {"log_requests", "log_ready"}
      [] OTHER -> {}

Init ==
    /\ done = 0
    /\ Led!Init
    /\ Wifi!Init

-----------------------------------------------------------------------------
\* The next call of app_main returns.
AppMainCall ==
    /\ done < Len(AppMain)
    /\ done' = done + 1
    /\ IF AppMain[done + 1].starts = {"led_task"} THEN Led!StartTask
       ELSE UNCHANGED ledVars
    /\ UNCHANGED wifiVars

LedTask ==
    /\ Led!GenericTask
    /\ UNCHANGED <<done, wifiVars>>

StreamWorker(w) ==
    /\ "stream_workers" \in Started
    /\ Led!Worker(w)
    /\ UNCHANGED <<done, wifiVars>>

Station(s) ==
    /\ "stations" \in Started
    /\ Wifi!StationJoins(s) \/ Wifi!StationLeaves(s)
    /\ UNCHANGED <<done, ledVars>>

WifiTask ==
    /\ "wifi_task" \in Started
    /\ Wifi!WifiStackTask
    /\ UNCHANGED <<done, ledVars>>

Next ==
    \/ AppMainCall \/ LedTask \/ WifiTask
    \/ \E w \in StreamWorkers : StreamWorker(w)
    \/ \E s \in Stations : Station(s)

Spec == Init /\ [][Next]_vars

\* The LED task runs, and a worker that is about to wake it does so; stations
\* and clients may do nothing.
FairSpec ==
    /\ Spec
    /\ WF_vars(LedTask)
    /\ \A w \in StreamWorkers : WF_vars(StreamWorker(w) /\ Led!WakeTask(w))

-----------------------------------------------------------------------------
(* Properties.                                                             *)

\* Every variable keeps to the values its C type allows.
TypeOK ==
    /\ done \in 0 .. Len(AppMain)
    /\ Led!TypeOK
    /\ Wifi!TypeOK

\* No task, callback or handler runs before all it may touch is created,
\* though the access point and the server are open before the tasks start.
NothingIsUsedTooEarly == \A actor \in Started : Uses(actor) \subseteq Created

\* LedIndicator's and WifiEvents' invariants, whenever the start-up lets their
\* actors begin.
CountersAreRight == Led!ClientsAreCounted /\ Led!CountedIsOwed
LedIsWoken == Led!NoLostWakeup
ReportsCatchUp == Wifi!ReportsCatchUp

\* When the clients have gone for good, the LED goes off and stays off.
LedSettlesOff == <>[](clients = 0) => <>[](level = 0)
=============================================================================
