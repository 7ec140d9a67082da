---------------------------- MODULE StartUpProofs ----------------------------
(***************************************************************************)
(* Theorems about StartUp, for every number of workers, stations and       *)
(* blinks and every length of the event queue: the LED task is never left  *)
(* asleep beside something it has to show, and what the log says of the    *)
(* stations catches up with them.                                          *)
(***************************************************************************)
EXTENDS StartUp, FiniteSetTheorems, TLAPS

Woken ==
    notified \/ \E w \in StreamWorkers : workerPc[w] \in {"wakeServing", "wakeIdle"}

\* Workers come after the LED task: while there is no task there are no events,
\* and afterwards its handle is set.
OrderInv ==
    /\ done \in Nat
    /\ done >= 3 => ledPc # "absent"
    /\ ledPc = "absent" =>
          /\ pending = 0
          /\ \A w \in StreamWorkers : workerPc[w] = "idle"
    /\ ledPc # "absent" => handle

\* Where the task has nothing to show, or is woken, at each place it can be
\* before it waits.  A blink that is under way ends with the LED off.
AwakeInv ==
    /\ ledPc \in {"absent", "blink"} => level = toggles % 2
    /\ ledPc = "blink" => pending = 0 \/ Woken
    /\ ledPc = "wait" => (pending = 0 /\ (clients = 0 => level = 0)) \/ Woken
    /\ ledPc = "toggle" => (pending = 0 /\ clients # 0) \/ Woken

LedInv ==
    /\ Led!TypeOK /\ OrderInv /\ AwakeInv
    /\ Led!ClientsAreCounted /\ Led!CountedIsOwed

WifiInv == Wifi!TypeOK /\ Wifi!ReportsCatchUp

IInv ==
    /\ done \in 0 .. Len(AppMain)
    /\ LedInv /\ WifiInv

-----------------------------------------------------------------------------
(* The order of app_main.                                                  *)

\* The third call starts the LED task, and no worker runs before it.
LEMMA LedTaskComesFirst ==
    /\ Len(AppMain) = 18
    /\ AppMain[3].starts = {"led_task"} /\ AppMain[3].creates = {}
    /\ \A n \in Nat : n < 3 => "stream_workers" \notin UNION {AppMain[i].starts : i \in 1 .. n}
  <1>1. Len(AppMain) = 18
    BY DEF AppMain
  <1>3. AppMain[1].starts = {} /\ AppMain[2].starts = {}
    BY DEF AppMain, LogStreamStackInit, NvsInit, Create
  <1>4. AppMain[3].starts = {"led_task"} /\ AppMain[3].creates = {}
    BY DEF AppMain, GenericStackStartTask, Start
  <1>5. ASSUME NEW n \in Nat, n < 3
        PROVE  "stream_workers" \notin UNION {AppMain[i].starts : i \in 1 .. n}
    <2>1. \A i \in 1 .. n : i = 1 \/ i = 2
      BY <1>5
    <2>2. \A i \in 1 .. n : AppMain[i].starts = {}
      BY <1>3, <2>1
    <2> QED
      BY <2>2, Zenon
  <1> QED
    BY <1>1, <1>4, <1>5

\* A worker runs only when the LED task has its handle.
LEMMA WorkersFindTask ==
    ASSUME OrderInv, "stream_workers" \in Started
    PROVE  ledPc # "absent" /\ handle
  <1>1. done \in Nat /\ ~(done < 3)
    BY LedTaskComesFirst, Zenon DEF OrderInv, Started
  <1>2. ledPc # "absent"
    BY <1>1 DEF OrderInv
  <1> QED
    BY <1>2, Zenon DEF OrderInv

\* What each call creates or starts.
LEMMA CallsOfAppMain ==
    /\ DOMAIN AppMain = 1 .. 18
    /\ AppMain[1].starts = {}
    /\ AppMain[1].creates =
           {"log_requests", "log_ready"}
    /\ AppMain[2].starts = {}
    /\ AppMain[2].creates =
           {"nvs"}
    /\ AppMain[3].starts = {"led_task"}
    /\ AppMain[4].starts = {}
    /\ AppMain[4].creates =
           {"station_events"}
    /\ AppMain[5].starts = {"stations"}
    /\ AppMain[6].starts = {}
    /\ AppMain[6].creates =
           {"candidates", "timer_events", "controls", "publications",
            "filter_set", "parser_mutex", "flush_done", "selection_timer"}
    /\ AppMain[7].starts = {}
    /\ AppMain[7].creates =
           {"ota_requests", "ota_ready", "restart_timer", "confirmation_timer"}
    /\ AppMain[8].starts = {}
    /\ AppMain[8].creates =
           {"stream_requests", "write_requests", "stream_ready", "write_ready",
            "latest_mutex"}
    /\ AppMain[9].starts = {"httpd"}
    /\ AppMain[10].starts = {"ota_task"}
    /\ AppMain[11].starts = {"wifi_task"}
    /\ AppMain[12].starts = {"filter_task"}
    /\ AppMain[13].starts = {"window_timer"}
    /\ AppMain[14].starts = {"uart_task"}
    /\ AppMain[15].starts = {"stream_workers"}
    /\ AppMain[16].starts = {"write_task"}
    /\ AppMain[17].starts = {"stack_task"}
    /\ AppMain[18].starts = {"log_task"}
  <1>1. DOMAIN AppMain = 1 .. 18
    BY DEF AppMain
  <1>2. /\ AppMain[1].starts = {}
         /\ AppMain[1].creates =
                     {"log_requests", "log_ready"}
    BY DEF AppMain, LogStreamStackInit, Create
  <1>3. /\ AppMain[2].starts = {}
         /\ AppMain[2].creates =
                     {"nvs"}
    BY DEF AppMain, NvsInit, Create
  <1>4. AppMain[3].starts = {"led_task"}
    BY DEF AppMain, GenericStackStartTask, Start
  <1>5. /\ AppMain[4].starts = {}
         /\ AppMain[4].creates =
                     {"station_events"}
    BY DEF AppMain, WifiEventQueueCreate, Create
  <1>6. AppMain[5].starts = {"stations"}
    BY DEF AppMain, WifiStart, Start
  <1>7. /\ AppMain[6].starts = {}
         /\ AppMain[6].creates =
                     {"candidates", "timer_events", "controls", "publications",
                 "filter_set", "parser_mutex", "flush_done", "selection_timer"}
    BY DEF AppMain, GnssStackInit, Create
  <1>8. /\ AppMain[7].starts = {}
         /\ AppMain[7].creates =
                     {"ota_requests", "ota_ready", "restart_timer", "confirmation_timer"}
    BY DEF AppMain, OtaUpdateStackInit, Create
  <1>9. /\ AppMain[8].starts = {}
         /\ AppMain[8].creates =
                     {"stream_requests", "write_requests", "stream_ready", "write_ready",
                 "latest_mutex"}
    BY DEF AppMain, HttpQueuesCreate, Create
  <1>10. AppMain[9].starts = {"httpd"}
    BY DEF AppMain, HttpdStart, Start
  <1>11. AppMain[10].starts = {"ota_task"}
    BY DEF AppMain, OtaUpdateStartTask, Start
  <1>12. AppMain[11].starts = {"wifi_task"}
    BY DEF AppMain, WifiApStartTask, Start
  <1>13. AppMain[12].starts = {"filter_task"}
    BY DEF AppMain, GnssFilterStart, Start
  <1>14. AppMain[13].starts = {"window_timer"}
    BY DEF AppMain, SelectionTimerStart, Start
  <1>15. AppMain[14].starts = {"uart_task"}
    BY DEF AppMain, GnssInitStart, Start
  <1>16. AppMain[15].starts = {"stream_workers"}
    BY DEF AppMain, HttpWorkersStart, Start
  <1>17. AppMain[16].starts = {"write_task"}
    BY DEF AppMain, HttpWriteWorkerStart, Start
  <1>18. AppMain[17].starts = {"stack_task"}
    BY DEF AppMain, HttpStackTaskStart, Start
  <1>19. AppMain[18].starts = {"log_task"}
    BY DEF AppMain, LogStreamStartTask, Start
  <1> QED
    BY <1>1, <1>2, <1>3, <1>4, <1>5, <1>6, <1>7, <1>8, <1>9, <1>10, <1>11, <1>12, <1>13, <1>14, <1>15, <1>16, <1>17, <1>18, <1>19

\* Whatever a call starts may touch only what earlier calls created.
LEMMA StartedAfterCreated ==
    ASSUME NEW i \in DOMAIN AppMain, NEW actor \in AppMain[i].starts
    PROVE  Uses(actor) \subseteq UNION {AppMain[j].creates : j \in 1 .. i}
  <1> DEFINE Before == UNION {AppMain[j].creates : j \in 1 .. i}
  <1>1. ASSUME NEW j \in 1 .. i
        PROVE  AppMain[j].creates \subseteq Before
    OBVIOUS
  <1> HIDE DEF Before
  <1>2. i \in 1 .. 18
    BY CallsOfAppMain
  <1>3. CASE i = 3
    <2>1. actor = "led_task"
      BY <1>3, CallsOfAppMain
    <2> QED
      BY <2>1 DEF Uses, Before
  <1>4. CASE i = 5
    <2>1. actor = "stations"
      BY <1>4, CallsOfAppMain
    <2>2. AppMain[2].creates \subseteq Before
      BY <1>1, <1>4
    <2>3. AppMain[4].creates \subseteq Before
      BY <1>1, <1>4
    <2> QED
      BY <2>1, <2>2, <2>3, CallsOfAppMain DEF Uses, Before
  <1>5. CASE i = 9
    <2>1. actor = "httpd"
      BY <1>5, CallsOfAppMain
    <2>2. AppMain[1].creates \subseteq Before
      BY <1>1, <1>5
    <2>3. AppMain[7].creates \subseteq Before
      BY <1>1, <1>5
    <2>4. AppMain[8].creates \subseteq Before
      BY <1>1, <1>5
    <2> QED
      BY <2>1, <2>2, <2>3, <2>4, CallsOfAppMain DEF Uses, Before
  <1>6. CASE i = 10
    <2>1. actor = "ota_task"
      BY <1>6, CallsOfAppMain
    <2>2. AppMain[7].creates \subseteq Before
      BY <1>1, <1>6
    <2> QED
      BY <2>1, <2>2, CallsOfAppMain DEF Uses, Before
  <1>7. CASE i = 11
    <2>1. actor = "wifi_task"
      BY <1>7, CallsOfAppMain
    <2>2. AppMain[4].creates \subseteq Before
      BY <1>1, <1>7
    <2> QED
      BY <2>1, <2>2, CallsOfAppMain DEF Uses, Before
  <1>8. CASE i = 12
    <2>1. actor = "filter_task"
      BY <1>8, CallsOfAppMain
    <2>2. AppMain[6].creates \subseteq Before
      BY <1>1, <1>8
    <2> QED
      BY <2>1, <2>2, CallsOfAppMain DEF Uses, Before
  <1>9. CASE i = 13
    <2>1. actor = "window_timer"
      BY <1>9, CallsOfAppMain
    <2>2. AppMain[6].creates \subseteq Before
      BY <1>1, <1>9
    <2> QED
      BY <2>1, <2>2, CallsOfAppMain DEF Uses, Before
  <1>10. CASE i = 14
    <2>1. actor = "uart_task"
      BY <1>10, CallsOfAppMain
    <2>2. AppMain[6].creates \subseteq Before
      BY <1>1, <1>10
    <2> QED
      BY <2>1, <2>2, CallsOfAppMain DEF Uses, Before
  <1>11. CASE i = 15
    <2>1. actor = "stream_workers"
      BY <1>11, CallsOfAppMain
    <2>2. AppMain[8].creates \subseteq Before
      BY <1>1, <1>11
    <2> QED
      BY <2>1, <2>2, CallsOfAppMain DEF Uses, Before
  <1>12. CASE i = 16
    <2>1. actor = "write_task"
      BY <1>12, CallsOfAppMain
    <2>2. AppMain[6].creates \subseteq Before
      BY <1>1, <1>12
    <2>3. AppMain[8].creates \subseteq Before
      BY <1>1, <1>12
    <2> QED
      BY <2>1, <2>2, <2>3, CallsOfAppMain DEF Uses, Before
  <1>13. CASE i = 17
    <2>1. actor = "stack_task"
      BY <1>13, CallsOfAppMain
    <2>2. AppMain[6].creates \subseteq Before
      BY <1>1, <1>13
    <2>3. AppMain[8].creates \subseteq Before
      BY <1>1, <1>13
    <2> QED
      BY <2>1, <2>2, <2>3, CallsOfAppMain DEF Uses, Before
  <1>14. CASE i = 18
    <2>1. actor = "log_task"
      BY <1>14, CallsOfAppMain
    <2>2. AppMain[1].creates \subseteq Before
      BY <1>1, <1>14
    <2> QED
      BY <2>1, <2>2, CallsOfAppMain DEF Uses, Before
  <1>15. CASE i \in {1, 2, 4, 6, 7, 8}
    BY <1>15, CallsOfAppMain
  <1> QED
    BY <1>2, <1>3, <1>4, <1>5, <1>6, <1>7, <1>8, <1>9, <1>10, <1>11, <1>12, <1>13, <1>14, <1>15 DEF Before

\* So no actor that runs finds a resource missing.
LEMMA ResourcesAreThere ==
    ASSUME done \in 0 .. Len(AppMain)
    PROVE  NothingIsUsedTooEarly
  <1> SUFFICES ASSUME NEW actor \in Started
               PROVE  Uses(actor) \subseteq Created
    BY DEF NothingIsUsedTooEarly
  <1>1. PICK i \in 1 .. done : actor \in AppMain[i].starts
    BY DEF Started
  <1>2. i \in DOMAIN AppMain
    BY LedTaskComesFirst, CallsOfAppMain
  <1>3. 1 .. i \subseteq 1 .. done
    BY LedTaskComesFirst
  <1>4. UNION {AppMain[j].creates : j \in 1 .. i} \subseteq Created
    BY <1>3 DEF Created
  <1> QED
    BY <1>1, <1>2, <1>4, StartedAfterCreated

-----------------------------------------------------------------------------
(* LedIndicator.                                                           *)

\* LedIndicator's Cardinality is the one the theorems are about.
LEMMA LedCardinality ==
    ASSUME NEW S
    PROVE  Led!Cardinality(S) = Cardinality(S)
  BY DEF Led!Cardinality, Cardinality

\* Workers with a client are finitely many.
LEMMA ConnectedIsFinite ==
    /\ IsFiniteSet(Led!Connected)
    /\ Cardinality(Led!Connected) \in 0 .. Cardinality(StreamWorkers)
  <1>1. Led!Connected \subseteq StreamWorkers
    BY DEF Led!Connected
  <1> QED
    BY <1>1, LedAssumption, FS_Subset, FS_CardinalityType

LEMMA LedInit ==
    ASSUME Init
    PROVE  LedInv
  <1> USE LedCardinality DEF Init, Led!Init
  <1>1. Led!Connected = {}
    BY DEF Led!Connected
  <1>2. Led!ClientsAreCounted
    BY <1>1, FS_EmptySet DEF Led!ClientsAreCounted
  <1>3. Led!TypeOK
    <2>1. Cardinality(StreamWorkers) \in Nat
      BY LedAssumption, FS_CardinalityType
    <2>2. workerPc \in [StreamWorkers -> {"idle", "serving", "wakeServing", "wakeIdle"}]
      OBVIOUS
    <2>3. clients \in 0 .. Led!Cardinality(StreamWorkers)
      BY <2>1
    <2>4. pending \in 0 .. PendingMax /\ toggles \in Nat /\ owed \in Nat /\ level \in {0, 1}
      BY LedAssumption
    <2>5. handle \in BOOLEAN /\ notified \in BOOLEAN
      OBVIOUS
    <2>6. ledPc \in {"absent", "blink", "wait", "copy", "toggle"}
      OBVIOUS
    <2> HIDE DEF Init
    <2> QED
      BY <2>2, <2>3, <2>4, <2>5, <2>6, Zenon DEF Led!TypeOK
  <1>4. OrderInv /\ AwakeInv /\ Led!CountedIsOwed
    BY LedAssumption DEF OrderInv, AwakeInv, Led!CountedIsOwed
  <1> QED
    BY <1>2, <1>3, <1>4 DEF LedInv

\* The number of clients follows a worker that begins or ends a response.
LEMMA ConnectedStep ==
    ASSUME LedInv, NEW w \in StreamWorkers,
           Led!ClientConnected(w) \/ Led!ClientDisconnected(w)
    PROVE  /\ clients' = Cardinality(Led!Connected')
           /\ clients' \in 0 .. Cardinality(StreamWorkers)
           /\ Led!ClientDisconnected(w) => clients' = clients - 1
  <1> USE DEF Led!Connected
  <1>1. clients = Cardinality(Led!Connected) /\ IsFiniteSet(Led!Connected)
    BY ConnectedIsFinite, LedCardinality DEF LedInv, Led!ClientsAreCounted
  <1>2. workerPc \in [StreamWorkers -> {"idle", "serving", "wakeServing", "wakeIdle"}]
    BY DEF LedInv, Led!TypeOK
  <1>3. CASE Led!ClientConnected(w)
    <2>1. w \notin Led!Connected /\ Led!Connected' = Led!Connected \cup {w}
      BY <1>2, <1>3 DEF Led!ClientConnected
    <2>2. clients' = clients + 1
      BY <1>3 DEF Led!ClientConnected
    <2>3. clients' = Cardinality(Led!Connected')
      BY <1>1, <2>1, <2>2, FS_AddElement
    <2>4. Led!Connected' \subseteq StreamWorkers
      OBVIOUS
    <2> HIDE DEF Led!Connected
    <2>5. clients' \in 0 .. Cardinality(StreamWorkers)
      BY <2>3, <2>4, LedAssumption, FS_Subset, FS_CardinalityType
    <2> QED
      BY <1>3, <2>3, <2>5 DEF Led!ClientConnected, Led!ClientDisconnected
  <1>4. CASE Led!ClientDisconnected(w)
    <2>1. w \in Led!Connected /\ Led!Connected' = Led!Connected \ {w}
      BY <1>2, <1>4 DEF Led!ClientDisconnected
    <2>2. Cardinality(Led!Connected) # 0
      BY <1>1, <2>1, FS_EmptySet
    <2>3. clients' = clients - 1
      BY <1>1, <1>4, <2>2, ConnectedIsFinite DEF Led!ClientDisconnected
    <2>4. Cardinality(Led!Connected \ {w}) = Cardinality(Led!Connected) - 1
      BY <1>1, <2>1, FS_RemoveElement
    <2>5. clients \in 0 .. Cardinality(StreamWorkers) /\ clients # 0
      BY <1>1, <2>2, ConnectedIsFinite
    <2>6. Cardinality(StreamWorkers) \in Nat
      BY LedAssumption, FS_CardinalityType
    <2>7. clients' \in 0 .. Cardinality(StreamWorkers)
      BY <2>3, <2>5, <2>6
    <2>8. clients' = Cardinality(Led!Connected')
      BY <1>1, <2>1, <2>3, <2>4
    <2> QED
      BY <2>3, <2>7, <2>8
  <1> QED
    BY <1>3, <1>4

\* A worker's step keeps the invariant; it runs only after the task's start.
LEMMA WorkerStep ==
    ASSUME LedInv, NEW w \in StreamWorkers, Led!Worker(w),
           "stream_workers" \in Started, UNCHANGED done
    PROVE  LedInv'
  <1> USE DEF LedInv
  <1>1. ledPc # "absent" /\ handle
    BY WorkersFindTask
  <1>2. workerPc \in [StreamWorkers -> {"idle", "serving", "wakeServing", "wakeIdle"}]
    BY DEF Led!TypeOK
  <1>3. clients \in Nat /\ pending \in 0 .. PendingMax /\ PendingMax \in Nat
    BY LedAssumption, LedCardinality, FS_CardinalityType DEF Led!TypeOK
  <1>4. CASE Led!ClientConnected(w) \/ Led!ClientDisconnected(w)
    <2> USE <1>4 DEF Led!ClientConnected, Led!ClientDisconnected
    <2>1. clients' = Cardinality(Led!Connected') /\ clients' \in 0 .. Cardinality(StreamWorkers)
      BY ConnectedStep
    <2>2. workerPc' \in [StreamWorkers -> {"idle", "serving", "wakeServing", "wakeIdle"}]
      BY <1>2
    <2>3. Woken'
      <3>1. workerPc'[w] \in {"wakeServing", "wakeIdle"}
        BY <1>2
      <3> QED
        BY <3>1 DEF Woken
    <2>4. Led!TypeOK'
      BY <2>1, <2>2, LedCardinality DEF Led!TypeOK
    <2>5. OrderInv' /\ Led!CountedIsOwed'
      BY <1>1 DEF OrderInv, Led!CountedIsOwed
    <2>6. AwakeInv'
      BY <1>1, <2>3 DEF AwakeInv
    <2> QED
      BY <2>1, <2>4, <2>5, <2>6, LedCardinality DEF Led!ClientsAreCounted
  <1>5. CASE Led!PacketConsumed(w) \/ Led!WakeTask(w)
    <2> USE <1>5 DEF Led!PacketConsumed, Led!WakeTask
    <2>1. workerPc' \in [StreamWorkers -> {"idle", "serving", "wakeServing", "wakeIdle"}]
      BY <1>2
    <2>2. Led!Connected' = Led!Connected /\ clients' = clients
      BY <1>2 DEF Led!Connected
    <2>3. Woken'
      <3>1. CASE Led!PacketConsumed(w)
        <4>1. workerPc'[w] = "wakeServing"
          BY <1>2, <3>1
        <4> QED
          BY <4>1 DEF Woken
      <3>2. CASE Led!WakeTask(w)
        BY <1>1, <3>2 DEF Woken
      <3> QED
        BY <1>5, <3>1, <3>2
    <2>4. \/ pending' = pending /\ owed' = owed
          \/ pending' = pending + 1 /\ owed' = owed + 1 /\ pending < PendingMax
      BY <1>3
    <2>5. notified' \in BOOLEAN
      BY DEF Led!TypeOK
    <2>6. Led!TypeOK'
      <3>1. pending' \in 0 .. PendingMax /\ owed' \in Nat
        BY <1>3, <2>4 DEF Led!TypeOK
      <3> QED
        BY <2>1, <2>2, <2>5, <3>1 DEF Led!TypeOK
    <2>7. OrderInv'
      BY <1>1 DEF OrderInv
    <2>8. Led!CountedIsOwed'
      <3>1. owed \in Nat /\ toggles \in Nat /\ ledPc' = ledPc /\ toggles' = toggles
        BY DEF Led!TypeOK
      <3>3. owed = pending + (IF ledPc = "toggle" THEN toggles ELSE 0)
        BY DEF Led!CountedIsOwed
      <3> HIDE <1>5 DEF LedInv, Led!PacketConsumed, Led!WakeTask
      <3>4. PICK n \in Nat : n = IF ledPc = "toggle" THEN toggles ELSE 0
        BY <3>1
      <3>5. owed = pending + n
        BY <3>3, <3>4
      <3>6. owed' = pending' + n
        BY <1>3, <2>4, <3>1, <3>5
      <3> QED
        BY <3>1, <3>4, <3>6 DEF Led!CountedIsOwed
    <2>9. AwakeInv'
      BY <1>1, <2>3 DEF AwakeInv
    <2> QED
      BY <2>2, <2>6, <2>7, <2>8, <2>9 DEF Led!ClientsAreCounted
  <1> QED
    BY <1>4, <1>5 DEF Led!Worker

\* So does a step of the task, and its start, which is the third call.
LEMMA TaskStep ==
    ASSUME LedInv,
           \/ Led!GenericTask /\ UNCHANGED done
           \/ Led!StartTask /\ done' \in Nat
    PROVE  LedInv'
  <1> USE DEF LedInv
  <1>1. /\ clients \in Nat /\ pending \in 0 .. PendingMax /\ PendingMax \in Nat
        /\ toggles \in Nat /\ owed \in Nat
    BY LedAssumption, LedCardinality, FS_CardinalityType DEF Led!TypeOK
  <1>2. UNCHANGED <<clients, workerPc>>
    BY DEF Led!GenericTask, Led!Blink, Led!TakeNotification, Led!CopyCounters,
           Led!Toggle, Led!StartTask
  <1>3. Led!Connected' = Led!Connected /\ Led!ClientsAreCounted'
    BY <1>2 DEF Led!Connected, Led!ClientsAreCounted
  <1>4. Led!TypeOK' /\ Led!CountedIsOwed' /\ OrderInv' /\ AwakeInv'
    <2>1. CASE Led!StartTask /\ done' \in Nat
      BY <1>1, <2>1 DEF Led!StartTask, Led!TypeOK, Led!CountedIsOwed, OrderInv,
                        AwakeInv, Woken
    <2>2. CASE Led!Blink /\ UNCHANGED done
      BY <1>1, <2>2 DEF Led!Blink, Led!TypeOK, Led!CountedIsOwed, OrderInv,
                        AwakeInv, Woken
    <2>3. CASE Led!TakeNotification /\ UNCHANGED done
      BY <1>1, <2>3 DEF Led!TakeNotification, Led!TypeOK, Led!CountedIsOwed,
                        OrderInv, AwakeInv, Woken
    <2>4. CASE Led!CopyCounters /\ UNCHANGED done
      BY <1>1, <2>4 DEF Led!CopyCounters, Led!TypeOK, Led!CountedIsOwed,
                        OrderInv, AwakeInv, Woken
    <2>5. CASE Led!Toggle /\ UNCHANGED done
      BY <1>1, <2>5 DEF Led!Toggle, Led!TypeOK, Led!CountedIsOwed, OrderInv,
                        AwakeInv, Woken
    <2> QED
      BY <2>1, <2>2, <2>3, <2>4, <2>5 DEF Led!GenericTask
  <1> QED
    BY <1>3, <1>4

\* Other steps leave it alone.
LEMMA Unmoved ==
    ASSUME LedInv, UNCHANGED ledVars,
           done' \in Nat, done' >= 3 => done >= 3
    PROVE  LedInv'
  <1> USE DEF LedInv, ledVars
  <1>1. Led!TypeOK'
    BY DEF Led!TypeOK
  <1>2. OrderInv'
    BY DEF OrderInv
  <1>3. AwakeInv'
    BY DEF AwakeInv, Woken
  <1>4. Led!ClientsAreCounted' /\ Led!CountedIsOwed'
    BY DEF Led!ClientsAreCounted, Led!Connected, Led!CountedIsOwed
  <1> QED
    BY <1>1, <1>2, <1>3, <1>4

\* A call of app_main that does not start the task only moves `done`.
LEMMA CallStep ==
    ASSUME done \in 0 .. Len(AppMain), LedInv, AppMainCall
    PROVE  LedInv' /\ done' \in 0 .. Len(AppMain)
  <1>1. done' \in 0 .. Len(AppMain)
    BY LedTaskComesFirst DEF AppMainCall
  <1>2. CASE Led!StartTask
    BY <1>1, <1>2, LedTaskComesFirst, TaskStep
  <1>3. CASE UNCHANGED ledVars
    <2>1. done' >= 3 => done >= 3
      <3>1. CASE done = 2
        <4>1. AppMain[done + 1] = AppMain[3]
          BY <3>1
        <4>2. Led!StartTask
          BY <4>1, LedTaskComesFirst DEF AppMainCall
        <4> QED
          BY <1>3, <4>2 DEF Led!StartTask, ledVars
      <3> QED
        BY <3>1, LedTaskComesFirst DEF AppMainCall
    <2>2. done' \in Nat
      BY <1>1, LedTaskComesFirst
    <2> QED
      BY <1>1, <1>3, <2>1, <2>2, Unmoved
  <1> QED
    BY <1>1, <1>2, <1>3 DEF AppMainCall

-----------------------------------------------------------------------------
(* WifiEvents.                                                             *)

\* What a queue of events says of a station, if anything.
Queued(q, s) == {i \in DOMAIN q : q[i].station = s}
LastSays(q, s) ==
    \E i \in Queued(q, s) : (\A j \in Queued(q, s) : j <= i) /\ q[i].joined

Says(q, hand, log, s) ==
    IF Queued(q, s) # {} THEN LastSays(q, s)
    ELSE IF hand # <<>> /\ hand[1].station = s THEN hand[1].joined
    ELSE s \in log

LEMMA WillBeReportedIs ==
    ASSUME NEW s \in Stations
    PROVE  /\ Wifi!WillBeReported(s) <=> Says(eventQueue, inHand, reported, s)
           /\ Wifi!WillBeReported(s)' <=> Says(eventQueue', inHand', reported', s)
  BY DEF Wifi!WillBeReported, Says, Queued, LastSays

\* An event that is appended is the last of its station.
LEMMA AppendEvent ==
    ASSUME NEW q \in Seq(Wifi!Events), NEW e \in Wifi!Events, NEW s \in Stations
    PROVE  /\ s = e.station => /\ Queued(Append(q, e), s) # {}
                               /\ LastSays(Append(q, e), s) <=> e.joined
           /\ s # e.station => /\ Queued(Append(q, e), s) = Queued(q, s)
                               /\ LastSays(Append(q, e), s) <=> LastSays(q, s)
  <1> DEFINE r == Append(q, e)
  <1>1. /\ Len(r) = Len(q) + 1 /\ Len(q) \in Nat
        /\ DOMAIN r = 1 .. Len(q) + 1 /\ DOMAIN q = 1 .. Len(q)
        /\ r[Len(q) + 1] = e /\ \A i \in 1 .. Len(q) : r[i] = q[i]
    OBVIOUS
  <1> HIDE DEF r
  <1>2. CASE s = e.station
    <2>1. Len(q) + 1 \in Queued(r, s) /\ \A j \in Queued(r, s) : j <= Len(q) + 1
      BY <1>1, <1>2 DEF Queued
    <2>2. \A i \in Queued(r, s) :
              (\A j \in Queued(r, s) : j <= i) => i = Len(q) + 1
      BY <1>1, <2>1 DEF Queued
    <2> QED
      BY <1>1, <1>2, <2>1, <2>2 DEF LastSays, r
  <1>3. CASE s # e.station
    <2>1. Queued(r, s) = Queued(q, s)
      BY <1>1, <1>3 DEF Queued
    <2>2. \A i \in Queued(q, s) : r[i] = q[i]
      BY <1>1 DEF Queued
    <2> QED
      BY <1>3, <2>1, <2>2 DEF LastSays, r
  <1> QED
    BY <1>2, <1>3

\* Without its first event, a queue says the same of every station of which
\* it still says something.
LEMMA RemoveEvent ==
    ASSUME NEW q \in Seq(Wifi!Events), q # <<>>, NEW s \in Stations
    PROVE  /\ Queued(Tail(q), s) # {} => /\ Queued(q, s) # {}
                                         /\ LastSays(Tail(q), s) <=> LastSays(q, s)
           /\ Queued(Tail(q), s) = {} =>
                IF Head(q).station = s
                THEN Queued(q, s) # {} /\ (LastSays(q, s) <=> Head(q).joined)
                ELSE Queued(q, s) = {}
  <1> DEFINE t == Tail(q)
  <1>1. /\ Len(q) \in Nat \ {0} /\ DOMAIN q = 1 .. Len(q)
        /\ DOMAIN t = 1 .. Len(q) - 1 /\ Head(q) = q[1]
        /\ \A i \in 1 .. Len(q) - 1 : t[i] = q[i + 1]
    OBVIOUS
  <1> HIDE DEF t
  <1>2. \A i \in 1 .. Len(q) - 1 : i \in Queued(t, s) <=> i + 1 \in Queued(q, s)
    BY <1>1 DEF Queued
  <1>3. \A i \in Queued(q, s) : i = 1 \/ (i - 1 \in Queued(t, s) /\ t[i - 1] = q[i])
    BY <1>1 DEF Queued
  <1>4. CASE Queued(t, s) # {}
    <2>1. Queued(q, s) # {}
      BY <1>1, <1>2, <1>4 DEF Queued
    <2>2. ASSUME LastSays(t, s) PROVE LastSays(q, s)
      <3>1. PICK i \in Queued(t, s) : (\A j \in Queued(t, s) : j <= i) /\ t[i].joined
        BY <2>2 DEF LastSays
      <3>2. i \in 1 .. Len(q) - 1 /\ i + 1 \in Queued(q, s) /\ q[i + 1].joined
        BY <1>1, <1>2, <3>1 DEF Queued
      <3>3. \A j \in Queued(q, s) : j <= i + 1
        BY <1>1, <1>3, <3>1, <3>2 DEF Queued
      <3> QED
        BY <3>2, <3>3 DEF LastSays
    <2>3. ASSUME LastSays(q, s) PROVE LastSays(t, s)
      <3>1. PICK i \in Queued(q, s) : (\A j \in Queued(q, s) : j <= i) /\ q[i].joined
        BY <2>3 DEF LastSays
      <3>2. PICK k \in Queued(t, s) : TRUE
        BY <1>4
      <3>3. k \in 1 .. Len(q) - 1 /\ k + 1 <= i /\ i \in 1 .. Len(q)
        BY <1>1, <1>2, <3>1, <3>2 DEF Queued
      <3>4. i - 1 \in Queued(t, s) /\ t[i - 1].joined
        BY <1>3, <3>1, <3>3
      <3>5. ASSUME NEW j \in Queued(t, s) PROVE j <= i - 1
        <4>1. j \in 1 .. Len(q) - 1
          BY <1>1 DEF Queued
        <4>2. j + 1 <= i
          BY <1>2, <3>1, <4>1
        <4> QED
          BY <3>3, <4>1, <4>2
      <3> QED
        BY <3>4, <3>5 DEF LastSays
    <2> QED
      BY <1>4, <2>1, <2>2, <2>3 DEF t
  <1>5. CASE Queued(t, s) = {}
    <2>1. \A i \in Queued(q, s) : i = 1
      BY <1>3, <1>5
    <2>2. Head(q).station = s <=> 1 \in Queued(q, s)
      BY <1>1 DEF Queued
    <2>3. Head(q).station = s => (LastSays(q, s) <=> Head(q).joined)
      BY <1>1, <2>1, <2>2 DEF LastSays
    <2> QED
      BY <1>5, <2>1, <2>2, <2>3 DEF t
  <1> QED
    BY <1>4, <1>5

\* Whatever becomes of an event, the handler leaves the log right about every
\* station whose last event is queued.
LEMMA HandlerStep ==
    ASSUME WifiInv, NEW e \in Wifi!Events, Wifi!WifiEventHandler(e),
           UNCHANGED <<inHand, reported>>,
           \A s \in Stations : s \in joined' <=> IF s = e.station THEN e.joined
                                                 ELSE s \in joined
    PROVE  /\ eventQueue' \in Seq(Wifi!Events) /\ Len(eventQueue') <= EventQueueLength
           /\ stale' \in SUBSET Stations
           /\ Wifi!ReportsCatchUp'
  <1> USE DEF WifiInv
  <1>1. eventQueue \in Seq(Wifi!Events) /\ Len(eventQueue) <= EventQueueLength
        /\ stale \in SUBSET Stations /\ e.station \in Stations
    BY DEF Wifi!TypeOK, Wifi!Events
  <1>2. CASE Len(eventQueue) < EventQueueLength
    <2>1. eventQueue' = Append(eventQueue, e) /\ stale' = stale \ {e.station}
      BY <1>2 DEF Wifi!WifiEventHandler
    <2>2. Len(Append(eventQueue, e)) = Len(eventQueue) + 1
          /\ Append(eventQueue, e) \in Seq(Wifi!Events) /\ Len(eventQueue) \in Nat
      BY <1>1
    <2>3. ASSUME NEW s \in Stations \ stale'
          PROVE  Wifi!WillBeReported(s)' <=> s \in joined'
      <3>1. CASE s = e.station
        <4>1. Says(eventQueue', inHand', reported', s) <=> e.joined
          BY <1>1, <2>1, <3>1, AppendEvent DEF Says
        <4> QED
          BY <3>1, <4>1, WillBeReportedIs
      <3>2. CASE s # e.station
        <4>1. Says(eventQueue', inHand', reported', s)
              <=> Says(eventQueue, inHand, reported, s)
          BY <1>1, <2>1, <3>2, AppendEvent DEF Says
        <4>2. s \in Stations \ stale
          BY <2>1, <3>2
        <4> QED
          BY <3>2, <4>1, <4>2, WillBeReportedIs DEF Wifi!ReportsCatchUp
      <3> QED
        BY <3>1, <3>2
    <2> QED
      BY <1>1, <1>2, <2>1, <2>2, <2>3, WifiAssumption DEF Wifi!ReportsCatchUp
  <1>3. CASE ~(Len(eventQueue) < EventQueueLength)
    <2>1. eventQueue' = eventQueue /\ stale' = stale \cup {e.station}
      BY <1>3 DEF Wifi!WifiEventHandler
    <2> QED
      BY <1>1, <2>1 DEF Wifi!ReportsCatchUp, Wifi!WillBeReported
  <1> QED
    BY <1>2, <1>3

LEMMA WifiStep ==
    ASSUME WifiInv,
           \/ \E s \in Stations : Wifi!StationJoins(s) \/ Wifi!StationLeaves(s)
           \/ Wifi!WifiStackTask
    PROVE  WifiInv'
  <1> USE DEF WifiInv
  <1>1. CASE \E s \in Stations : Wifi!StationJoins(s) \/ Wifi!StationLeaves(s)
    <2>1. PICK s \in Stations : Wifi!StationJoins(s) \/ Wifi!StationLeaves(s)
      BY <1>1
    <2>2. PICK e \in Wifi!Events :
             /\ Wifi!WifiEventHandler(e)
             /\ UNCHANGED <<inHand, reported>>
             /\ joined' = IF e.joined THEN joined \cup {e.station}
                          ELSE joined \ {e.station}
      <3>1. CASE Wifi!StationJoins(s)
        <4> DEFINE e == [station |-> s, joined |-> TRUE]
        <4>1. e \in Wifi!Events /\ e.joined /\ e.station = s
          BY DEF Wifi!Events
        <4> QED
          BY <3>1, <4>1 DEF Wifi!StationJoins
      <3>2. CASE Wifi!StationLeaves(s)
        <4> DEFINE e == [station |-> s, joined |-> FALSE]
        <4>1. e \in Wifi!Events /\ ~e.joined /\ e.station = s
          BY DEF Wifi!Events
        <4> QED
          BY <3>2, <4>1 DEF Wifi!StationLeaves
      <3> QED
        BY <2>1, <3>1, <3>2
    <2>3. e.station \in Stations
      BY DEF Wifi!Events
    <2>4. \A t \in Stations : t \in joined' <=> IF t = e.station THEN e.joined
                                                ELSE t \in joined
      BY <2>2
    <2> QED
      BY <2>2, <2>3, <2>4, HandlerStep DEF Wifi!TypeOK
  <1>2. CASE Wifi!Receive
    <2>1. eventQueue' = Tail(eventQueue) /\ inHand = <<>>
          /\ inHand' = <<Head(eventQueue)>> /\ eventQueue # <<>>
          /\ UNCHANGED <<joined, reported, stale>>
      BY <1>2 DEF Wifi!Receive
    <2>2. eventQueue \in Seq(Wifi!Events) /\ Len(eventQueue) \in Nat \ {0}
      BY <2>1 DEF Wifi!TypeOK
    <2>3. Wifi!TypeOK'
      BY <2>1, <2>2, WifiAssumption DEF Wifi!TypeOK
    <2>4. ASSUME NEW s \in Stations \ stale'
          PROVE  Wifi!WillBeReported(s)' <=> s \in joined'
      <3>1. Says(eventQueue', inHand', reported', s)
            <=> Says(eventQueue, inHand, reported, s)
        BY <2>1, <2>2, RemoveEvent DEF Says
      <3> QED
        BY <2>1, <3>1, WillBeReportedIs DEF Wifi!ReportsCatchUp
    <2> QED
      BY <2>3, <2>4 DEF Wifi!ReportsCatchUp
  <1>3. CASE Wifi!Report
    <2> DEFINE e == inHand[1]
    <2>1. /\ inHand # <<>> /\ inHand' = <<>>
          /\ reported' = IF e.joined THEN reported \cup {e.station}
                         ELSE reported \ {e.station}
          /\ UNCHANGED <<joined, eventQueue, stale>>
      BY <1>3 DEF Wifi!Report
    <2>2. e \in Wifi!Events /\ e.station \in Stations
      <3>1. inHand \in Seq(Wifi!Events) /\ Len(inHand) \in Nat \ {0}
        BY <2>1 DEF Wifi!TypeOK
      <3>2. e \in Wifi!Events
        BY <3>1
      <3> QED
        BY <3>2 DEF Wifi!Events
    <2>3. Wifi!TypeOK'
      BY <2>1, <2>2 DEF Wifi!TypeOK
    <2>4. ASSUME NEW s \in Stations \ stale'
          PROVE  Wifi!WillBeReported(s)' <=> s \in joined'
      <3>1. Says(eventQueue', inHand', reported', s)
            <=> Says(eventQueue, inHand, reported, s)
        BY <2>1 DEF Says
      <3> QED
        BY <2>1, <3>1, WillBeReportedIs DEF Wifi!ReportsCatchUp
    <2> QED
      BY <2>3, <2>4 DEF Wifi!ReportsCatchUp
  <1> QED
    BY <1>1, <1>2, <1>3 DEF Wifi!WifiStackTask

LEMMA WifiInit ==
    ASSUME Init
    PROVE  WifiInv
  <1> USE DEF Init, Wifi!Init
  <1>1. Wifi!TypeOK
    BY WifiAssumption DEF Wifi!TypeOK
  <1>2. Wifi!ReportsCatchUp
    BY WillBeReportedIs DEF Wifi!ReportsCatchUp, Says, Queued
  <1> QED
    BY <1>1, <1>2 DEF WifiInv

-----------------------------------------------------------------------------
(* The two together with the start-up.                                     *)

LEMMA Initially == Init => IInv
  <1> SUFFICES ASSUME Init PROVE IInv
    OBVIOUS
  <1>1. done \in 0 .. Len(AppMain)
    BY LedTaskComesFirst DEF Init
  <1> QED
    BY <1>1, LedInit, WifiInit DEF IInv

LEMMA Inductive == IInv /\ [Next]_vars => IInv'
  <1> SUFFICES ASSUME IInv, [Next]_vars PROVE IInv'
    OBVIOUS
  <1> USE DEF IInv
  <1>1. LedInv /\ WifiInv
    OBVIOUS
  <1>2. CASE AppMainCall
    <2>1. LedInv' /\ done' \in 0 .. Len(AppMain)
      BY <1>2, CallStep
    <2>2. WifiInv'
      BY <1>1, <1>2 DEF AppMainCall, wifiVars, WifiInv, Wifi!TypeOK,
             Wifi!ReportsCatchUp, Wifi!WillBeReported
    <2> QED
      BY <2>1, <2>2
  <1>3. CASE LedTask \/ \E w \in StreamWorkers : StreamWorker(w)
    <2>1. LedInv'
      <3>1. CASE LedTask
        BY <1>1, <3>1, TaskStep DEF LedTask
      <3>2. CASE \E w \in StreamWorkers : StreamWorker(w)
        BY <1>1, <3>2, WorkerStep DEF StreamWorker
      <3> QED
        BY <1>3, <3>1, <3>2
    <2>2. UNCHANGED <<done, wifiVars>>
      BY <1>3 DEF LedTask, StreamWorker
    <2>3. WifiInv'
      BY <1>1, <2>2 DEF wifiVars, WifiInv, Wifi!TypeOK, Wifi!ReportsCatchUp,
             Wifi!WillBeReported
    <2> QED
      BY <2>1, <2>2, <2>3
  <1>4. CASE WifiTask \/ \E s \in Stations : Station(s)
    <2>1. WifiInv'
      BY <1>1, <1>4, WifiStep DEF WifiTask, Station
    <2>2. UNCHANGED <<done, ledVars>>
      BY <1>4 DEF WifiTask, Station
    <2>3. LedInv'
      BY <1>1, <2>2, Unmoved
    <2> QED
      BY <2>1, <2>2, <2>3
  <1>5. CASE UNCHANGED vars
    <2>1. UNCHANGED <<done, ledVars>> /\ UNCHANGED wifiVars
      BY <1>5 DEF vars
    <2>2. LedInv'
      BY <1>1, <2>1, Unmoved
    <2>3. WifiInv'
      BY <1>1, <2>1 DEF wifiVars, WifiInv, Wifi!TypeOK, Wifi!ReportsCatchUp,
             Wifi!WillBeReported
    <2> QED
      BY <2>1, <2>2, <2>3
  <1> QED
    BY <1>2, <1>3, <1>4, <1>5 DEF Next

LEMMA Invariance == Spec => []IInv
  <1> QED
    BY Initially, Inductive, PTL DEF Spec

-----------------------------------------------------------------------------
(* Theorems.                                                               *)

\* Every variable of app_main, the LED task and the station events keeps to
\* the values of its C type, the event queue to its length.
THEOREM TypeCorrectness == Spec => []TypeOK
  <1>1. IInv => TypeOK
    BY DEF IInv, LedInv, WifiInv, TypeOK
  <1> QED
    BY <1>1, Invariance, PTL

\* The count that generic_led_client_connected and _disconnected keep is the
\* number of workers with a client, and every packet that
\* generic_led_packet_consumed counts is toggled once, or given up because the
\* last client left; for any number of workers.
THEOREM CountersAreExact == Spec => []CountersAreRight
  <1>1. IInv => CountersAreRight
    BY DEF IInv, LedInv, CountersAreRight
  <1> QED
    BY <1>1, Invariance, PTL

\* The LED task never waits beside something to show with no wake-up on its
\* way, however its copy of the counters falls between the workers' steps.
THEOREM WakeupsAreKept == Spec => []LedIsWoken
  <1>1. IInv => LedIsWoken
    BY DEF IInv, LedInv, AwakeInv, Woken, LedIsWoken, Led!NoLostWakeup
  <1> QED
    BY <1>1, Invariance, PTL

\* wifi_stack_task ends up right about every station but those whose last
\* event found the queue full, for any number of stations and any queue.
THEOREM ReportsAreRight == Spec => []ReportsCatchUp
  <1>1. IInv => ReportsCatchUp
    BY DEF IInv, WifiInv, ReportsCatchUp
  <1> QED
    BY <1>1, Invariance, PTL

\* No task, callback, timer or handler runs before what it may touch has been
\* created, though app_main opens the access point and the HTTP server before
\* it starts the tasks that serve them: after any prefix of its calls.
THEOREM ResourcesComeFirst == Spec => []NothingIsUsedTooEarly
  <1>1. IInv => NothingIsUsedTooEarly
    BY ResourcesAreThere DEF IInv
  <1> QED
    BY <1>1, Invariance, PTL
=============================================================================
