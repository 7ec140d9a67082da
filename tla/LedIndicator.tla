---------------------------- MODULE LedIndicator ----------------------------
(***************************************************************************)
(* The LED task of main/generic_task.c and the stream workers that signal  *)
(* to it.  A worker changes a counter under s_led_lock and then wakes the  *)
(* task; the task blinks, and from then on waits for its notification,     *)
(* copies the counters under the lock and toggles.                         *)
(*                                                                         *)
(* generic_led_wake_task copies the task's handle and notifies: one step,  *)
(* that of the copy while there is no handle, that of the notification     *)
(* afterwards.  StartUp says when the task and the workers are created.    *)
(***************************************************************************)
EXTENDS Integers, FiniteSets

CONSTANTS
    StreamWorkers,  \* the stream workers
    Blinks,         \* GENERIC_LED_STARTUP_BLINK_COUNT
    PendingMax      \* UINT32_MAX

VARIABLES
    clients,        \* s_connected_client_count
    pending,        \* s_pending_packet_toggles
    handle,         \* s_led_task_handle is not NULL
    notified,       \* the task's notification value is not zero
    ledPc,          \* where generic_task is
    level,          \* GPIO2; led_on has the same value
    toggles,        \* what is left of packet_toggles; before, twice the blinks left
    workerPc,       \* where each worker is
    owed            \* history: packets counted for a client and not yet shown

vars == <<clients, pending, handle, notified, ledPc, level, toggles, workerPc,
          owed>>

Init ==
    /\ clients = 0
    /\ pending = 0
    /\ handle = FALSE
    /\ notified = FALSE
    /\ ledPc = "absent"
    /\ level = 0
    /\ toggles = 2 * Blinks
    /\ workerPc = [w \in StreamWorkers |-> "idle"]
    /\ owed = 0

-----------------------------------------------------------------------------
(* Faulty variants of definitions below, for the mutation runs.            *)

\* The notification is cleared once more before the task waits.
ToggleForgetsWakeup ==
    /\ ledPc = "toggle"
    /\ IF toggles = 0
       THEN /\ ledPc' = "wait"
            /\ notified' = FALSE
            /\ UNCHANGED <<level, toggles, owed>>
       ELSE /\ level' = 1 - level
            /\ toggles' = toggles - 1
            /\ owed' = owed - 1
            /\ UNCHANGED <<ledPc, notified>>
    /\ UNCHANGED <<clients, pending, handle, workerPc>>

\* The pending toggles are cleared when they have been shown, not when they
\* are copied.
ToggleClearsPending ==
    /\ ledPc = "toggle"
    /\ IF toggles = 0
       THEN /\ ledPc' = "wait"
            /\ pending' = 0
            /\ UNCHANGED <<level, toggles, owed>>
       ELSE /\ level' = 1 - level
            /\ toggles' = toggles - 1
            /\ owed' = owed - 1
            /\ UNCHANGED <<ledPc, pending>>
    /\ UNCHANGED <<clients, handle, notified, workerPc>>

\* The last client leaves the LED as it is.
CopyLeavesLevel ==
    /\ ledPc = "copy"
    /\ pending' = 0
    /\ toggles' = IF clients = 0 THEN 0 ELSE pending
    /\ owed' = IF clients = 0 THEN 0 ELSE owed
    /\ ledPc' = IF clients = 0 THEN "wait" ELSE "toggle"
    /\ UNCHANGED <<clients, handle, notified, level, workerPc>>

-----------------------------------------------------------------------------
(* generic_led_client_connected, _packet_consumed and _client_disconnected *)
(* in a stream worker, which calls them in the order of its response.      *)

ClientConnected(w) ==
    /\ workerPc[w] = "idle"
    /\ clients' = clients + 1
    /\ workerPc' = [workerPc EXCEPT ![w] = "wakeServing"]
    /\ UNCHANGED <<pending, handle, notified, ledPc, level, toggles, owed>>

\* After each send that succeeds; the count saturates.
PacketConsumed(w) ==
    /\ workerPc[w] = "serving"
    /\ LET counted == clients > 0 /\ pending < PendingMax
       IN  /\ pending' = IF counted THEN pending + 1 ELSE pending
           /\ owed' = IF counted THEN owed + 1 ELSE owed
    /\ workerPc' = [workerPc EXCEPT ![w] = "wakeServing"]
    /\ UNCHANGED <<clients, handle, notified, ledPc, level, toggles>>

ClientDisconnected(w) ==
    /\ workerPc[w] = "serving"
    /\ clients' = IF clients > 0 THEN clients - 1 ELSE clients
    /\ workerPc' = [workerPc EXCEPT ![w] = "wakeIdle"]
    /\ UNCHANGED <<pending, handle, notified, ledPc, level, toggles, owed>>

\* generic_led_wake_task.
WakeTask(w) ==
    /\ workerPc[w] \in {"wakeServing", "wakeIdle"}
    /\ notified' = (notified \/ handle)
    /\ workerPc' = [workerPc EXCEPT ![w] =
                       IF @ = "wakeIdle" THEN "idle" ELSE "serving"]
    /\ UNCHANGED <<clients, pending, handle, ledPc, level, toggles, owed>>

-----------------------------------------------------------------------------
(* generic_stack_start_task and generic_task.                              *)

StartTask ==
    /\ ledPc = "absent"
    /\ handle' = TRUE
    /\ ledPc' = "blink"
    /\ UNCHANGED <<clients, pending, notified, level, toggles, workerPc, owed>>

\* On and off; events gather meanwhile.
Blink ==
    /\ ledPc = "blink"
    /\ IF toggles = 0
       THEN /\ ledPc' = "wait"
            /\ UNCHANGED <<level, toggles>>
       ELSE /\ level' = 1 - level
            /\ toggles' = toggles - 1
            /\ UNCHANGED ledPc
    /\ UNCHANGED <<clients, pending, handle, notified, workerPc, owed>>

\* ulTaskNotifyTake(pdTRUE, portMAX_DELAY).
TakeNotification ==
    /\ ledPc = "wait"
    /\ notified
    /\ notified' = FALSE
    /\ ledPc' = "copy"
    /\ UNCHANGED <<clients, pending, handle, level, toggles, workerPc, owed>>

\* The critical section, and the LED off when no client is left.
CopyCounters ==
    /\ ledPc = "copy"
    /\ pending' = 0
    /\ IF clients = 0
       THEN /\ level' = 0
            /\ toggles' = 0
            /\ owed' = 0
            /\ ledPc' = "wait"
       ELSE /\ toggles' = pending
            /\ ledPc' = "toggle"
            /\ UNCHANGED <<level, owed>>
    /\ UNCHANGED <<clients, handle, notified, workerPc>>

\* One iteration of the loop that toggles, or its end.
Toggle ==
    /\ ledPc = "toggle"
    /\ IF toggles = 0
       THEN /\ ledPc' = "wait"
            /\ UNCHANGED <<level, toggles, owed>>
       ELSE /\ level' = 1 - level
            /\ toggles' = toggles - 1
            /\ owed' = owed - 1
            /\ UNCHANGED ledPc
    /\ UNCHANGED <<clients, pending, handle, notified, workerPc>>

GenericTask == Blink \/ TakeNotification \/ CopyCounters \/ Toggle

Worker(w) ==
    \/ ClientConnected(w) \/ PacketConsumed(w) \/ ClientDisconnected(w)
    \/ WakeTask(w)

-----------------------------------------------------------------------------
(* Properties.                                                             *)

\* Every variable keeps to the values its C type allows.
TypeOK ==
    /\ clients \in 0 .. Cardinality(StreamWorkers)
    /\ pending \in 0 .. PendingMax
    /\ toggles \in Nat
    /\ handle \in BOOLEAN /\ notified \in BOOLEAN
    /\ ledPc \in {"absent", "blink", "wait", "copy", "toggle"}
    /\ level \in {0, 1}
    /\ workerPc \in [StreamWorkers ->
                        {"idle", "serving", "wakeServing", "wakeIdle"}]
    /\ owed \in Nat

Connected == {w \in StreamWorkers : workerPc[w] \in {"wakeServing", "serving"}}

\* The count that decides whether the LED may be on is the number of workers
\* with a client, at every moment and whatever they do at the same time.
ClientsAreCounted == clients = Cardinality(Connected)

\* A packet that was counted is shown once, unless the last client left: none
\* gets lost between the counter, the task's copy of it and the pin.
CountedIsOwed ==
    owed = pending + (IF ledPc = "toggle" THEN toggles ELSE 0)

\* A task asleep has shown everything: no toggle is left, and without clients
\* the LED is off; otherwise its wakeup is waiting or on its way.
NoLostWakeup ==
    ledPc = "wait" =>
        \/ pending = 0 /\ (clients = 0 => level = 0)
        \/ notified
        \/ \E w \in StreamWorkers : workerPc[w] \in {"wakeServing", "wakeIdle"}
=============================================================================
