------------------------------ MODULE OtaUpdate ------------------------------
(***************************************************************************)
(* The over-the-air update of main/ota_update.c: the HTTP server task that *)
(* runs the handlers of POST /flash, /flash/confirm and /flash/rollback    *)
(* one at a time, the worker that receives an image, the timer task with   *)
(* the restart and confirmation timers, and reboots and power losses       *)
(* between any two steps.                                                  *)
(*                                                                         *)
(* running, image, record and newest survive a reboot.  A request that is  *)
(* rejected before it changes anything is not a step.  A body is Chunks    *)
(* receive buffers long; what matters of its content is whether it matches *)
(* the X-Firmware-SHA256 header and whether it is a bootable image.        *)
(***************************************************************************)
EXTENDS Integers, OtaPlatform

CONSTANTS
    Chunks,         \* receive buffers in an image
    MaxTimeouts     \* OTA_MAX_CONSECUTIVE_RECV_TIMEOUTS

ASSUME ChunksAssumption == Chunks \in Nat \ {0}
ASSUME TimeoutsAssumption == MaxTimeouts \in Nat \ {0}

VARIABLES
    running,        \* the slot whose image runs
    image,          \* image[s]: what flash holds in OTA slot s
    record,         \* record[s]: the selection record of OTA slot s
    newest,         \* the slot whose record was written last
    tested,         \* history: the image record[s] selects has run
    fallback,       \* history: the trusted slot that ran when newest was
                    \* written, or "none"
    pending,        \* s_confirmation_pending
    restart,        \* s_restart_scheduled, and s_restart_timer with it
    confirmTimer,   \* s_confirmation_timer, or its callback past its check
    httpdPc,        \* where the HTTP server task is
    ready,          \* s_ota_worker_ready can be taken
    queued,         \* s_ota_request_queue holds a request
    workerPc,       \* where ota_worker_task is
    body,           \* what the current request's body is like
    remaining,      \* buffers not received yet
    timeouts,       \* consecutive_timeouts
    result,         \* result of ota_flash_receive: "ok" is ESP_OK
    restartRequired,\* restart_required
    session         \* who has the socket of the last upload

persistentVars == <<running, image, record, newest, tested, fallback>>
flagVars == <<pending, restart, confirmTimer>>
requestVars == <<ready, queued>>
uploadVars == <<workerPc, body, remaining, timeouts, result, restartRequired,
                session>>
vars == <<persistentVars, flagVars, httpdPc, requestVars, uploadVars>>

Bodies == [matches : BOOLEAN, bootable : BOOLEAN]

Slot == UpdateSlot(running)     \* update_partition of a request of this boot

Init ==
    /\ running = "factory"
    /\ image = [s \in OtaSlots |-> "damaged"]
    /\ record = [s \in OtaSlots |-> "empty"]
    /\ newest = "ota_0"
    /\ tested = [s \in OtaSlots |-> FALSE]
    /\ fallback = "none"
    /\ pending = FALSE
    /\ restart = FALSE
    /\ confirmTimer = "off"
    /\ httpdPc = "idle"
    /\ ready = FALSE
    /\ queued = FALSE
    /\ workerPc = "give"
    /\ body = [matches |-> TRUE, bootable |-> TRUE]
    /\ remaining = 0
    /\ timeouts = 0
    /\ result = "ok"
    /\ restartRequired = FALSE
    /\ session = "none"

-----------------------------------------------------------------------------
(* Faulty variants of definitions below, for the mutation runs.            *)

\* The confirmation timer is not started.
StackInitNoTimer ==
    /\ pending' = (running' # "factory" /\ record'[running'] = "pending")
    /\ confirmTimer' = "off"
    /\ restart' = FALSE
    /\ httpdPc' = "idle"
    /\ ready' = FALSE
    /\ queued' = FALSE
    /\ workerPc' = "give"
    /\ body' = [matches |-> TRUE, bootable |-> TRUE]
    /\ remaining' = 0
    /\ timeouts' = 0
    /\ result' = "ok"
    /\ restartRequired' = FALSE
    /\ session' = "none"

\* An update is accepted while the running image is on trial.
FlashIgnoresTrial ==
    /\ httpdPc = "idle"
    /\ ~restart
    /\ httpdPc' = "flashQueue"
    /\ UNCHANGED <<persistentVars, flagVars, requestVars, uploadVars>>

\* A confirmation is accepted whatever image runs.
ConfirmAnyTime ==
    /\ httpdPc = "idle"
    /\ LET active == Active(record, newest)
       IN  /\ active # "factory"
           /\ record' = [record EXCEPT ![active] = "valid"]
    /\ httpdPc' = "confirmClear"
    /\ UNCHANGED <<running, image, newest, tested, fallback, flagVars,
                   requestVars, uploadVars>>

\* The checksum is not compared.
CompareNothing ==
    /\ workerPc = "compare"
    /\ workerPc' = "end"
    /\ UNCHANGED <<persistentVars, flagVars, httpdPc, requestVars, body,
                   remaining, timeouts, result, restartRequired, session>>

\* At the limit the count starts again and the upload goes on.
TimeoutUnlimited ==
    /\ workerPc = "receive"
    /\ remaining > 0
    /\ timeouts' = (timeouts + 1) % MaxTimeouts
    /\ UNCHANGED <<persistentVars, flagVars, httpdPc, requestVars, workerPc,
                   body, remaining, result, restartRequired, session>>

\* What esp_ota_end says of the image is not looked at.
EndUnverified ==
    /\ workerPc = "end"
    /\ workerPc' = "select"
    /\ UNCHANGED <<persistentVars, flagVars, httpdPc, requestVars, body,
                   remaining, timeouts, result, restartRequired, session>>

\* The worker does not schedule the restart of an accepted image.
FinishNoRestart ==
    /\ workerPc = "finish"
    /\ workerPc' = "give"
    /\ session' = IF result # "ok" /\ session = "httpd" THEN "closed"
                                                        ELSE session
    /\ UNCHANGED <<persistentVars, flagVars, httpdPc, requestVars, body,
                   remaining, timeouts, result, restartRequired>>

-----------------------------------------------------------------------------
(* A boot: the bootloader's choice, then ota_update_stack_init.            *)

\* ota_update_stack_init: an image on trial starts the confirmation timer.
\* Everything else in memory starts afresh.
StackInit ==
    /\ pending' = (running' # "factory" /\ record'[running'] = "pending")
    /\ confirmTimer' = IF pending' THEN "armed" ELSE "off"
    /\ restart' = FALSE
    /\ httpdPc' = "idle"
    /\ ready' = FALSE
    /\ queued' = FALSE
    /\ workerPc' = "give"
    /\ body' = [matches |-> TRUE, bootable |-> TRUE]
    /\ remaining' = 0
    /\ timeouts' = 0
    /\ result' = "ok"
    /\ restartRequired' = FALSE
    /\ session' = "none"

Boot ==
    /\ LET rejected == Rejected(record)
           selected == Active(rejected, newest)
       IN  /\ record' = Trial(rejected, selected)
           /\ \E s \in BootChoices(image, selected) :
                 /\ running' = s
                 /\ tested' = [t \in OtaSlots |-> tested[t] \/ t = s]
    /\ UNCHANGED <<image, newest, fallback>>

Reboot == Boot /\ StackInit

-----------------------------------------------------------------------------
(* The HTTP server task.                                                   *)

\* POST /flash: neither a restart is scheduled nor the running image on trial.
\* The checks of the length and of the header come here too.
FlashCheck ==
    /\ httpdPc = "idle"
    /\ ~restart
    /\ ~pending
    /\ httpdPc' = "flashQueue"
    /\ UNCHANGED <<persistentVars, flagVars, requestVars, uploadVars>>

\* ota_request_queue: without capacity, or if the request cannot be cloned,
\* the answer is 409 and the semaphore is as it was.
FlashQueue ==
    /\ httpdPc = "flashQueue"
    /\ \/ /\ ready
          /\ ~queued
          /\ ready' = FALSE
          /\ queued' = TRUE
       \/ UNCHANGED requestVars
    /\ httpdPc' = "idle"
    /\ UNCHANGED <<persistentVars, flagVars, uploadVars>>

\* POST /flash/confirm marks the active record.  It fails, and changes
\* nothing, when that is the factory's.
ConfirmMark ==
    /\ httpdPc = "idle"
    /\ pending
    /\ LET active == Active(record, newest)
       IN  /\ active # "factory"
           /\ record' = [record EXCEPT ![active] = "valid"]
    /\ httpdPc' = "confirmClear"
    /\ UNCHANGED <<running, image, newest, tested, fallback, flagVars,
                   requestVars, uploadVars>>

ConfirmClear ==
    /\ httpdPc = "confirmClear"
    /\ pending' = FALSE
    /\ httpdPc' = "confirmStop"
    /\ UNCHANGED <<persistentVars, restart, confirmTimer, requestVars,
                   uploadVars>>

\* xTimerStop: a callback that has already begun is not held up.
ConfirmStop ==
    /\ httpdPc = "confirmStop"
    /\ confirmTimer' = IF confirmTimer = "armed" THEN "off" ELSE confirmTimer
    /\ httpdPc' = "idle"
    /\ UNCHANGED <<persistentVars, pending, restart, requestVars, uploadVars>>

\* POST /flash/rollback.
RollbackCheckRestart ==
    /\ httpdPc = "idle"
    /\ ~restart
    /\ httpdPc' = "rollbackCheck"
    /\ UNCHANGED <<persistentVars, flagVars, requestVars, uploadVars>>

RollbackCheckPossible ==
    /\ httpdPc = "rollbackCheck"
    /\ httpdPc' = IF RollbackPossible(record, newest, image)
                  THEN "rollbackMark" ELSE "idle"
    /\ UNCHANGED <<persistentVars, flagVars, requestVars, uploadVars>>

\* esp_ota_mark_app_invalid_rollback repeats the check, and may fail.
RollbackMark ==
    /\ httpdPc = "rollbackMark"
    /\ \/ /\ RollbackPossible(record, newest, image)
          /\ record' = [record EXCEPT ![Active(record, newest)] = "invalid"]
          /\ httpdPc' = "rollbackSchedule"
       \/ /\ UNCHANGED record
          /\ httpdPc' = "idle"
    /\ UNCHANGED <<running, image, newest, tested, fallback, flagVars,
                   requestVars, uploadVars>>

\* The answer is sent, then ota_restart_schedule.
RollbackSchedule ==
    /\ httpdPc = "rollbackSchedule"
    /\ restart' = TRUE
    /\ httpdPc' = "idle"
    /\ UNCHANGED <<persistentVars, pending, confirmTimer, requestVars,
                   uploadVars>>

\* A handler that has begun runs to its end.
HttpdRuns ==
    \/ FlashQueue
    \/ ConfirmClear \/ ConfirmStop
    \/ RollbackCheckPossible \/ RollbackMark \/ RollbackSchedule

-----------------------------------------------------------------------------
(* The worker: ota_worker_task and ota_flash_receive.                      *)

WorkerGive ==
    /\ workerPc = "give"
    /\ ready' = TRUE
    /\ workerPc' = "wait"
    /\ UNCHANGED <<persistentVars, flagVars, httpdPc, queued, body, remaining,
                   timeouts, result, restartRequired, session>>

\* xQueueReceive, and the initial values of ota_flash_receive.
WorkerReceive ==
    /\ workerPc = "wait"
    /\ queued
    /\ queued' = FALSE
    /\ body' \in Bodies
    /\ remaining' = Chunks
    /\ timeouts' = 0
    /\ result' = "fail"
    /\ restartRequired' = FALSE
    /\ session' = "worker"
    /\ workerPc' = "begin"
    /\ UNCHANGED <<persistentVars, flagVars, httpdPc, ready>>

\* psa_hash_setup and esp_ota_begin: from here on result is ESP_OK.  A
\* sequential update erases as it writes, not here.
WorkerBegin ==
    /\ workerPc = "begin"
    /\ \/ workerPc' = "receive" /\ result' = "ok"
       \/ workerPc' = "complete" /\ UNCHANGED result
    /\ UNCHANGED <<persistentVars, flagVars, httpdPc, requestVars, body,
                   remaining, timeouts, restartRequired, session>>

\* httpd_req_recv returns bytes, psa_hash_update and esp_ota_write take them:
\* the slot's image is damaged until its last buffer is written.
WorkerWrite ==
    /\ workerPc = "receive"
    /\ remaining > 0
    /\ remaining' = remaining - 1
    /\ timeouts' = 0
    /\ image' = [image EXCEPT ![Slot] =
                    IF remaining = 1 /\ body.bootable THEN "whole" ELSE "damaged"]
    /\ workerPc' = IF remaining = 1 THEN "compare" ELSE "receive"
    /\ UNCHANGED <<running, record, newest, tested, fallback, flagVars, httpdPc,
                   requestVars, body, result, restartRequired, session>>

\* psa_hash_update fails (result stays ESP_OK), or esp_ota_write does.
WorkerWriteFails ==
    /\ workerPc = "receive"
    /\ remaining > 0
    /\ \/ UNCHANGED <<image, result>>
       \/ /\ image' = [image EXCEPT ![Slot] = "damaged"]
          /\ result' = "fail"
    /\ remaining' = remaining - 1
    /\ timeouts' = 0
    /\ workerPc' = "complete"
    /\ UNCHANGED <<running, record, newest, tested, fallback, flagVars, httpdPc,
                   requestVars, body, restartRequired, session>>

\* HTTPD_SOCK_ERR_TIMEOUT: retried until MaxTimeouts follow one another.
WorkerTimeout ==
    /\ workerPc = "receive"
    /\ remaining > 0
    /\ timeouts' = timeouts + 1
    /\ workerPc' = IF timeouts' < MaxTimeouts THEN "receive" ELSE "complete"
    /\ UNCHANGED <<persistentVars, flagVars, httpdPc, requestVars, body,
                   remaining, result, restartRequired, session>>

\* The client disconnects.
WorkerRecvFails ==
    /\ workerPc = "receive"
    /\ remaining > 0
    /\ session' = "gone"
    /\ workerPc' = "complete"
    /\ UNCHANGED <<persistentVars, flagVars, httpdPc, requestVars, body,
                   remaining, timeouts, result, restartRequired>>

\* psa_hash_finish and the comparison with the header.
WorkerCompare ==
    /\ workerPc = "compare"
    /\ workerPc' \in (IF body.matches THEN {"end"} ELSE {}) \cup {"complete"}
    /\ body.matches \/ workerPc' = "complete"
    /\ UNCHANGED <<persistentVars, flagVars, httpdPc, requestVars, body,
                   remaining, timeouts, result, restartRequired, session>>

\* esp_ota_end verifies the image that was written.
WorkerEnd ==
    /\ workerPc = "end"
    /\ IF image[Slot] = "whole"
       THEN workerPc' = "select" /\ UNCHANGED result
       ELSE workerPc' = "complete" /\ result' = "fail"
    /\ UNCHANGED <<persistentVars, flagVars, httpdPc, requestVars, body,
                   remaining, timeouts, restartRequired, session>>

\* The running image is the factory's or a confirmed one, and the one a boot
\* selects while Slot's record does not count.
RunsTrusted ==
    /\ running # "factory" => record[running] = "valid"
    /\ running = Active([record EXCEPT ![Slot] = "empty"], newest)

\* esp_ota_set_boot_partition writes the slot's record, or fails.
WorkerSelect ==
    /\ workerPc = "select"
    /\ \/ /\ record' = [record EXCEPT ![Slot] = "new"]
          /\ newest' = Slot
          /\ tested' = [tested EXCEPT ![Slot] = FALSE]
          /\ fallback' = IF RunsTrusted THEN running ELSE "none"
          /\ restartRequired' = TRUE
          /\ UNCHANGED result
       \/ /\ result' = "fail"
          /\ UNCHANGED <<record, newest, tested, fallback, restartRequired>>
    /\ workerPc' = "complete"
    /\ UNCHANGED <<running, image, flagVars, httpdPc, requestVars, body,
                   remaining, timeouts, session>>

\* httpd_req_async_handler_complete: the server owns the socket again.
WorkerComplete ==
    /\ workerPc = "complete"
    /\ session' = IF session = "worker" THEN "httpd" ELSE session
    /\ workerPc' = "finish"
    /\ UNCHANGED <<persistentVars, flagVars, httpdPc, requestVars, body,
                   remaining, timeouts, result, restartRequired>>

\* ota_restart_schedule, or the session of a failed upload is closed.
WorkerFinish ==
    /\ workerPc = "finish"
    /\ restart' = (restart \/ restartRequired)
    /\ session' = IF ~restartRequired /\ result # "ok" /\ session = "httpd"
                  THEN "closed" ELSE session
    /\ workerPc' = "give"
    /\ UNCHANGED <<persistentVars, pending, confirmTimer, httpdPc, requestVars,
                   body, remaining, timeouts, result, restartRequired>>

\* The steps of the worker once a request is queued.  While it receives, a
\* second without bytes is a step too.
WorkerRuns ==
    \/ WorkerGive \/ WorkerReceive \/ WorkerBegin
    \/ WorkerWrite \/ WorkerWriteFails \/ WorkerTimeout \/ WorkerRecvFails
    \/ WorkerCompare \/ WorkerEnd \/ WorkerSelect
    \/ WorkerComplete \/ WorkerFinish

-----------------------------------------------------------------------------
(* The timer task, and the power supply.                                   *)

\* ota_restart_callback.
RestartCallback ==
    /\ restart
    /\ Reboot

\* ota_confirmation_timeout_callback reads the flag under the lock ...
ConfirmationTimeout ==
    /\ confirmTimer = "armed"
    /\ confirmTimer' = IF pending THEN "expired" ELSE "off"
    /\ UNCHANGED <<persistentVars, pending, restart, httpdPc, requestVars,
                   uploadVars>>

\* ... and restarts after releasing it.
ConfirmationRestart ==
    /\ confirmTimer = "expired"
    /\ Reboot

PowerLoss == Reboot

-----------------------------------------------------------------------------
Next ==
    \/ FlashCheck \/ ConfirmMark \/ RollbackCheckRestart
    \/ HttpdRuns
    \/ WorkerRuns
    \/ RestartCallback \/ ConfirmationTimeout \/ ConfirmationRestart
    \/ PowerLoss

Spec == Init /\ [][Next]_vars

\* Tasks that can run do, and timers that were started expire.  Clients send
\* requests when they please, and power is lost when it is.
FairSpec ==
    /\ Spec
    /\ WF_vars(HttpdRuns)
    /\ WF_vars(WorkerRuns)
    /\ WF_vars(RestartCallback)
    /\ WF_vars(ConfirmationTimeout)
    /\ WF_vars(ConfirmationRestart)

-----------------------------------------------------------------------------
(* Properties.                                                             *)

HttpdPcs == {"idle", "flashQueue", "confirmClear", "confirmStop",
             "rollbackCheck", "rollbackMark", "rollbackSchedule"}
WorkerPcs == {"give", "wait", "begin", "receive", "compare", "end", "select",
              "complete", "finish"}

\* Every variable keeps to the values its C type and the platform allow; the
\* worker never waits out more than MaxTimeouts timeouts in a row.
DataTypeOK ==
    /\ running \in Slots
    /\ image \in [OtaSlots -> ImageStates]
    /\ record \in [OtaSlots -> RecordStates]
    /\ newest \in OtaSlots
    /\ fallback \in Slots \cup {"none"}
    /\ confirmTimer \in {"off", "armed", "expired"}
    /\ httpdPc \in HttpdPcs
    /\ workerPc \in WorkerPcs
    /\ remaining \in 0 .. Chunks
    /\ timeouts \in 0 .. MaxTimeouts
    /\ result \in {"ok", "fail"}
    /\ session \in {"none", "worker", "httpd", "gone", "closed"}

FlagsTypeOK ==
    /\ tested \in [OtaSlots -> BOOLEAN]
    /\ pending \in BOOLEAN
    /\ restart \in BOOLEAN
    /\ ready \in BOOLEAN
    /\ queued \in BOOLEAN
    /\ body \in Bodies
    /\ restartRequired \in BOOLEAN

TypeOK == DataTypeOK /\ FlagsTypeOK

\* An image counts as confirmed only after it has run: no confirmation,
\* however late or early it comes, vouches for an image that was only
\* uploaded.
ConfirmedHasRun ==
    \A s \in OtaSlots : record[s] = "valid" => tested[s]

\* The README's promise that the previously confirmed image stays available
\* while the new one is tested: whenever the device runs an image on trial
\* that was uploaded from a confirmed one, a reset at this moment boots that
\* confirmed image.
TrialHasFallback ==
    (pending /\ running = newest /\ fallback # "none") =>
        /\ Active(Rejected(record), newest) \in {fallback, newest}
        /\ Active(Rejected(record), newest) = newest => record[newest] = "valid"
        /\ Whole(image, fallback)

\* A slot is selected for its trial only by an upload that arrived to the last
\* byte, matched its checksum and verified.
OnlyVerifiedIsSelected ==
    [][\A s \in OtaSlots :
          (record[s] # "new" /\ record'[s] = "new") =>
              remaining = 0 /\ body.matches /\ image[s] = "whole"]_vars

\* A trial does not go on for ever without an answer.
TrialEnds == pending ~> ~pending

\* An accepted image gets its trial: the device restarts and runs it.  There
\* are two exceptions: a rollback that was on its way withdraws the image
\* before the restart, or an upload that was queued too late overwrites it
\* (AcceptedImageIsKept shows how).
AcceptedIsTried ==
    \A s \in OtaSlots :
        (record[s] = "new") ~>
            \/ running = s
            \/ record[s] = "invalid" /\ ~tested[s]
            \/ image[s] = "damaged"

\* The one worker is free again after every upload, also when the client
\* stops sending and keeps the connection open.
WorkerIsReleased == (workerPc # "wait") ~> (workerPc = "wait")

\* The OTA slots with an image that can be booted.
Intact == {s \in OtaSlots : image[s] = "whole"}

Promise == INSTANCE OneTrial WITH Factory <- "factory", intact <- Intact

\* What the README promises of an update as a whole (Slot sequence and
\* automatic rollback), with resets between any two steps: images are written
\* beside the running one and never during a trial, an accepted one is whole
\* and alone, gets one boot on trial, and is confirmed only while it runs.
ImplementsOneTrial == Promise!Spec

\* The comment in ota_worker_task: the session of a failed upload that may
\* have left unread bytes is closed.
FailedUploadIsClosed ==
    (workerPc \in {"give", "wait"} /\ session = "httpd") => remaining = 0

\* What 409 "a reboot is already scheduled" is there for: the image selected
\* for the next boot is not overwritten before the reboot.
AcceptedImageIsKept ==
    \A s \in OtaSlots : record[s] = "new" => image[s] = "whole"

\* What 409 "no older bootable OTA image is available" is there for: after a
\* rollback was accepted the device boots the older image it chose.
RollbackTargetIsKept ==
    restart /\ running # "factory" /\ record[running] = "invalid"
        => Whole(image, Active(record, newest))
=============================================================================
