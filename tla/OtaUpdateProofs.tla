--------------------------- MODULE OtaUpdateProofs ---------------------------
(***************************************************************************)
(* Theorems about OtaUpdate, for every size of an image and every limit on *)
(* timeouts: what counts as confirmed has run, only what was verified is   *)
(* selected, and a trial can go back, wherever the power fails.            *)
(***************************************************************************)
EXTENDS OtaUpdate, TLAPS

-----------------------------------------------------------------------------
(* The inductive invariant.                                                *)

\* Only the slot this boot updates can hold a record that no boot has seen.
NewIsNewest ==
    \A s \in OtaSlots : record[s] = "new" => newest = s /\ s = Slot

\* During a trial no upload is on its way, and every image that counts has
\* run.
TrialIsQuiet ==
    pending =>
        /\ running # "factory"
        /\ ~queued
        /\ workerPc \in {"give", "wait"}
        /\ httpdPc # "flashQueue"
        /\ \A s \in OtaSlots : /\ record[s] # "new"
                               /\ Usable(record, s) => tested[s]

\* What the worker knows at each step of an upload.
UploadPhases ==
    /\ workerPc \in {"begin", "receive"} => timeouts < MaxTimeouts
    /\ workerPc \in {"compare", "end", "select"} => remaining = 0
    /\ workerPc \in {"end", "select"} => body.matches
    /\ workerPc = "select" => image[Slot] = "whole"

\* The running image was whole when it was loaded, and its slot is not the
\* one that is updated.
RunningIsWhole == Whole(image, running)

\* The record of an image on trial and the position of the handlers that
\* change it.
TrialPhases ==
    pending /\ running = newest =>
        /\ record[newest] \in {"pending", "valid", "invalid"}
        /\ record[newest] = "valid" => httpdPc = "confirmClear"
        /\ record[newest] = "invalid" => restart \/ httpdPc = "rollbackSchedule"
        /\ restart \/ httpdPc = "rollbackSchedule" => record[newest] = "invalid"
        /\ httpdPc \in {"rollbackCheck", "rollbackMark"} =>
              record[newest] = "pending"

\* The image on trial is the newest, no other record is in that state, and the
\* flag that tells of the trial is set as long as its outcome is open.
TrialIsRunning ==
    /\ pending => /\ running = newest
                  /\ \A s \in OtaSlots : record[s] = "pending" => s = running
    /\ running # "factory" /\ record[running] = "pending" =>
          pending /\ httpdPc # "confirmClear"

\* The record that counts when the newest does not.
Older == IF Usable(record, OtherSlot(newest)) THEN OtherSlot(newest)
                                              ELSE "factory"

\* From the selection of a new image until its trial is over, the confirmed
\* image it was uploaded from is whole and next in line.
FallbackIsKept ==
    (fallback # "none"
        /\ (record[newest] = "new" \/ (pending /\ running = newest))) =>
            /\ fallback = Older
            /\ fallback # "factory" => record[fallback] = "valid"
            /\ Whole(image, fallback)
            /\ record[newest] = "new" => running = fallback

IInv ==
    /\ TypeOK
    /\ ConfirmedHasRun
    /\ NewIsNewest
    /\ TrialIsQuiet
    /\ UploadPhases
    /\ RunningIsWhole
    /\ TrialPhases
    /\ TrialIsRunning
    /\ FallbackIsKept

-----------------------------------------------------------------------------
(* Types.                                                                  *)

\* A reboot, whatever causes it, is the same step.
LEMMA Reboots ==
    RestartCallback \/ ConfirmationRestart \/ PowerLoss => Boot /\ StackInit
  BY DEF RestartCallback, ConfirmationRestart, PowerLoss, Reboot

\* The slot that is updated is an OTA slot that does not run.
LEMMA SlotProperties ==
    /\ Slot \in OtaSlots
    /\ Slot # running
    /\ \A s \in OtaSlots : s # Slot => s = OtherSlot(Slot)
    /\ OtherSlot(Slot) \in OtaSlots /\ OtherSlot(Slot) # Slot
  BY DEF Slot, UpdateSlot, OtaSlots, OtherSlot

\* Every step keeps the flags Boolean.
LEMMA FlagsTyping == TypeOK /\ [Next]_vars => FlagsTypeOK'
  <1> SUFFICES ASSUME TypeOK, [Next]_vars PROVE FlagsTypeOK'
    OBVIOUS
  <1> USE DEF TypeOK, FlagsTypeOK, vars, persistentVars, flagVars, requestVars,
          uploadVars
  <1>1. CASE FlashCheck \/ FlashQueue \/ ConfirmMark \/ ConfirmClear \/
             ConfirmStop
    BY <1>1 DEF FlashCheck, FlashQueue, ConfirmMark, ConfirmClear, ConfirmStop
  <1>2. CASE RollbackCheckRestart \/ RollbackCheckPossible \/ RollbackMark \/
             RollbackSchedule
    BY <1>2 DEF RollbackCheckRestart, RollbackCheckPossible, RollbackMark,
           RollbackSchedule
  <1>3. CASE WorkerGive \/ WorkerReceive \/ WorkerBegin \/ WorkerWrite \/
             WorkerWriteFails
    BY <1>3 DEF WorkerGive, WorkerReceive, WorkerBegin, WorkerWrite,
           WorkerWriteFails
  <1>4. CASE WorkerTimeout \/ WorkerRecvFails \/ WorkerCompare \/ WorkerEnd \/
             WorkerComplete \/ WorkerFinish
    BY <1>4 DEF WorkerTimeout, WorkerRecvFails, WorkerCompare, WorkerEnd,
           WorkerComplete, WorkerFinish
  <1>5. CASE WorkerSelect
    BY <1>5, SlotProperties DEF WorkerSelect
  <1>6. CASE ConfirmationTimeout \/ UNCHANGED vars
    BY <1>6 DEF ConfirmationTimeout
  <1>7. CASE Boot /\ StackInit
    <2>1. tested' \in [OtaSlots -> BOOLEAN]
      BY <1>7 DEF Boot
    <2>2. body' \in Bodies
      BY <1>7 DEF StackInit, Bodies
    <2> QED
      BY <1>7, <2>1, <2>2 DEF StackInit
  <1> QED
    BY <1>1, <1>2, <1>3, <1>4, <1>5, <1>6, <1>7, Reboots
       DEF Next, HttpdRuns, WorkerRuns

\* Every step keeps the other variables in their types.
LEMMA DataTyping == TypeOK /\ UploadPhases /\ [Next]_vars => DataTypeOK'
  <1> SUFFICES ASSUME TypeOK, UploadPhases, [Next]_vars PROVE DataTypeOK'
    OBVIOUS
  <1> USE ChunksAssumption, TimeoutsAssumption, SlotProperties
      DEF TypeOK, DataTypeOK, vars, persistentVars, flagVars, requestVars,
          uploadVars, RecordStates, ImageStates, HttpdPcs, WorkerPcs
  <1>1. CASE FlashCheck \/ FlashQueue \/ ConfirmMark \/ ConfirmClear \/
             ConfirmStop
    BY <1>1 DEF FlashCheck, FlashQueue, ConfirmMark, ConfirmClear, ConfirmStop
  <1>2. CASE RollbackCheckRestart \/ RollbackCheckPossible \/ RollbackMark \/
             RollbackSchedule
    BY <1>2 DEF RollbackCheckRestart, RollbackCheckPossible, RollbackMark,
           RollbackSchedule
  <1>3. CASE WorkerGive \/ WorkerReceive \/ WorkerBegin
    BY <1>3 DEF WorkerGive, WorkerReceive, WorkerBegin
  <1>4. CASE WorkerWrite \/ WorkerWriteFails
    BY <1>4 DEF WorkerWrite, WorkerWriteFails
  <1>5. CASE WorkerTimeout
    BY <1>5 DEF WorkerTimeout, UploadPhases
  <1>6. CASE WorkerRecvFails \/ WorkerCompare \/ WorkerEnd \/ WorkerComplete \/
             WorkerFinish
    BY <1>6 DEF WorkerRecvFails, WorkerCompare, WorkerEnd, WorkerComplete,
           WorkerFinish
  <1>7. CASE WorkerSelect
    BY <1>7 DEF WorkerSelect, Slots
  <1>8. CASE ConfirmationTimeout \/ UNCHANGED vars
    BY <1>8 DEF ConfirmationTimeout
  <1>9. CASE Boot /\ StackInit
    <2>1. running' \in Slots
      <3>1. Active(Rejected(record), newest) \in Slots
        BY DEF Active, OtherSlot, Slots, OtaSlots
      <3> QED
        BY <1>9, <3>1 DEF Boot, BootChoices
    <2>2. record' \in [OtaSlots -> RecordStates]
      BY <1>9 DEF Boot, Trial, Rejected
    <2> QED
      BY <1>9, <2>1, <2>2 DEF Boot, StackInit
  <1> QED
    BY <1>1, <1>2, <1>3, <1>4, <1>5, <1>6, <1>7, <1>8, <1>9, Reboots
       DEF Next, HttpdRuns, WorkerRuns

-----------------------------------------------------------------------------
(* What a boot does to the records.                                        *)

\* After a boot no record is new, what is confirmed stays as it was, and only
\* the newest record can be on trial.
LEMMA BootRecords ==
    ASSUME TypeOK, NewIsNewest, Boot
    PROVE  /\ \A s \in OtaSlots : record'[s] # "new"
           /\ \A s \in OtaSlots : record'[s] = "valid" <=> record[s] = "valid"
           /\ \A s \in OtaSlots :
                 record'[s] = "pending" => record[s] = "new" /\ s = newest
           /\ \A s \in OtaSlots : Usable(record', s) => Usable(record, s)
  <1> DEFINE rejected == Rejected(record)
             selected == Active(rejected, newest)
  <1>1. \A s \in OtaSlots :
           rejected[s] = IF record[s] = "pending" THEN "invalid" ELSE record[s]
    BY DEF Rejected
  <1>2. \A s \in OtaSlots :
           record'[s] = IF s = selected /\ rejected[s] = "new"
                        THEN "pending" ELSE rejected[s]
    BY DEF Boot, Trial
  <1>3. \A s \in OtaSlots : record[s] = "new" => s = selected /\ s = newest
    BY <1>1 DEF NewIsNewest, Active, Usable
  <1> QED
    BY <1>1, <1>2, <1>3 DEF Usable

\* The running slot after a boot holds a whole image.
LEMMA BootRuns ==
    ASSUME TypeOK, Boot
    PROVE  Whole(image', running')
  BY DEF Boot, BootChoices, Whole

-----------------------------------------------------------------------------
(* Each part of the invariant is preserved.                                *)

\* An upload's bytes are complete, match and verify in this order.
LEMMA UploadStep == TypeOK /\ UploadPhases /\ [Next]_vars => UploadPhases'
  <1> SUFFICES ASSUME TypeOK, UploadPhases, [Next]_vars PROVE UploadPhases'
    OBVIOUS
  <1> USE TimeoutsAssumption
      DEF TypeOK, DataTypeOK, UploadPhases, Slot, vars, persistentVars,
          flagVars, requestVars, uploadVars
  <1>1. CASE FlashCheck \/ FlashQueue \/ ConfirmMark \/ ConfirmClear \/
             ConfirmStop
    BY <1>1 DEF FlashCheck, FlashQueue, ConfirmMark, ConfirmClear, ConfirmStop
  <1>2. CASE RollbackCheckRestart \/ RollbackCheckPossible \/ RollbackMark \/
             RollbackSchedule
    BY <1>2 DEF RollbackCheckRestart, RollbackCheckPossible, RollbackMark,
           RollbackSchedule
  <1>3. CASE WorkerGive \/ WorkerReceive \/ WorkerBegin
    BY <1>3 DEF WorkerGive, WorkerReceive, WorkerBegin
  <1>4. CASE WorkerWrite \/ WorkerWriteFails
    BY <1>4 DEF WorkerWrite, WorkerWriteFails
  <1>5. CASE WorkerTimeout
    BY <1>5 DEF WorkerTimeout
  <1>6. CASE WorkerRecvFails \/ WorkerCompare \/ WorkerEnd \/ WorkerComplete \/
             WorkerFinish \/ WorkerSelect
    BY <1>6 DEF WorkerRecvFails, WorkerCompare, WorkerEnd, WorkerComplete,
           WorkerFinish, WorkerSelect
  <1>7. CASE ConfirmationTimeout \/ UNCHANGED vars
    BY <1>7 DEF ConfirmationTimeout
  <1>8. CASE Boot /\ StackInit
    BY <1>8 DEF StackInit
  <1> QED
    BY <1>1, <1>2, <1>3, <1>4, <1>5, <1>6, <1>7, <1>8, Reboots
       DEF Next, HttpdRuns, WorkerRuns

\* The running image is never the one that is written.
LEMMA RunningStep == TypeOK /\ RunningIsWhole /\ [Next]_vars => RunningIsWhole'
  <1> SUFFICES ASSUME TypeOK, RunningIsWhole, [Next]_vars PROVE RunningIsWhole'
    OBVIOUS
  <1>1. CASE WorkerWrite \/ WorkerWriteFails
    BY <1>1, SlotProperties
       DEF WorkerWrite, WorkerWriteFails, RunningIsWhole, Whole, TypeOK,
           DataTypeOK, persistentVars
  <1>2. CASE Boot /\ StackInit
    BY <1>2, BootRuns DEF RunningIsWhole
  <1>3. CASE UNCHANGED <<running, image>>
    BY <1>3 DEF RunningIsWhole, Whole
  <1> QED
    BY <1>1, <1>2, <1>3, Reboots
       DEF Next, HttpdRuns, WorkerRuns, FlashCheck, FlashQueue, ConfirmMark,
           ConfirmClear, ConfirmStop, RollbackCheckRestart,
           RollbackCheckPossible, RollbackMark, RollbackSchedule, WorkerGive,
           WorkerReceive, WorkerBegin, WorkerTimeout, WorkerRecvFails,
           WorkerCompare, WorkerEnd, WorkerSelect, WorkerComplete,
           WorkerFinish, ConfirmationTimeout, vars, persistentVars

\* The steps that leave the records, the running slot and the trial alone.
LEMMA QuietSteps ==
    ASSUME [Next]_vars
    PROVE  \/ FlashCheck \/ FlashQueue \/ ConfirmMark \/ ConfirmClear
           \/ RollbackMark \/ WorkerReceive \/ WorkerSelect
           \/ Boot /\ StackInit
           \/ /\ UNCHANGED <<running, record, newest, tested, fallback, pending>>
              /\ queued' = queued
              /\ workerPc' # workerPc => ~(workerPc \in {"give", "wait"}) \/ workerPc' = "wait"
              /\ httpdPc' = "flashQueue" => httpdPc = "flashQueue"
              /\ httpdPc' = "confirmClear" => httpdPc = "confirmClear"
  <1>1. CASE ConfirmStop \/ RollbackCheckRestart \/ RollbackCheckPossible \/
             RollbackSchedule
    BY <1>1 DEF ConfirmStop, RollbackCheckRestart, RollbackCheckPossible,
           RollbackSchedule, persistentVars, requestVars, uploadVars, flagVars
  <1>2. CASE WorkerGive \/ WorkerBegin \/ WorkerWrite \/ WorkerWriteFails \/
             WorkerTimeout \/ WorkerRecvFails
    BY <1>2 DEF WorkerGive, WorkerBegin, WorkerWrite, WorkerWriteFails,
           WorkerTimeout, WorkerRecvFails, persistentVars, requestVars, flagVars
  <1>3. CASE WorkerCompare \/ WorkerEnd \/ WorkerComplete \/ WorkerFinish
    BY <1>3 DEF WorkerCompare, WorkerEnd, WorkerComplete, WorkerFinish,
           persistentVars, requestVars, flagVars
  <1>4. CASE ConfirmationTimeout \/ UNCHANGED vars
    BY <1>4 DEF ConfirmationTimeout, vars, persistentVars, requestVars,
           uploadVars, flagVars
  <1> QED
    BY <1>1, <1>2, <1>3, <1>4, Reboots DEF Next, HttpdRuns, WorkerRuns

\* A record is written as new only for the slot of this boot, and a boot turns
\* it into a trial or rejects it.
LEMMA NewStep == TypeOK /\ NewIsNewest /\ [Next]_vars => NewIsNewest'
  <1> SUFFICES ASSUME TypeOK, NewIsNewest, [Next]_vars PROVE NewIsNewest'
    OBVIOUS
  <1> USE SlotProperties DEF TypeOK, DataTypeOK
  <1>1. CASE WorkerSelect
    <2>1. record' \in [OtaSlots -> RecordStates] /\ Slot' = Slot
      BY <1>1 DEF WorkerSelect, RecordStates, Slot
    <2>2. CASE record' = [record EXCEPT ![Slot] = "new"] /\ newest' = Slot
      BY <2>1, <2>2 DEF NewIsNewest, OtaSlots
    <2>3. CASE UNCHANGED <<record, newest>>
      BY <2>1, <2>3 DEF NewIsNewest
    <2> QED
      BY <1>1, <2>2, <2>3 DEF WorkerSelect
  <1>2. CASE ConfirmMark \/ RollbackMark
    BY <1>2 DEF ConfirmMark, RollbackMark, NewIsNewest, Slot, Active, OtaSlots
  <1>3. CASE FlashCheck \/ FlashQueue \/ ConfirmClear \/ WorkerReceive
    BY <1>3 DEF FlashCheck, FlashQueue, ConfirmClear, WorkerReceive,
           persistentVars, NewIsNewest, Slot
  <1>4. CASE Boot /\ StackInit
    BY <1>4, BootRecords DEF NewIsNewest
  <1>5. CASE UNCHANGED <<running, record, newest>>
    BY <1>5 DEF NewIsNewest, Slot
  <1> QED
    BY <1>1, <1>2, <1>3, <1>4, <1>5, QuietSteps

\* Uploads are refused while a trial lasts, and a boot starts without any.
LEMMA QuietStep ==
    TypeOK /\ TypeOK' /\ NewIsNewest /\ ConfirmedHasRun /\ TrialIsQuiet
        /\ [Next]_vars => TrialIsQuiet'
  <1> SUFFICES ASSUME TypeOK, TypeOK', NewIsNewest, ConfirmedHasRun,
                      TrialIsQuiet, [Next]_vars, pending'
               PROVE  /\ running' # "factory"
                      /\ ~queued'
                      /\ workerPc' \in {"give", "wait"}
                      /\ httpdPc' # "flashQueue"
                      /\ \A s \in OtaSlots : /\ record'[s] # "new"
                                             /\ Usable(record', s) => tested'[s]
    BY DEF TrialIsQuiet
  <1>1. CASE FlashCheck \/ FlashQueue \/ ConfirmClear \/ WorkerReceive \/
             WorkerSelect
    BY <1>1 DEF FlashCheck, FlashQueue, ConfirmClear, WorkerReceive,
           WorkerSelect, TrialIsQuiet, flagVars, requestVars
  <1>2. CASE ConfirmMark \/ RollbackMark
    <2>1. /\ pending
          /\ UNCHANGED <<running, queued, workerPc, tested>>
          /\ httpdPc' # "flashQueue"
      BY <1>2 DEF ConfirmMark, RollbackMark, TrialIsQuiet, flagVars,
             requestVars, uploadVars
    <2>2. PICK a \in OtaSlots :
             /\ Usable(record, a) \/ record' = record
             /\ record' = record \/ record' = [record EXCEPT ![a] = "valid"]
                   \/ record' = [record EXCEPT ![a] = "invalid"]
      <3>1. Active(record, newest) # "factory" =>
               /\ Active(record, newest) \in OtaSlots
               /\ Usable(record, Active(record, newest))
        BY DEF Active, OtherSlot, OtaSlots, TypeOK, DataTypeOK
      <3>2. CASE ConfirmMark
        BY <3>1, <3>2 DEF ConfirmMark
      <3>3. CASE RollbackMark
        BY <3>1, <3>3 DEF RollbackMark, RollbackPossible, OtaSlots
      <3> QED
        BY <1>2, <3>2, <3>3
    <2>3. ASSUME NEW s \in OtaSlots
          PROVE  record'[s] # "new" /\ (Usable(record', s) => Usable(record, s))
      BY <2>1, <2>2, <2>3 DEF TrialIsQuiet, Usable, TypeOK, DataTypeOK
    <2> QED
      BY <2>1, <2>3 DEF TrialIsQuiet
  <1>3. CASE Boot /\ StackInit
    <2>1. running' # "factory" /\ ~queued' /\ workerPc' = "give"
             /\ httpdPc' = "idle" /\ record'[running'] = "pending"
             /\ running' \in OtaSlots
      BY <1>3 DEF StackInit, TypeOK, DataTypeOK, Slots
    <2>2. \A s \in OtaSlots : record'[s] # "new"
      BY <1>3, BootRecords
    <2>3. ASSUME NEW s \in OtaSlots, Usable(record', s)
          PROVE  tested'[s]
      <3>1. tested'[s] = (tested[s] \/ s = running')
        BY <1>3 DEF Boot
      <3>2. CASE record'[s] = "valid"
        <4>1. record[s] = "valid"
          BY <1>3, <3>2, BootRecords
        <4> QED
          BY <3>1, <4>1 DEF ConfirmedHasRun
      <3>3. CASE record'[s] = "pending"
        <4>1. s = running'
          BY <1>3, <2>1, <3>3, BootRecords
        <4> QED
          BY <3>1, <4>1
      <3> QED
        BY <2>2, <2>3, <3>2, <3>3 DEF Usable
    <2> QED
      BY <2>1, <2>2, <2>3
  <1>4. CASE /\ UNCHANGED <<running, record, newest, tested, fallback, pending>>
             /\ queued' = queued
             /\ workerPc' # workerPc =>
                   ~(workerPc \in {"give", "wait"}) \/ workerPc' = "wait"
             /\ httpdPc' = "flashQueue" => httpdPc = "flashQueue"
    BY <1>4 DEF TrialIsQuiet, Usable
  <1> QED
    BY <1>1, <1>2, <1>3, <1>4, QuietSteps

\* The one step that confirms comes in a trial, when all that counts has run.
LEMMA ConfirmedStep ==
    TypeOK /\ TypeOK' /\ NewIsNewest /\ TrialIsQuiet /\ ConfirmedHasRun
        /\ [Next]_vars => ConfirmedHasRun'
  <1> SUFFICES ASSUME TypeOK, TypeOK', NewIsNewest, TrialIsQuiet,
                      ConfirmedHasRun, [Next]_vars,
                      NEW s \in OtaSlots, record'[s] = "valid"
               PROVE  tested'[s]
    BY DEF ConfirmedHasRun
  <1>1. CASE ConfirmMark
    <2>1. record[s] = "valid" \/ Usable(record, s)
      BY <1>1 DEF ConfirmMark, Active, TypeOK, DataTypeOK
    <2> QED
      BY <1>1, <2>1 DEF ConfirmMark, TrialIsQuiet, Usable
  <1>2. CASE RollbackMark
    <2>1. record[s] = "valid" /\ tested' = tested
      BY <1>2 DEF RollbackMark, TypeOK, DataTypeOK
    <2> QED
      BY <2>1 DEF ConfirmedHasRun
  <1>3. CASE WorkerSelect
    <2>1. record[s] = "valid" /\ (s # Slot \/ tested' = tested)
      BY <1>3, SlotProperties DEF WorkerSelect, TypeOK, DataTypeOK
    <2>2. tested[s]
      BY <2>1 DEF ConfirmedHasRun
    <2>3. tested' = tested \/ tested' = [tested EXCEPT ![Slot] = FALSE]
      BY <1>3 DEF WorkerSelect
    <2> QED
      BY <2>1, <2>2, <2>3 DEF TypeOK, FlagsTypeOK
  <1>4. CASE Boot /\ StackInit
    <2>1. record[s] = "valid"
      BY <1>4, BootRecords
    <2>2. tested'[s] = (tested[s] \/ s = running')
      BY <1>4 DEF Boot
    <2> QED
      BY <2>1, <2>2 DEF ConfirmedHasRun
  <1>5. CASE UNCHANGED <<record, tested>>
    BY <1>5 DEF ConfirmedHasRun
  <1> QED
    BY <1>1, <1>2, <1>3, <1>4, <1>5, QuietSteps
       DEF FlashCheck, FlashQueue, ConfirmClear, WorkerReceive, persistentVars

\* During a trial the handlers change the record of the image on trial only
\* together with the position or the flag that tells of it.
LEMMA TrialStep ==
    TypeOK /\ TypeOK' /\ NewIsNewest /\ TrialIsQuiet /\ TrialPhases
        /\ [Next]_vars => TrialPhases'
  <1> SUFFICES ASSUME TypeOK, TypeOK', NewIsNewest, TrialIsQuiet, TrialPhases,
                      [Next]_vars, pending', running' = newest'
               PROVE  /\ record'[newest'] \in {"pending", "valid", "invalid"}
                      /\ record'[newest'] = "valid" => httpdPc' = "confirmClear"
                      /\ record'[newest'] = "invalid" =>
                            restart' \/ httpdPc' = "rollbackSchedule"
                      /\ restart' \/ httpdPc' = "rollbackSchedule" =>
                            record'[newest'] = "invalid"
                      /\ httpdPc' \in {"rollbackCheck", "rollbackMark"} =>
                            record'[newest'] = "pending"
    BY DEF TrialPhases
  <1>1. CASE FlashCheck \/ FlashQueue \/ ConfirmClear
    BY <1>1 DEF FlashCheck, FlashQueue, ConfirmClear, TrialIsQuiet, flagVars
  <1>2. CASE WorkerReceive \/ WorkerBegin \/ WorkerWrite \/ WorkerWriteFails \/
             WorkerTimeout \/ WorkerRecvFails
    BY <1>2 DEF WorkerReceive, WorkerBegin, WorkerWrite, WorkerWriteFails,
           WorkerTimeout, WorkerRecvFails, TrialIsQuiet, flagVars
  <1>3. CASE WorkerCompare \/ WorkerEnd \/ WorkerSelect \/ WorkerComplete \/
             WorkerFinish
    BY <1>3 DEF WorkerCompare, WorkerEnd, WorkerSelect, WorkerComplete,
           WorkerFinish, TrialIsQuiet, flagVars
  <1>4. CASE ConfirmMark
    <2>1. pending /\ running = newest /\ UNCHANGED <<newest, restart>>
             /\ httpdPc = "idle" /\ httpdPc' = "confirmClear"
      BY <1>4 DEF ConfirmMark, flagVars
    <2>2. CASE record[newest] = "pending"
      <3>1. Active(record, newest) = newest
        BY <2>2 DEF Active, Usable
      <3>2. record'[newest] = "valid"
        BY <1>4, <3>1 DEF ConfirmMark, TypeOK, DataTypeOK
      <3>3. ~restart
        BY <2>1, <2>2 DEF TrialPhases
      <3> QED
        BY <2>1, <3>2, <3>3
    <2>3. CASE record[newest] = "invalid"
      <3>1. Active(record, newest) # newest
        BY <2>3 DEF Active, Usable, OtherSlot, TypeOK, DataTypeOK, OtaSlots
      <3>2. record'[newest] = "invalid"
        BY <1>4, <2>3, <3>1 DEF ConfirmMark, TypeOK, DataTypeOK
      <3>3. restart
        BY <2>1, <2>3 DEF TrialPhases
      <3> QED
        BY <2>1, <3>2, <3>3
    <2> QED
      BY <2>1, <2>2, <2>3 DEF TrialPhases
  <1>5. CASE RollbackMark
    <2>1. pending /\ running = newest /\ UNCHANGED <<newest, restart>>
             /\ httpdPc = "rollbackMark"
      BY <1>5 DEF RollbackMark, flagVars
    <2>2. CASE /\ record' = [record EXCEPT ![Active(record, newest)] = "invalid"]
               /\ httpdPc' = "rollbackSchedule"
      <3>1. record'[newest] = "invalid"
        <4>1. CASE record[newest] = "invalid"
          BY <2>2, <4>1 DEF TypeOK, DataTypeOK
        <4>2. CASE record[newest] # "invalid"
          <5>1. Active(record, newest) = newest
            BY <2>1, <4>2 DEF TrialPhases, Active, Usable
          <5> QED
            BY <2>2, <5>1 DEF TypeOK, DataTypeOK
        <4> QED
          BY <4>1, <4>2
      <3> QED
        BY <2>1, <2>2, <3>1
    <2>3. CASE UNCHANGED record /\ httpdPc' = "idle"
      BY <2>1, <2>3 DEF TrialPhases
    <2> QED
      BY <1>5, <2>2, <2>3 DEF RollbackMark
  <1>6. CASE RollbackSchedule
    BY <1>6 DEF RollbackSchedule, TrialPhases, persistentVars
  <1>7. CASE ConfirmStop \/ RollbackCheckRestart \/ RollbackCheckPossible
    <2>1. UNCHANGED <<running, record, newest, pending, restart>>
      BY <1>7 DEF ConfirmStop, RollbackCheckRestart, RollbackCheckPossible,
             persistentVars, flagVars
    <2>2. \/ httpdPc = "confirmStop" /\ httpdPc' = "idle"
          \/ httpdPc = "idle" /\ ~restart /\ httpdPc' = "rollbackCheck"
          \/ httpdPc = "rollbackCheck" /\ httpdPc' \in {"rollbackMark", "idle"}
      BY <1>7 DEF ConfirmStop, RollbackCheckRestart, RollbackCheckPossible
    <2> QED
      BY <2>1, <2>2 DEF TrialPhases
  <1>8. CASE WorkerGive \/ ConfirmationTimeout \/ UNCHANGED vars
    <2>1. UNCHANGED <<running, record, newest, pending, restart, httpdPc>>
      BY <1>8 DEF WorkerGive, ConfirmationTimeout, vars, persistentVars,
             flagVars
    <2> QED
      BY <2>1 DEF TrialPhases
  <1>9. CASE Boot /\ StackInit
    BY <1>9 DEF Boot, StackInit
  <1> QED
    BY <1>1, <1>2, <1>3, <1>4, <1>5, <1>6, <1>7, <1>8, <1>9, Reboots
       DEF Next, HttpdRuns, WorkerRuns

\* A boot sets the flag exactly when the image it runs is on trial, and the
\* flag is cleared after the record has been changed.
LEMMA TrialRunsStep ==
    TypeOK /\ TypeOK' /\ NewIsNewest /\ TrialIsQuiet /\ TrialPhases
        /\ TrialIsRunning /\ [Next]_vars => TrialIsRunning'
  <1> SUFFICES ASSUME TypeOK, TypeOK', NewIsNewest, TrialIsQuiet, TrialPhases,
                      TrialIsRunning, [Next]_vars
               PROVE  TrialIsRunning'
    OBVIOUS
  <1>1. CASE ConfirmMark
    <2>1. /\ pending' = pending /\ running' = running /\ newest' = newest
          /\ pending /\ running = newest /\ httpdPc = "idle"
      BY <1>1 DEF ConfirmMark, TrialIsRunning, flagVars
    <2>2. \A s \in OtaSlots : record'[s] = "pending" => record[s] = "pending"
      BY <1>1 DEF ConfirmMark, TypeOK, DataTypeOK
    <2>3. record'[newest] # "pending"
      <3>1. CASE record[newest] = "pending"
        <4>1. Active(record, newest) = newest
          BY <3>1 DEF Active, Usable
        <4> QED
          BY <1>1, <4>1 DEF ConfirmMark, TypeOK, DataTypeOK
      <3>2. CASE record[newest] # "pending"
        BY <2>2, <3>2 DEF TypeOK, DataTypeOK
      <3> QED
        BY <3>1, <3>2
    <2> QED
      BY <2>1, <2>2, <2>3 DEF TrialIsRunning
  <1>2. CASE RollbackMark
    <2>1. /\ UNCHANGED <<pending, running, newest>>
          /\ httpdPc' # "confirmClear"
      BY <1>2 DEF RollbackMark, flagVars
    <2>2. \A s \in OtaSlots : record'[s] = "pending" => record[s] = "pending"
      BY <1>2 DEF RollbackMark, TypeOK, DataTypeOK
    <2>3. running # "factory" => running \in OtaSlots
      BY DEF TypeOK, DataTypeOK, Slots
    <2> QED
      BY <2>1, <2>2, <2>3 DEF TrialIsRunning
  <1>3. CASE WorkerSelect
    <2>1. ~pending /\ pending' = pending /\ running' = running
      BY <1>3 DEF WorkerSelect, TrialIsQuiet, flagVars
    <2>2. \A s \in OtaSlots : record'[s] = "pending" => record[s] = "pending"
      BY <1>3 DEF WorkerSelect, TypeOK, DataTypeOK
    <2>3. running # "factory" => running \in OtaSlots
      BY DEF TypeOK, DataTypeOK, Slots
    <2> QED
      BY <2>1, <2>2, <2>3 DEF TrialIsRunning
  <1>4. CASE ConfirmClear
    BY <1>4 DEF ConfirmClear, persistentVars, TrialIsRunning
  <1>5. CASE FlashCheck \/ FlashQueue \/ WorkerReceive
    <2>1. /\ UNCHANGED <<pending, running, newest, record>>
          /\ httpdPc' = "confirmClear" => httpdPc = "confirmClear"
      BY <1>5 DEF FlashCheck, FlashQueue, WorkerReceive, persistentVars,
             flagVars
    <2> QED
      BY <2>1 DEF TrialIsRunning
  <1>6. CASE Boot /\ StackInit
    <2>1. \A s \in OtaSlots : record'[s] = "pending" => s = newest'
      BY <1>6, BootRecords DEF Boot
    <2>2. running' # "factory" => running' \in OtaSlots
      BY DEF TypeOK, DataTypeOK, Slots
    <2>3. /\ pending' <=> running' # "factory" /\ record'[running'] = "pending"
          /\ httpdPc' = "idle"
      BY <1>6 DEF StackInit
    <2> QED
      BY <2>1, <2>2, <2>3 DEF TrialIsRunning
  <1>7. CASE /\ UNCHANGED <<running, record, newest, pending>>
             /\ httpdPc' = "confirmClear" => httpdPc = "confirmClear"
    BY <1>7 DEF TrialIsRunning
  <1> QED
    BY <1>1, <1>2, <1>3, <1>4, <1>5, <1>6, <1>7, QuietSteps

\* While a new image waits for its trial or is on it, nothing touches the
\* image it was uploaded from, nor its record.
LEMMA FallbackStep ==
    TypeOK /\ TypeOK' /\ NewIsNewest /\ TrialIsQuiet /\ TrialPhases
        /\ RunningIsWhole /\ FallbackIsKept /\ [Next]_vars => FallbackIsKept'
  <1> SUFFICES ASSUME TypeOK, TypeOK', NewIsNewest, TrialIsQuiet, TrialPhases,
                      RunningIsWhole, FallbackIsKept, [Next]_vars,
                      fallback' # "none",
                      \/ record'[newest'] = "new"
                      \/ pending' /\ running' = newest'
               PROVE  /\ fallback' = Older'
                      /\ fallback' # "factory" => record'[fallback'] = "valid"
                      /\ Whole(image', fallback')
                      /\ record'[newest'] = "new" => running' = fallback'
    BY DEF FallbackIsKept
  <1> DEFINE other == OtherSlot(newest)
  <1>0. other \in OtaSlots /\ other # newest
    BY DEF OtherSlot, OtaSlots
  <1>1. CASE WorkerSelect
    <2>1. CASE /\ record' = [record EXCEPT ![Slot] = "new"]
               /\ newest' = Slot
               /\ fallback' = IF RunsTrusted THEN running ELSE "none"
      <3>1. RunsTrusted /\ fallback' = running /\ running' = running
               /\ image' = image
        BY <1>1, <2>1 DEF WorkerSelect
      <3>2. record'[OtherSlot(Slot)] = record[OtherSlot(Slot)]
        BY <2>1, SlotProperties DEF TypeOK, DataTypeOK
      <3>3. running = Older'
        <4>1. \A s \in OtaSlots :
                 [record EXCEPT ![Slot] = "empty"][s] =
                    IF s = Slot THEN "empty" ELSE record[s]
          BY SlotProperties DEF TypeOK, DataTypeOK
        <4>2. newest = Slot \/ newest = OtherSlot(Slot)
          BY SlotProperties DEF TypeOK, DataTypeOK
        <4>3. OtherSlot(OtherSlot(Slot)) = Slot
          BY SlotProperties DEF OtherSlot, OtaSlots
        <4>4. Active([record EXCEPT ![Slot] = "empty"], newest) =
                 IF Usable(record, OtherSlot(Slot)) THEN OtherSlot(Slot)
                                                    ELSE "factory"
          BY <4>1, <4>2, <4>3, SlotProperties DEF Active, Usable
        <4> QED
          BY <2>1, <3>1, <3>2, <4>4 DEF RunsTrusted, Older, Usable
      <3>4. running # "factory" => record'[running] = "valid"
        BY <2>1, <3>1, SlotProperties
           DEF RunsTrusted, TypeOK, DataTypeOK, Slots
      <3> QED
        BY <3>1, <3>3, <3>4 DEF RunningIsWhole
    <2>2. CASE UNCHANGED <<record, newest, fallback>>
      BY <1>1, <2>2 DEF WorkerSelect, FallbackIsKept, Older, flagVars
    <2> QED
      BY <1>1, <2>1, <2>2 DEF WorkerSelect
  <1>2. CASE WorkerWrite \/ WorkerWriteFails
    <2>1. /\ UNCHANGED <<running, record, newest, fallback, pending>>
          /\ ~pending
      BY <1>2 DEF WorkerWrite, WorkerWriteFails, TrialIsQuiet, flagVars
    <2>2. /\ fallback = Older /\ running = fallback
          /\ fallback # "factory" => record[fallback] = "valid"
      BY <2>1 DEF FallbackIsKept
    <2>3. Whole(image', running')
      BY <1>2, SlotProperties
         DEF WorkerWrite, WorkerWriteFails, RunningIsWhole, Whole, TypeOK,
             DataTypeOK
    <2> QED
      BY <2>1, <2>2, <2>3 DEF Older
  <1>3. CASE ConfirmMark \/ (RollbackMark /\ record' # record)
    <2>1. pending /\ UNCHANGED <<running, image, newest, fallback>>
      <3>1. UNCHANGED <<running, image, newest, fallback, pending>>
        BY <1>3 DEF ConfirmMark, RollbackMark, flagVars
      <3>2. CASE ConfirmMark
        BY <3>1, <3>2 DEF ConfirmMark
      <3>3. CASE RollbackMark /\ record' # record
        <4>1. record' = [record EXCEPT ![Active(record, newest)] = "invalid"]
          BY <3>3 DEF RollbackMark
        <4>2. record'[newest] # "new"
          <5>1. CASE record[newest] = "new"
            BY <4>1, <5>1 DEF Active, Usable, TypeOK, DataTypeOK
          <5>2. CASE record[newest] # "new"
            BY <4>1, <5>2 DEF TypeOK, DataTypeOK
          <5> QED
            BY <5>1, <5>2
        <4> QED
          BY <3>1, <4>2
      <3> QED
        BY <1>3, <3>2, <3>3
    <2>2. /\ record[newest] # "new" /\ running \in OtaSlots
          /\ \A s \in OtaSlots : record'[s] # "new"
      <3>1. record' = record
               \/ \E a \in Slots, r \in {"valid", "invalid"} :
                     record' = [record EXCEPT ![a] = r]
        BY <1>3 DEF ConfirmMark, RollbackMark, RollbackPossible, Active, Slots,
               OtherSlot, OtaSlots, TypeOK, DataTypeOK
      <3> QED
        BY <2>1, <3>1 DEF TrialIsQuiet, TypeOK, DataTypeOK, Slots
    <2>3. /\ running = newest
          /\ fallback = Older /\ Whole(image, fallback)
          /\ fallback # "factory" => record[fallback] = "valid"
      BY <2>1, <2>2 DEF FallbackIsKept, TypeOK, DataTypeOK
    <2>4. \/ record'[other] = record[other]
          \/ record[other] = "valid" /\ record'[other] = "valid"
      <3>1. CASE record[newest] = "pending"
        <4>1. Active(record, newest) = newest
          BY <3>1 DEF Active, Usable
        <4>2. record' = record \/ \E r \in {"valid", "invalid"} :
                 record' = [record EXCEPT ![newest] = r]
          BY <1>3, <4>1 DEF ConfirmMark, RollbackMark
        <4>3. CASE record' = record
          BY <4>3
        <4>4. ASSUME NEW r \in {"valid", "invalid"},
                     record' = [record EXCEPT ![newest] = r]
              PROVE  record'[other] = record[other]
          BY <1>0, <4>4 DEF TypeOK, DataTypeOK
        <4> QED
          BY <4>2, <4>3, <4>4
      <3>2. CASE record[newest] # "pending" /\ ConfirmMark
        <4>1. record[newest] = "invalid"
          BY <2>1, <2>3, <3>2 DEF ConfirmMark, TrialPhases
        <4>2. Active(record, newest) = other /\ Usable(record, other)
          BY <3>2, <4>1 DEF ConfirmMark, Active, Usable
        <4>3. record[other] = "valid"
          BY <1>0, <2>3, <4>2 DEF Older, OtaSlots
        <4> QED
          BY <1>0, <3>2, <4>2, <4>3 DEF ConfirmMark, TypeOK, DataTypeOK
      <3>3. CASE record[newest] # "pending" /\ RollbackMark
        BY <2>1, <2>3, <3>3 DEF RollbackMark, TrialPhases
      <3> QED
        BY <1>3, <3>1, <3>2, <3>3
    <2> QED
      BY <1>0, <2>1, <2>2, <2>3, <2>4 DEF Older, Usable, TypeOK, DataTypeOK
  <1>4. CASE Boot /\ StackInit
    <2>1. UNCHANGED <<image, newest, fallback>>
      BY <1>4 DEF Boot
    <2>2. record'[newest] # "new" /\ running' = newest
      BY <1>4, <2>1, BootRecords DEF TypeOK, DataTypeOK
    <2>3. record[newest] = "new"
      BY <1>4, <2>1, <2>2, BootRecords DEF StackInit, TypeOK, DataTypeOK
    <2>4. /\ fallback = Older /\ Whole(image, fallback)
          /\ fallback # "factory" => record[fallback] = "valid"
      BY <2>1, <2>3 DEF FallbackIsKept
    <2>5. Usable(record', other) <=> Usable(record, other)
      <3>1. CASE Usable(record, other)
        <4>1. record[other] = "valid"
          BY <1>0, <2>4, <3>1 DEF Older, OtaSlots
        <4> QED
          BY <1>0, <1>4, <3>1, <4>1, BootRecords DEF Usable
      <3> QED
        BY <1>0, <1>4, <3>1, BootRecords
    <2>6. fallback # "factory" => fallback \in OtaSlots
      BY <1>0, <2>4 DEF Older
    <2> QED
      BY <1>4, <2>1, <2>2, <2>4, <2>5, <2>6, BootRecords DEF Older
  <1>5. CASE ConfirmClear
    BY <1>5 DEF ConfirmClear, FallbackIsKept, Older, persistentVars
  <1>6. CASE UNCHANGED <<running, image, record, newest, fallback, pending>>
    BY <1>6 DEF FallbackIsKept, Older
  <1>7. CASE RollbackMark /\ record' = record
    BY <1>7 DEF RollbackMark, FallbackIsKept, Older, flagVars
  <1>8. CASE \/ FlashCheck \/ FlashQueue \/ ConfirmStop
             \/ RollbackCheckRestart \/ RollbackCheckPossible
             \/ RollbackSchedule \/ ConfirmationTimeout \/ UNCHANGED vars
    BY <1>6, <1>8
       DEF FlashCheck, FlashQueue, ConfirmStop, RollbackCheckRestart,
           RollbackCheckPossible, RollbackSchedule, ConfirmationTimeout, vars,
           persistentVars, flagVars
  <1>9. CASE \/ WorkerGive \/ WorkerReceive \/ WorkerBegin \/ WorkerTimeout
             \/ WorkerRecvFails \/ WorkerCompare \/ WorkerEnd
             \/ WorkerComplete \/ WorkerFinish
    BY <1>6, <1>9
       DEF WorkerGive, WorkerReceive, WorkerBegin, WorkerTimeout,
           WorkerRecvFails, WorkerCompare, WorkerEnd, WorkerComplete,
           WorkerFinish, persistentVars, flagVars
  <1> QED
    BY <1>1, <1>2, <1>3, <1>4, <1>5, <1>7, <1>8, <1>9, Reboots
       DEF Next, HttpdRuns, WorkerRuns

-----------------------------------------------------------------------------
(* Theorems.                                                               *)

\* A device as it leaves the factory satisfies the invariant.
LEMMA Initially == Init => IInv
  <1> SUFFICES ASSUME Init PROVE IInv
    OBVIOUS
  <1>1. DataTypeOK
    BY ChunksAssumption, TimeoutsAssumption
       DEF Init, DataTypeOK, Slots, OtaSlots, ImageStates, RecordStates,
           HttpdPcs, WorkerPcs
  <1>2. FlagsTypeOK
    BY DEF Init, FlagsTypeOK, Bodies
  <1>3. ConfirmedHasRun /\ NewIsNewest /\ TrialIsQuiet /\ UploadPhases
    BY DEF Init, ConfirmedHasRun, NewIsNewest, TrialIsQuiet, UploadPhases
  <1>4. RunningIsWhole /\ TrialPhases /\ TrialIsRunning /\ FallbackIsKept
    BY DEF Init, RunningIsWhole, Whole, OtaSlots, TrialPhases, TrialIsRunning,
           FallbackIsKept
  <1> QED
    BY <1>1, <1>2, <1>3, <1>4 DEF IInv, TypeOK

\* Every step of a handler, of the worker, of a timer, and every reboot keep
\* the invariant.
LEMMA Inductive == IInv /\ [Next]_vars => IInv'
  <1> SUFFICES ASSUME IInv, [Next]_vars PROVE IInv'
    OBVIOUS
  <1> USE DEF IInv
  <1>1. TypeOK'
    BY FlagsTyping, DataTyping DEF TypeOK
  <1>2. ConfirmedHasRun' /\ NewIsNewest' /\ TrialIsQuiet'
    BY <1>1, ConfirmedStep, NewStep, QuietStep
  <1>3. UploadPhases' /\ RunningIsWhole'
    BY UploadStep, RunningStep
  <1>4. TrialPhases' /\ TrialIsRunning' /\ FallbackIsKept'
    BY <1>1, TrialStep, TrialRunsStep, FallbackStep
  <1> QED
    BY <1>1, <1>2, <1>3, <1>4

THEOREM Invariance == Spec => []IInv
  BY Initially, Inductive, PTL DEF Spec

\* Every variable keeps to its type; in particular the worker never counts
\* more than MaxTimeouts timeouts in a row.
THEOREM TypeCorrectness == Spec => []TypeOK
  BY Invariance, PTL DEF IInv

\* No confirmation, however late or early it comes, vouches for an image that
\* has not run.
THEOREM OnlyRunImagesAreConfirmed == Spec => []ConfirmedHasRun
  BY Invariance, PTL DEF IInv

\* The invariant gives a trial its way back.
LEMMA FallbackIsNext == IInv => TrialHasFallback
  <1> SUFFICES ASSUME IInv, pending, running = newest, fallback # "none"
               PROVE  /\ Active(Rejected(record), newest) \in {fallback, newest}
                      /\ Active(Rejected(record), newest) = newest =>
                            record[newest] = "valid"
                      /\ Whole(image, fallback)
    BY DEF TrialHasFallback
  <1> DEFINE other == OtherSlot(newest)
  <1>1. newest \in OtaSlots /\ other \in OtaSlots /\ other # newest
    BY DEF IInv, TypeOK, DataTypeOK, OtherSlot, OtaSlots
  <1>2. /\ fallback = Older /\ Whole(image, fallback)
        /\ fallback # "factory" => record[fallback] = "valid"
    BY DEF IInv, FallbackIsKept
  <1>3. record[newest] \in {"pending", "valid", "invalid"}
    BY DEF IInv, TrialPhases
  <1>4. \A s \in OtaSlots :
           Rejected(record)[s] = IF record[s] = "pending" THEN "invalid"
                                                          ELSE record[s]
    BY DEF Rejected
  <1>5. Usable(Rejected(record), newest) <=> record[newest] = "valid"
    BY <1>1, <1>3, <1>4 DEF Usable
  <1>6. Usable(Rejected(record), other) <=> Usable(record, other)
    <2>1. CASE Usable(record, other)
      <3>1. record[other] = "valid"
        BY <1>1, <1>2, <2>1 DEF Older, OtaSlots
      <3> QED
        BY <1>1, <1>4, <2>1, <3>1 DEF Usable
    <2>2. CASE ~Usable(record, other)
      BY <1>1, <1>4, <2>2 DEF Usable
    <2> QED
      BY <2>1, <2>2
  <1>7. Active(Rejected(record), newest) =
           IF record[newest] = "valid" THEN newest ELSE fallback
    BY <1>2, <1>5, <1>6 DEF Active, Older
  <1>8. fallback # newest
    BY <1>1, <1>2 DEF Older, OtaSlots
  <1> QED
    BY <1>2, <1>7, <1>8

\* Whenever an image on trial runs that was uploaded from a confirmed one, a
\* reset at this moment boots the confirmed one, or the one on trial if that
\* has been confirmed meanwhile.
THEOREM TrialCanGoBack == Spec => []TrialHasFallback
  BY Invariance, FallbackIsNext, PTL

\* A slot is selected for its trial only by an upload that arrived to the last
\* byte, matched its checksum and verified.
THEOREM VerifiedBeforeSelected == Spec => OnlyVerifiedIsSelected
  <1>1. IInv /\ [Next]_vars =>
           [\A s \in OtaSlots :
               (record[s] # "new" /\ record'[s] = "new") =>
                   remaining = 0 /\ body.matches /\ image[s] = "whole"]_vars
    <2> SUFFICES ASSUME IInv, [Next]_vars,
                        NEW s \in OtaSlots, record[s] # "new", record'[s] = "new"
                 PROVE  remaining = 0 /\ body.matches /\ image[s] = "whole"
      OBVIOUS
    <2>1. TypeOK /\ NewIsNewest /\ UploadPhases
      BY DEF IInv
    <2>2. CASE WorkerSelect
      <3>1. workerPc = "select" /\ s = Slot
        BY <2>1, <2>2, SlotProperties DEF WorkerSelect, TypeOK, DataTypeOK
      <3> QED
        BY <2>1, <3>1 DEF UploadPhases
    <2>3. CASE Boot /\ StackInit
      BY <2>1, <2>3, BootRecords
    <2>4. CASE ConfirmMark \/ RollbackMark
      BY <2>1, <2>4 DEF ConfirmMark, RollbackMark, TypeOK, DataTypeOK
    <2>5. CASE record' = record
      BY <2>5
    <2> QED
      BY <2>2, <2>3, <2>4, <2>5, QuietSteps
         DEF FlashCheck, FlashQueue, ConfirmClear, WorkerReceive,
             persistentVars
  <1> QED
    BY <1>1, Invariance, PTL DEF Spec, OnlyVerifiedIsSelected

-----------------------------------------------------------------------------
(* OtaUpdate implements OneTrial.                                          *)

\* While the record of the running image is on trial, so is the device.
LEMMA TrialIsPending ==
    ASSUME IInv, Promise!OnTrial
    PROVE  /\ pending /\ running = newest
           /\ running \in OtaSlots /\ record[running] = "pending"
  BY DEF IInv, TrialIsRunning, Promise!OnTrial, Promise!Marked, OtaSlots

\* What the promise says of a record in terms of the code's.
LEMMA MarkedIsNew ==
    ASSUME IInv
    PROVE  Promise!Marked("new") \subseteq {Slot} \cap {newest}
  BY DEF IInv, NewIsNewest, Promise!Marked

\* A buffer that is written changes the slot of the upload.
LEMMA WriteMaps ==
    ASSUME IInv, WorkerWrite \/ WorkerWriteFails
    PROVE  \E s \in OtaSlots : Promise!Write(s)
  <1>1. ~pending
    BY DEF WorkerWrite, WorkerWriteFails, IInv, TrialIsQuiet
  <1>2. ~Promise!OnTrial
    BY <1>1, TrialIsPending
  <1>3. /\ UNCHANGED <<running, record>>
        /\ \A s \in OtaSlots : s # Slot => image'[s] = image[s]
    BY SlotProperties DEF WorkerWrite, WorkerWriteFails, IInv, TypeOK, DataTypeOK
  <1>4. Intact' \in {Intact \cup {Slot}, Intact \ {Slot}}
    <2>1. CASE image'[Slot] = "whole"
      <3>1. Intact' = Intact \cup {Slot}
        BY <1>3, <2>1, SlotProperties DEF Intact
      <3> QED
        BY <3>1
    <2>2. CASE image'[Slot] # "whole"
      <3>1. Intact' = Intact \ {Slot}
        BY <1>3, <2>2, SlotProperties DEF Intact
      <3> QED
        BY <3>1
    <2> QED
      BY <2>1, <2>2
  <1>5. Promise!Write(Slot)
    BY <1>2, <1>3, <1>4, SlotProperties DEF Promise!Write
  <1> QED
    BY <1>5, SlotProperties

\* The upload that is selected is whole, and no other waits for its trial.
LEMMA SelectMaps ==
    ASSUME IInv, WorkerSelect
    PROVE  \/ \E s \in OtaSlots : Promise!Accept(s)
           \/ UNCHANGED Promise!vars
  <1>1. ~pending /\ image[Slot] = "whole" /\ UNCHANGED <<running, image>>
    BY DEF WorkerSelect, IInv, TrialIsQuiet, UploadPhases
  <1>2. ~Promise!OnTrial
    BY <1>1, TrialIsPending
  <1>3. Intact' = Intact /\ Slot \in Intact
    BY <1>1, SlotProperties DEF Intact
  <1>4. CASE record' = [record EXCEPT ![Slot] = "new"]
    <2>1. Promise!Accept(Slot)
      BY <1>1, <1>2, <1>3, <1>4, MarkedIsNew, SlotProperties
         DEF Promise!Accept
    <2> QED
      BY <2>1, SlotProperties
  <1>5. CASE record' = record
    BY <1>1, <1>3, <1>5 DEF Promise!vars
  <1> QED
    BY <1>4, <1>5 DEF WorkerSelect

\* A confirmation that is accepted concerns the image on trial; one that comes
\* after a rollback marks what is marked already.
LEMMA ConfirmMaps ==
    ASSUME IInv, ConfirmMark
    PROVE  Promise!Confirm \/ UNCHANGED Promise!vars
  <1>1. /\ pending /\ running = newest /\ newest \in OtaSlots
        /\ httpdPc = "idle" /\ UNCHANGED <<running, image>>
    BY DEF ConfirmMark, IInv, TrialIsRunning, TypeOK, DataTypeOK
  <1>2. record[newest] \in {"pending", "invalid"}
    BY <1>1 DEF IInv, TrialPhases
  <1>3. Intact' = Intact
    BY <1>1 DEF Intact
  <1>4. CASE record[newest] = "pending"
    <2>1. Active(record, newest) = newest
      BY <1>4 DEF Active, Usable
    <2>2. record' = [record EXCEPT ![running] = "valid"]
      BY <1>1, <2>1 DEF ConfirmMark
    <2> QED
      BY <1>1, <1>3, <1>4, <2>2
         DEF Promise!Confirm, Promise!OnTrial, Promise!Marked
  <1>5. CASE record[newest] = "invalid"
    <2> DEFINE other == OtherSlot(newest)
    <2>1. other \in OtaSlots /\ other # newest
      BY DEF OtherSlot, OtaSlots
    <2>2. Active(record, newest) = other /\ Usable(record, other)
      BY <1>5 DEF ConfirmMark, Active, Usable
    <2>3. record[other] = "valid"
      BY <1>1, <2>1, <2>2 DEF Usable, IInv, TrialIsQuiet, TrialIsRunning
    <2>4. record' = record
      BY <2>2, <2>3 DEF ConfirmMark, IInv, TypeOK, DataTypeOK
    <2> QED
      BY <1>1, <1>3, <2>4 DEF Promise!vars
  <1> QED
    BY <1>2, <1>4, <1>5

\* A rollback gives up the active record, with somewhere to go.
LEMMA RollbackMaps ==
    ASSUME IInv, RollbackMark
    PROVE  \/ \E s \in OtaSlots : Promise!Withdraw(s)
           \/ UNCHANGED Promise!vars
  <1> DEFINE active == Active(record, newest)
             other == OtherSlot(active)
  <1>1. UNCHANGED <<running, image>>
    BY DEF RollbackMark
  <1>2. Intact' = Intact
    BY <1>1 DEF Intact
  <1>3. CASE /\ RollbackPossible(record, newest, image)
             /\ record' = [record EXCEPT ![active] = "invalid"]
    <2>1. /\ active \in OtaSlots /\ Usable(record, active)
          /\ other \in OtaSlots
          /\ \A s \in OtaSlots : s # active => s = other
      BY <1>3
         DEF RollbackPossible, Active, OtherSlot, OtaSlots, IInv, TypeOK,
             DataTypeOK
    <2>2. Usable(record, newest) => active = newest
      BY DEF Active
    <2>3. Promise!OnTrial => active = running
      BY <2>2, TrialIsPending DEF Usable
    <2>4. Promise!Marked("new") \subseteq {active}
      <3> SUFFICES ASSUME NEW s \in OtaSlots, record[s] = "new"
                   PROVE  s = active
        BY DEF Promise!Marked
      <3>1. s = newest
        BY DEF IInv, NewIsNewest
      <3> QED
        BY <2>2, <3>1 DEF Usable
    <2>5. Usable(record, other) => other \in Intact
      BY <1>3, <2>1
         DEF RollbackPossible, RollbackTarget, Whole, Intact, OtaSlots
    <2>6. (Promise!Marked("new") \cup Promise!Marked("pending")
              \cup Promise!Marked("valid")) \ {active} \subseteq Intact
      BY <2>1, <2>5 DEF Promise!Marked, Usable
    <2>7. Promise!Withdraw(active)
      <3> HIDE DEF active
      <3> QED
        BY <1>1, <1>2, <1>3, <2>1, <2>3, <2>4, <2>6
           DEF Promise!Withdraw, Usable
    <2> QED
      BY <2>1, <2>7
  <1>4. CASE record' = record
    BY <1>1, <1>2, <1>4 DEF Promise!vars
  <1> QED
    BY <1>3, <1>4 DEF RollbackMark

\* A reset ends a trial that was not confirmed and begins that of a new image.
LEMMA BootMaps ==
    ASSUME IInv, Boot
    PROVE  Promise!Reset
  <1> DEFINE rejected == Rejected(record)
             selected == Active(rejected, newest)
             due == IF Promise!Marked("new") # {} THEN Promise!Marked("new")
                    ELSE IF Promise!Marked("valid") # {}
                         THEN Promise!Marked("valid") ELSE {"factory"}
             bootable == Intact \cup {"factory"}
  <1>1. /\ newest \in OtaSlots /\ OtherSlot(newest) \in OtaSlots
        /\ \A s \in OtaSlots : s # newest => s = OtherSlot(newest)
        /\ OtherSlot(newest) # newest
    BY DEF IInv, TypeOK, DataTypeOK, OtherSlot, OtaSlots
  <1>2. \A s \in OtaSlots :
           rejected[s] = IF record[s] = "pending" THEN "invalid" ELSE record[s]
    BY DEF Rejected
  <1>3. \A s \in OtaSlots : Usable(rejected, s) <=> record[s] \in {"new", "valid"}
    BY <1>2 DEF Usable
  <1>4. \A s \in OtaSlots : record[s] = "new" => s = selected /\ s = newest
    BY <1>1, <1>3 DEF IInv, NewIsNewest, Active
  <1>5. record' = [s \in OtaSlots |->
                      CASE record[s] = "pending" -> "invalid"
                        [] record[s] = "new"     -> "pending"
                        [] OTHER                 -> record[s]]
    <2>1. record' = Trial(rejected, selected)
      BY DEF Boot
    <2>2. \A s \in OtaSlots :
             record'[s] = IF record[s] = "new" THEN "pending" ELSE rejected[s]
      BY <1>2, <1>4, <2>1 DEF Trial
    <2>3. record' = [s \in OtaSlots |-> record'[s]]
      BY <2>1 DEF Trial
    <2> QED
      BY <1>2, <2>2, <2>3
  <1>6. selected \in due
    <2>1. CASE Promise!Marked("new") # {}
      BY <1>4, <2>1 DEF Promise!Marked
    <2>2. CASE Promise!Marked("new") = {}
      <3>1. \A s \in OtaSlots : Usable(rejected, s) <=> s \in Promise!Marked("valid")
        BY <1>3, <2>2 DEF Promise!Marked
      <3>2. Promise!Marked("valid") \subseteq OtaSlots
        BY DEF Promise!Marked
      <3> QED
        BY <1>1, <2>2, <3>1, <3>2 DEF Active
    <2> QED
      BY <2>1, <2>2
  <1>7. \A s \in Slots : s \in bootable <=> Whole(image, s)
    BY DEF Intact, Whole, Slots, OtaSlots
  <1>8. selected \in Slots
    BY <1>1 DEF Active, Slots
  <1>9. running' \in BootChoices(image, selected)
    BY DEF Boot
  <1>10. \/ running' \in due \cap bootable
         \/ ~(due \subseteq bootable) /\ running' \in bootable
    <2> HIDE DEF selected, due, bootable
    <2>1. CASE Whole(image, selected)
      BY <1>6, <1>7, <1>8, <1>9, <2>1 DEF BootChoices
    <2>2. CASE ~Whole(image, selected)
      BY <1>6, <1>7, <1>8, <1>9, <2>2 DEF BootChoices
    <2> QED
      BY <2>1, <2>2
  <1>11. Intact' = Intact
    BY DEF Boot, Intact
  <1> QED
    BY <1>5, <1>10, <1>11 DEF Promise!Reset

\* Everything else that the handlers, the worker and the timers do is theirs.
LEMMA OthersStutter ==
    ASSUME \/ FlashCheck \/ FlashQueue \/ ConfirmClear \/ ConfirmStop
           \/ RollbackCheckRestart \/ RollbackCheckPossible \/ RollbackSchedule
           \/ WorkerGive \/ WorkerReceive \/ WorkerBegin \/ WorkerTimeout
           \/ WorkerRecvFails \/ WorkerCompare \/ WorkerEnd \/ WorkerComplete
           \/ WorkerFinish \/ ConfirmationTimeout \/ UNCHANGED vars
    PROVE  UNCHANGED Promise!vars
  <1>1. UNCHANGED <<running, record, image>>
    BY DEF FlashCheck, FlashQueue, ConfirmClear, ConfirmStop,
           RollbackCheckRestart, RollbackCheckPossible, RollbackSchedule,
           WorkerGive, WorkerReceive, WorkerBegin, WorkerTimeout,
           WorkerRecvFails, WorkerCompare, WorkerEnd, WorkerComplete,
           WorkerFinish, ConfirmationTimeout, vars, persistentVars
  <1> QED
    BY <1>1 DEF Promise!vars, Intact

\* ota_update.c keeps the promise of OneTrial: an image is written beside the
\* running one and never during a trial, is accepted when it is whole and no
\* other waits, is confirmed only while it runs on trial, and a reset between
\* any two steps boots what the records say is due.
THEOREM Implementation == Spec => ImplementsOneTrial
  <1>1. Init => Promise!Init
    BY DEF Init, Promise!Init, Intact
  <1>2. IInv /\ [Next]_vars => [Promise!Next]_(Promise!vars)
    <2> SUFFICES ASSUME IInv, [Next]_vars
                 PROVE  Promise!Next \/ UNCHANGED Promise!vars
      OBVIOUS
    <2>1. CASE Boot /\ StackInit
      BY <2>1, BootMaps DEF Promise!Next
    <2>2. CASE ConfirmMark \/ RollbackMark
      BY <2>2, ConfirmMaps, RollbackMaps DEF Promise!Next
    <2>3. CASE WorkerWrite \/ WorkerWriteFails \/ WorkerSelect
      BY <2>3, WriteMaps, SelectMaps DEF Promise!Next
    <2> QED
      BY <2>1, <2>2, <2>3, OthersStutter, Reboots DEF Next, HttpdRuns, WorkerRuns
  <1> QED
    BY <1>1, <1>2, Invariance, PTL DEF Spec, ImplementsOneTrial, Promise!Spec
=============================================================================
