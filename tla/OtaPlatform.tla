----------------------------- MODULE OtaPlatform -----------------------------
(***************************************************************************)
(* What main/ota_update.c relies on in ESP-IDF: the OTA selection records, *)
(* the rollback rules of the bootloader and the partition chosen for the   *)
(* next update.  None of this is code of the repository; it is the part of *)
(* the platform's contract the code and the README (Slot sequence and      *)
(* automatic rollback) build on.                                           *)
(***************************************************************************)
EXTENDS FiniteSets

OtaSlots == {"ota_0", "ota_1"}
Slots == OtaSlots \cup {"factory"}

\* State of a slot's selection record; "invalid" stands for invalid and aborted.
RecordStates == {"empty", "new", "pending", "valid", "invalid"}

\* The image of a slot: verified by the bootloader, or not bootable.
ImageStates == {"whole", "damaged"}

Whole(image, s) == s \in OtaSlots => image[s] = "whole"

OtherSlot(s) == IF s = "ota_0" THEN "ota_1" ELSE "ota_0"

\* esp_ota_get_next_update_partition(NULL): never the running slot.
UpdateSlot(running) == IF running = "ota_0" THEN "ota_1" ELSE "ota_0"

Usable(record, s) == record[s] \in {"new", "pending", "valid"}

\* The record that counts: the usable one written last, or none, which
\* selects the factory application.
Active(record, newest) ==
    IF Usable(record, newest) THEN newest
    ELSE IF Usable(record, OtherSlot(newest)) THEN OtherSlot(newest)
    ELSE "factory"

\* A boot rejects an image whose previous boot was not confirmed ...
Rejected(record) ==
    [s \in OtaSlots |-> IF record[s] = "pending" THEN "invalid" ELSE record[s]]

\* ... and gives a newly selected one its trial.
Trial(record, s) ==
    [t \in OtaSlots |-> IF t = s /\ record[t] = "new" THEN "pending"
                                                      ELSE record[t]]

\* The images a boot may run: the selected one, or any bootable one when that
\* is damaged.
BootChoices(image, selected) ==
    IF Whole(image, selected) THEN {selected}
    ELSE {s \in Slots : Whole(image, s)}

\* Where a rollback leads: the active record is no longer counted.
RollbackTarget(record, newest) ==
    LET active == Active(record, newest)
    IN  IF active # "factory" /\ Usable(record, OtherSlot(active))
        THEN OtherSlot(active) ELSE "factory"

\* esp_ota_check_rollback_is_possible.
RollbackPossible(record, newest, image) ==
    /\ Active(record, newest) # "factory"
    /\ Whole(image, RollbackTarget(record, newest))
=============================================================================
