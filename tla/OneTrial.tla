------------------------------ MODULE OneTrial ------------------------------
(***************************************************************************)
(* What the README (Slot sequence and automatic rollback) promises of an   *)
(* update, whatever handlers, workers, timers and resets carry it out: a   *)
(* new image is written beside the running one, gets one boot to prove     *)
(* itself, and is either confirmed while it runs or never booted again.    *)
(* Which of several confirmed images a boot takes is left open.            *)
(***************************************************************************)
CONSTANTS
    OtaSlots,       \* the slots that are updated
    Factory         \* the image that is always there

VARIABLES
    running,        \* the slot whose image runs
    record,         \* record[s]: "empty", "new", "pending" (on trial), "valid"
                    \* (confirmed) or "invalid" (rejected)
    intact          \* the OTA slots whose image can be booted

vars == <<running, record, intact>>

Init ==
    /\ running = Factory
    /\ record = [s \in OtaSlots |-> "empty"]
    /\ intact = {}

Marked(state) == {s \in OtaSlots : record[s] = state}

OnTrial == running \in Marked("pending")

\* Bytes of an image change a slot that does not run, and not during a trial.
Write(s) ==
    /\ s # running
    /\ ~OnTrial
    /\ intact' \in {intact \cup {s}, intact \ {s}}
    /\ UNCHANGED <<running, record>>

\* One image at a time is accepted, and only a bootable one.
Accept(s) ==
    /\ s # running
    /\ ~OnTrial
    /\ s \in intact
    /\ Marked("new") \subseteq {s}
    /\ record' = [record EXCEPT ![s] = "new"]
    /\ UNCHANGED <<running, intact>>

\* Only the image on trial is confirmed, and only while it runs.
Confirm ==
    /\ OnTrial
    /\ record' = [record EXCEPT ![running] = "valid"]
    /\ UNCHANGED <<running, intact>>

\* A rollback gives up the image a boot would take, when the one that is then
\* next in line can be booted.
Withdraw(s) ==
    LET others == (Marked("new") \cup Marked("pending") \cup Marked("valid")) \ {s}
    IN  /\ record[s] \in {"new", "pending", "valid"}
        /\ OnTrial => s = running
        /\ Marked("new") \subseteq {s}
        /\ others \subseteq intact
        /\ record' = [record EXCEPT ![s] = "invalid"]
        /\ UNCHANGED <<running, intact>>

\* A reset, wherever it comes: a trial that was not confirmed is over, that of
\* a new image begins; without a new image a confirmed one runs, without that
\* the factory's.  When the image that is due is damaged any bootable one runs.
Reset ==
    LET due == IF Marked("new") # {} THEN Marked("new")
               ELSE IF Marked("valid") # {} THEN Marked("valid") ELSE {Factory}
        bootable == intact \cup {Factory}
    IN  /\ record' = [s \in OtaSlots |->
                        CASE record[s] = "pending" -> "invalid"
                          [] record[s] = "new"     -> "pending"
                          [] OTHER                 -> record[s]]
        /\ \/ running' \in due \cap bootable
           \/ ~(due \subseteq bootable) /\ running' \in bootable
        /\ UNCHANGED intact

Next ==
    \/ \E s \in OtaSlots : Write(s) \/ Accept(s) \/ Withdraw(s)
    \/ Confirm
    \/ Reset

Spec == Init /\ [][Next]_vars
=============================================================================
