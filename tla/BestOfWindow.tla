----------------------------- MODULE BestOfWindow -----------------------------
(***************************************************************************)
(* What the GNSS input promises its consumers, whatever tasks and queues   *)
(* carry it out: a publication is the pair of lowest HDOP among those of   *)
(* one source accepted since the last choice, chosen while that source is  *)
(* the selected one.  An upload begins with an empty window, and ends only *)
(* when every pair accepted from it has competed and the winner is out.    *)
(* The publication itself may come after an upload has begun, not after    *)
(* one has ended.                                                          *)
(***************************************************************************)
EXTENDS Integers

CONSTANTS
    Pairs,          \* pairs of sentences: [hdop, from]
    None            \* no pair

VARIABLES
    source,         \* the selected source: "uart" or "http"
    window,         \* the pairs that compete for the next publication
    chosen,         \* the winner on its way to the publication, or None
    publication     \* the publication that nobody has taken yet: at most one

Init ==
    /\ source = "uart"
    /\ window = {}
    /\ chosen = None
    /\ publication = <<>>

Accept ==
    /\ \E p \in Pairs : p.from = {source} /\ window' = window \cup {p}
    /\ UNCHANGED <<source, chosen, publication>>

Choose ==
    /\ chosen = None
    /\ chosen' \in {p \in window : \A q \in window : p.hdop <= q.hdop}
    /\ window' = {}
    /\ UNCHANGED <<source, publication>>

Publish ==
    /\ chosen # None
    /\ publication' = <<chosen>>
    /\ chosen' = None
    /\ UNCHANGED <<source, window>>

Take ==
    /\ publication # <<>>
    /\ publication' = <<>>
    /\ UNCHANGED <<source, window, chosen>>

\* An upload begins ...
Override ==
    /\ source = "uart"
    /\ source' = "http"
    /\ window' = {}
    /\ UNCHANGED <<chosen, publication>>

\* ... and ends.
Release ==
    /\ source = "http"
    /\ window = {}
    /\ chosen = None
    /\ source' = "uart"
    /\ UNCHANGED <<window, chosen, publication>>

Next == Accept \/ Choose \/ Publish \/ Take \/ Override \/ Release

Spec == Init /\ [][Next]_<<source, window, chosen, publication>>
=============================================================================
