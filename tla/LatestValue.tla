----------------------------- MODULE LatestValue -----------------------------
(***************************************************************************)
(* What GET /stream promises a client, whatever tasks carry it out: a      *)
(* connection receives publications in the order they were published, none *)
(* of them twice, none that was not published; it may skip obsolete ones,  *)
(* and it may start with the newest one published before it connected.     *)
(***************************************************************************)
EXTENDS Naturals

CONSTANT Connections

VARIABLES
    published,      \* number of publications so far: they are 1 .. published
    delivered       \* delivered[c]: the last one connection c received, or 0

Init ==
    /\ published = 0
    /\ delivered = [c \in Connections |-> 0]

Publish ==
    /\ published' = published + 1
    /\ UNCHANGED delivered

Deliver(c) ==
    /\ \E n \in delivered[c] + 1 .. published :
          delivered' = [delivered EXCEPT ![c] = n]
    /\ UNCHANGED published

\* A new client takes the place of connection c.
Connect(c) ==
    /\ delivered' = [delivered EXCEPT ![c] = 0]
    /\ UNCHANGED published

Next == Publish \/ \E c \in Connections : Deliver(c) \/ Connect(c)

Spec == Init /\ [][Next]_<<published, delivered>>
=============================================================================
