-------------------------------- MODULE Shared --------------------------------
(***************************************************************************)
(* The agent's state that all its clients share, while they come and go:   *)
(* the payload and the clipboard's active client.  What clients, scripts   *)
(* and users ask for altogether is bounded by MaxEvents.                   *)
(***************************************************************************)
EXTENDS Clipboard

CONSTANT MaxEvents \* bound: sets, resizes, layouts, messages, clipboard requests

ASSUME EventsAssumption == MaxEvents \in Nat

VARIABLE left      \* how many may still happen

vars == <<payVars, clipVars, left>>

Init == PayInit /\ ClipInit /\ left = MaxEvents

Event == \/ PayEvent /\ UNCHANGED clipVars
         \/ ClipEvent /\ UNCHANGED payVars

Step == \/ PayStep /\ UNCHANGED clipVars
        \/ ClipStep /\ UNCHANGED payVars

Next == /\ ~crashed
        /\ \/ left > 0 /\ left' = left - 1 /\ Event
           \/ left' = left /\ Step

Spec == Init /\ [][Next]_vars

TypeOK == PayTypeOK /\ ClipTypeOK /\ left \in 0..MaxEvents
=============================================================================
