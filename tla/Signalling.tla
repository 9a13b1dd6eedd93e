------------------------------ MODULE Signalling ------------------------------
(***************************************************************************)
(* How clients get a connection over the network: the HTTP server with the *)
(* file of authorised clients, and the peerbook client, at work at the     *)
(* same time on the same peers.  Each step is one of a component; what     *)
(* users, clients and peerbook do altogether is bounded by MaxEvents.      *)
(***************************************************************************)
EXTENDS Sessions, Peerbook

CONSTANT MaxEvents \* bound: commands, requests, messages and broken websockets

ASSUME EventsAssumption == MaxEvents \in Nat /\ FP \subseteq Token

VARIABLES left,    \* how many may still happen
          met      \* history: something was taken away from a goroutine at work on it

vars == <<fileVars, connVars, httpVars, pbVars, left, met>>

Init == AuthInit /\ ConnInit /\ HttpInit /\ PbInit /\ left = MaxEvents /\ met = FALSE

Event == \/ AuthEvent /\ UNCHANGED <<connVars, httpVars, pbVars>>
         \/ HttpEvent /\ UNCHANGED <<fileVars, pbVars>>
         \/ PbEvent /\ UNCHANGED <<fileVars, httpVars>>

Request(r) == Serves(r) /\ UNCHANGED <<fileVars, pbVars>>
Reader == ReaderStep /\ UNCHANGED <<fileVars, httpVars>>
Writer == WriterWrites /\ UNCHANGED <<fileVars, httpVars>>
Callback(c) == Calls(c) /\ UNCHANGED <<fileVars, httpVars>>
Drain(c) == Drains(c) /\ UNCHANGED <<fileVars, httpVars, pbVars>>

\* Peers is written under its lock and read without it.
PeersRace ==
    /\ rd = "read" /\ \E r \in Req : rq[r] = "create"
    /\ agent' = "race"
    /\ UNCHANGED <<fileVars, pc, reg, pend, drain, httpVars, pbVars>>

Step == \/ AuthStep /\ UNCHANGED <<connVars, httpVars, pbVars>>
        \/ ConnStep /\ UNCHANGED <<fileVars, httpVars, pbVars>>
        \/ HttpStep /\ UNCHANGED <<fileVars, pbVars>>
        \/ PbStep /\ UNCHANGED <<fileVars, httpVars>>
        \/ PeersRace

\* A step that takes something away: a peer is closed while its callback, or
\* the reader with a candidate for it, is between the look at PC and its use;
\* the websocket is given up while the writer has a message, or the writer is
\* given one while there is no websocket.
Overlap ==
    \/ \E c \in Conn : /\ pc[c] # "nil" /\ pc'[c] = "nil"
                       /\ (rd = "use" /\ rdc = c) \/ cb[c] = "check"
    \/ ws # "nil" /\ ws' = "nil" /\ wr = "write"
    \/ ws = "nil" /\ wr # "write" /\ wr' = "write"

Records == met' = IF Overlap THEN TRUE ELSE met

Next == /\ agent = "up"
        /\ \/ left > 0 /\ left' = left - 1 /\ Event
           \/ left' = left /\ Step
        /\ Records

Spec == Init /\ [][Next]_vars

\* Goroutines that can run do run.  No client has to send the body of its
\* request, no dial has to succeed and no connection has to come about.
Going(A) == agent = "up" /\ A /\ left' = left /\ Records
Fairness == /\ \A r \in Req : WF_vars(Going(Request(r)))
            /\ WF_vars(Going(Reader)) /\ WF_vars(Going(Writer))
            /\ \A c \in Conn : WF_vars(Going(Callback(c))) /\ WF_vars(Going(Drain(c)))

FairSpec == Spec /\ Fairness

-----------------------------------------------------------------------------
(* Properties *)

TypeOK == /\ AuthTypeOK /\ ConnTypeOK /\ HttpTypeOK /\ PbTypeOK
          /\ left \in 0..MaxEvents /\ met \in BOOLEAN

\* AddCandidate looks at PC before it uses it, callbacks are those of peers
\* that have one, and there is nothing to write before there is a websocket
\* (peer.go:482-491, peerbook.go:137, 172, 335, 348): so the agent panics only if
\* a peer or the websocket was taken away from a goroutine in the middle of its
\* work.  Closes, refusals, broken websockets and redials at any other moment,
\* in whatever order, do not end it.
PanicNeedsOverlap == agent = "panic" => met
=============================================================================
