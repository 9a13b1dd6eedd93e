----------------------------- MODULE Connections ------------------------------
(***************************************************************************)
(* The peers of the agent while they connect: NewPeer registers them by    *)
(* fingerprint, AddCandidate gives them candidates, Close takes their peer *)
(* connection away.  The HTTP server and the peerbook client share them.   *)
(* Sources: src/peers/peer.go 98-197, 482-491 and 545-552.                 *)
(*                                                                         *)
(* Peers are numbered in the order NewPeer makes them.  Of a candidate it  *)
(* only matters where it waits.                                            *)
(***************************************************************************)
EXTENDS Integers

CONSTANTS FP,      \* the clients' fingerprints
          NoFP,    \* none
          MaxConn, \* bound: peers that are made
          PendCap  \* capacity of pendingCandidates, 8 in the code

ASSUME ConnAssumption == MaxConn \in Nat /\ PendCap \in Nat

Conn == 1..MaxConn
NoConn == 0

VARIABLES
    agent,  \* "up", or what ended it: "race" (of map operations), "message" (one
            \* it cannot handle) or "panic" (a use of what is nil by now)
    pc,     \* Peer.PC: "unused", "new", "local", "connecting" or "nil"
    reg,    \* Peers: the peer of a fingerprint
    pend,   \* how many candidates pendingCandidates holds
    drain   \* peers whose state handler waits for pending candidates

connVars == <<agent, pc, reg, pend, drain>>

ConnInit == /\ agent = "up"
            /\ pc = [c \in Conn |-> "unused"] /\ reg = [f \in FP |-> NoConn]
            /\ pend = [c \in Conn |-> 0] /\ drain = {}

\* NewPeer makes peer c and registers it, in the place of an earlier one.
NewPeer(f, c) ==
    /\ pc[c] = "unused" /\ \A d \in 1..(c - 1) : pc[d] # "unused"
    /\ pc' = [pc EXCEPT ![c] = "new"]
    /\ reg' = [reg EXCEPT ![f] = c]

Closed(c) == [pc EXCEPT ![c] = "nil"]

\* Slip: AddCandidate does not look.
CandidateGoesOn(c) == "use"

\* AddCandidate looks at PC and then, without a lock, uses it or queues the
\* candidate: where the caller goes on, and its last step.
CandidateGoes(c) == IF pc[c] = "nil" THEN "pend" ELSE "use"

\* Slip: the queue is taken for unbounded.
QueueCandidateAlways(c) == pend' = [pend EXCEPT ![c] = @ + 1]

QueueCandidate(c) == /\ pend[c] < PendCap
                     /\ pend' = [pend EXCEPT ![c] = @ + 1]

-----------------------------------------------------------------------------
(* OnConnectionStateChange *)

\* Connecting: the handler ranges over pendingCandidates, for good.
Connects(c) ==
    /\ pc[c] = "local"
    /\ pc' = [pc EXCEPT ![c] = "connecting"]
    /\ drain' = drain \cup {c}
    /\ UNCHANGED <<agent, reg, pend>>

\* Slip: only as long as the peer has its connection.
DrainsOpen(c) ==
    /\ c \in drain /\ pend[c] > 0 /\ pc[c] # "nil"
    /\ pend' = [pend EXCEPT ![c] = @ - 1]
    /\ UNCHANGED <<agent, pc, reg, drain>>

\* pc is the handler's own: a candidate is added, or fails to be, also after
\* Close.
Drains(c) ==
    /\ c \in drain /\ pend[c] > 0
    /\ pend' = [pend EXCEPT ![c] = @ - 1]
    /\ UNCHANGED <<agent, pc, reg, drain>>

\* Failed: the peer is closed.
ConnectionFails(c) ==
    /\ pc[c] = "connecting"
    /\ pc' = Closed(c)
    /\ UNCHANGED <<agent, reg, pend, drain>>

ConnStep == \E c \in Conn : Connects(c) \/ Drains(c) \/ ConnectionFails(c)

ConnTypeOK ==
    /\ agent \in {"up", "race", "message", "panic"}
    /\ pc \in [Conn -> {"unused", "new", "local", "connecting", "nil"}]
    /\ reg \in [FP -> Conn \cup {NoConn}]
    /\ pend \in [Conn -> 0..PendCap]
    /\ drain \subseteq Conn
=============================================================================
