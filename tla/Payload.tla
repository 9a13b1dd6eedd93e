-------------------------------- MODULE Payload -------------------------------
(***************************************************************************)
(* What the clients of an agent share through its control channels: the    *)
(* payload, set by one of them and broadcast to the others, and the sizes  *)
(* of panes.  Sources: src/handlers.go 14-86, src/peers/peer.go 145-150,   *)
(* 295-303 and 493-503, src/sock.go 224-231.                               *)
(*                                                                         *)
(* The messages of one control channel are handled one after the other,    *)
(* those of different channels at the same time and without a lock.  A     *)
(* slice is assigned in several stores: reading or assigning the payload   *)
(* during an assignment may leave a mixture, Torn.                         *)
(***************************************************************************)
EXTENDS Integers

CONSTANTS Client,   \* the peers, each with its control channel
          NoClient, \* none
          FP,       \* their fingerprints
          FPof,     \* the fingerprint of a peer
          Value,    \* payloads
          NoValue,  \* none yet, and what a resize carries
          Torn      \* a mixture of payloads

ASSUME ClientAssumption == NoClient \notin Client
ASSUME FPAssumption == FPof \in [Client -> FP]
ASSUME ValueAssumption == NoValue \notin Value /\ Torn \notin Value /\ Torn # NoValue

VARIABLES
    crashed, \* the agent is gone
    payload, \* Payload
    reg,     \* Peers: the peer of a fingerprint
    cdc,     \* a control channel: "unborn", "none", "open" or "closed"
    hd,      \* where the handler of a channel is: "idle", "assign", "send" or "ack"
    val,     \* the payload it sets, NoValue for a resize
    todo,    \* the entries of Peers that Broadcast has still to visit
    must,    \* the peers there all through its broadcast and not told yet
    view,    \* the payload a client was told last
    mixed    \* another assignment has met or followed the last set that began alone

payVars == <<crashed, payload, reg, cdc, hd, val, todo, must, view, mixed>>

PayInit == /\ crashed = FALSE /\ payload = NoValue
           /\ reg = [f \in FP |-> NoClient] /\ cdc = [c \in Client |-> "unborn"]
           /\ hd = [c \in Client |-> "idle"] /\ val = [c \in Client |-> NoValue]
           /\ todo = [c \in Client |-> {}] /\ must = [c \in Client |-> {}]
           /\ view = [c \in Client |-> NoValue]
           /\ mixed = FALSE

\* A set_payload is under way.
Setting(c) == hd[c] # "idle" /\ val[c] # NoValue
Assigning == {c \in Client : hd[c] = "assign"}

\* What a read of the payload may yield, and what an assignment may leave.
Seen == {payload} \cup (IF Assigning = {} THEN {} ELSE {Torn} \cup {val[c] : c \in Assigning})
Left(v, others) == IF others = {} THEN {v} ELSE {v, Torn}

-----------------------------------------------------------------------------
(* Clients come and go *)

\* NewPeer.  A broadcast under way may or may not come to a new entry; an entry
\* of the same fingerprint is replaced, its peer is not told any more.
Registers(c) ==
    /\ cdc[c] = "unborn"
    /\ cdc' = [cdc EXCEPT ![c] = "none"]
    /\ reg' = [reg EXCEPT ![FPof[c]] = c]
    /\ \E seers \in SUBSET {d \in Client : hd[d] = "send"} :
        /\ reg[FPof[c]] # NoClient => seers = {}
        /\ todo' = [d \in Client |-> todo[d] \cup (IF d \in seers THEN {FPof[c]} ELSE {})]
    /\ must' = [d \in Client |-> must[d] \ {reg[FPof[c]]}]
    /\ UNCHANGED <<crashed, payload, hd, val, view, mixed>>

\* Broadcast ranges over Peers without the lock NewPeer takes: the runtime may
\* notice and end the agent.
RangeRaces ==
    /\ \E c, d \in Client : cdc[c] = "unborn" /\ hd[d] = "send"
    /\ crashed' = TRUE
    /\ UNCHANGED <<payload, reg, cdc, hd, val, todo, must, view, mixed>>

\* The channel "%" is opened; the empty message it handles changes nothing.
ControlOpens(c) ==
    /\ cdc[c] = "none"
    /\ cdc' = [cdc EXCEPT ![c] = "open"]
    /\ UNCHANGED <<crashed, payload, reg, hd, val, todo, must, view, mixed>>

ControlCloses(c) ==
    /\ cdc[c] = "open"
    /\ cdc' = [cdc EXCEPT ![c] = "closed"]
    /\ must' = [d \in Client |-> must[d] \ {c}]
    /\ view' = [view EXCEPT ![c] = NoValue]
    /\ UNCHANGED <<crashed, payload, reg, hd, val, todo, mixed>>

-----------------------------------------------------------------------------
(* Broadcast *)

Entries == {f \in FP : reg[f] # NoClient}

BroadcastStarts(c) ==
    /\ todo' = [todo EXCEPT ![c] = Entries]
    /\ must' = [must EXCEPT ![c] = {d \in Client \ {c} : /\ reg[FPof[d]] = d
                                                         /\ cdc[d] = "open"}]
    /\ hd' = [hd EXCEPT ![c] = "send"]

Told(c, p) ==
    /\ must' = [must EXCEPT ![c] = @ \ {p}]
    /\ view' = IF val[c] = NoValue THEN view ELSE [view EXCEPT ![p] = val[c]]

\* Slip: the first error ends the broadcast.
VisitsUntilError(c, f) ==
    /\ hd[c] = "send" /\ f \in todo[c]
    /\ IF reg[f] # c /\ cdc[reg[f]] = "open" THEN Told(c, reg[f]) ELSE UNCHANGED <<must, view>>
    /\ todo' = [todo EXCEPT ![c] = IF cdc[reg[f]] = "closed" THEN {} ELSE @ \ {f}]
    /\ UNCHANGED <<crashed, payload, reg, cdc, hd, val, mixed>>

\* The next entry, in whatever order.  An error is only logged.
Visits(c, f) ==
    /\ hd[c] = "send" /\ f \in todo[c]
    /\ IF reg[f] # c /\ cdc[reg[f]] = "open" THEN Told(c, reg[f]) ELSE UNCHANGED <<must, view>>
    /\ todo' = [todo EXCEPT ![c] = @ \ {f}]
    /\ UNCHANGED <<crashed, payload, reg, cdc, hd, val, mixed>>

\* Slip: the broadcast is not waited for.
BroadcastLeft(c) ==
    /\ hd[c] = "send"
    /\ hd' = [hd EXCEPT ![c] = "ack"]
    /\ UNCHANGED <<crashed, payload, reg, cdc, val, todo, must, view, mixed>>

BroadcastEnds(c) ==
    /\ hd[c] = "send" /\ todo[c] = {}
    /\ hd' = [hd EXCEPT ![c] = "ack"]
    /\ UNCHANGED <<crashed, payload, reg, cdc, val, todo, must, view, mixed>>

-----------------------------------------------------------------------------
(* The handlers *)

Ready(c) == cdc[c] = "open" /\ hd[c] = "idle"

\* handleSetPayload; a message that cannot be parsed is dropped.
SetPayload(c, v) ==
    /\ Ready(c)
    /\ hd' = [hd EXCEPT ![c] = "assign"] /\ val' = [val EXCEPT ![c] = v]
    /\ mixed' = \E d \in Client : Setting(d)
    /\ UNCHANGED <<crashed, payload, reg, cdc, todo, must, view>>

\* Slip: a payload that has not changed is not broadcast.
AssignsChange(c) ==
    /\ hd[c] = "assign"
    /\ payload' \in Left(val[c], Assigning \ {c})
    /\ IF payload = val[c]
       THEN hd' = [hd EXCEPT ![c] = "ack"] /\ UNCHANGED <<todo, must>>
       ELSE BroadcastStarts(c)
    /\ UNCHANGED <<crashed, reg, cdc, val, view, mixed>>

Assigns(c) ==
    /\ hd[c] = "assign"
    /\ payload' \in Left(val[c], Assigning \ {c})
    /\ BroadcastStarts(c)
    /\ UNCHANGED <<crashed, reg, cdc, val, view, mixed>>

\* handleResize of a pane with a tty, whose size is not modelled.  Without a tty
\* it is refused, and without a pane it is not answered.
Resize(c) ==
    /\ Ready(c)
    /\ BroadcastStarts(c)
    /\ UNCHANGED <<crashed, payload, reg, cdc, val, view, mixed>>

\* A set is acknowledged with the payload as it is by then.
Acks(c) ==
    /\ hd[c] = "ack"
    /\ IF val[c] = NoValue \/ cdc[c] = "closed"
       THEN UNCHANGED view
       ELSE \E v \in Seen : view' = [view EXCEPT ![c] = v]
    /\ hd' = [hd EXCEPT ![c] = "idle"] /\ val' = [val EXCEPT ![c] = NoValue]
    /\ must' = [must EXCEPT ![c] = {}]
    /\ UNCHANGED <<crashed, payload, reg, cdc, todo, mixed>>

\* handleGetPayload; handleRestore answers alike.
GetPayload(c) ==
    /\ Ready(c)
    /\ \E v \in Seen : view' = [view EXCEPT ![c] = v]
    /\ UNCHANGED <<crashed, payload, reg, cdc, hd, val, todo, must, mixed>>

\* handleLayout of the unix socket sets the payload and tells nobody.
PostLayout(v) ==
    /\ payload' \in Left(v, Assigning)
    /\ mixed' = TRUE
    /\ UNCHANGED <<crashed, reg, cdc, hd, val, todo, must, view>>

PayEvent == \/ \E c \in Client : Resize(c) \/ \E v \in Value : SetPayload(c, v)
            \/ \E v \in Value : PostLayout(v)

PayStep == \/ \E c \in Client : \/ Registers(c)
                                \/ ControlOpens(c)
                                \/ ControlCloses(c)
                                \/ Assigns(c)
                                \/ \E f \in FP : Visits(c, f)
                                \/ BroadcastEnds(c)
                                \/ Acks(c)
                                \/ GetPayload(c)
           \/ RangeRaces

-----------------------------------------------------------------------------
(* Properties *)

Payloads == Value \cup {NoValue, Torn}

PayTypeOK ==
    /\ crashed \in BOOLEAN /\ mixed \in BOOLEAN
    /\ payload \in Payloads
    /\ reg \in [FP -> Client \cup {NoClient}]
    /\ cdc \in [Client -> {"unborn", "none", "open", "closed"}]
    /\ hd \in [Client -> {"idle", "assign", "send", "ack"}]
    /\ val \in [Client -> Value \cup {NoValue}]
    /\ todo \in [Client -> SUBSET FP] /\ must \in [Client -> SUBSET Client]
    /\ view \in [Client -> Payloads]
    /\ \A c \in Client : todo[c] # {} => hd[c] = "send"

\* Broadcast (peer.go:493-503) visits a map that changes under it, with
\* channels that are not open yet or closed: when the handler comes to its ack,
\* every other client that was registered and connected all through has been
\* told.
AckMeansToldAll == \A c \in Client : hd[c] = "ack" => must[c] = {}

\* handleSetPayload assigns before it broadcasts (handlers.go:79-82): when no
\* set is under way and the last one that began alone was met and followed by
\* no other assignment, all connected clients that know a payload know the
\* agent's, whenever they connected and asked.
ClientsAgree ==
    ~mixed /\ (\A c \in Client : ~Setting(c))
        => \A c \in Client : reg[FPof[c]] = c /\ cdc[c] = "open" /\ view[c] # NoValue
                                => view[c] = payload
=============================================================================
