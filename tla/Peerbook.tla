------------------------------- MODULE Peerbook -------------------------------
(***************************************************************************)
(* The peerbook client: a reader that dials the server and handles its     *)
(* messages, a writer that sends what comes through outChan, an unbuffered *)
(* channel, and the callbacks of gathered candidates.  They share one      *)
(* websocket without a lock.  Source: src/peerbook.go.                     *)
(*                                                                         *)
(* Steps that change nothing are left out: a dial that fails, status       *)
(* messages, lists of peers, messages that cannot be decoded, candidates   *)
(* of unknown clients.  The goroutines are not the HTTP server's: a panic  *)
(* in one of them ends the agent.                                          *)
(***************************************************************************)
EXTENDS Connections, Sequences

CONSTANT MaxCan    \* bound: candidates gathered for each peer

ASSUME CanAssumption == MaxCan \in Nat

VARIABLES
    ws,    \* pb.ws: "nil", "open" or "broken"
    rd,    \* where the reader is
    rdfp,  \* the fingerprint of the message it handles
    rdc,   \* the peer it handles
    wr,    \* the writer: "select", "write" or "ended"
    hook,  \* peers with an OnICECandidate callback
    cb,    \* where the callback of a peer is: "off", "check" or "send"
    ncan   \* how many candidates were gathered for a peer

pbVars == <<ws, rd, rdfp, rdc, wr, hook, cb, ncan>>

PbInit == /\ ws = "nil" /\ rd = "dial" /\ rdfp = NoFP /\ rdc = NoConn
          /\ wr = "select" /\ hook = {} /\ cb = [c \in Conn |-> "off"]
          /\ ncan = [c \in Conn |-> 0]

-----------------------------------------------------------------------------
(* The websocket *)

Dials ==
    /\ rd = "dial"
    /\ ws' = "open" /\ rd' = "read"
    /\ UNCHANGED <<connVars, rdfp, rdc, wr, hook, cb, ncan>>

Breaks ==
    /\ ws = "open"
    /\ ws' = "broken"
    /\ UNCHANGED <<connVars, rd, rdfp, rdc, wr, hook, cb, ncan>>

ReadFails ==
    /\ rd = "read" /\ ws = "broken"
    /\ rd' = "sleep"
    /\ UNCHANGED <<connVars, ws, rdfp, rdc, wr, hook, cb, ncan>>

\* After the sleep the websocket is given up and dialled again.
Wakes ==
    /\ rd = "sleep"
    /\ ws' = "nil" /\ rd' = "dial"
    /\ UNCHANGED <<connVars, rdfp, rdc, wr, hook, cb, ncan>>

-----------------------------------------------------------------------------
(* handleMessage *)

Reads == rd = "read" /\ ws = "open"
Returns == rd' = "read" /\ rdfp' = NoFP /\ rdc' = NoConn

\* peer_update: a client that is no longer verified is closed.  An update
\* without the field is a failed type assertion.
GetsUpdate(f, verified) ==
    /\ Reads /\ reg[f] # NoConn /\ pc[reg[f]] # "nil"
    /\ IF verified = "no"
       THEN pc' = Closed(reg[f]) /\ UNCHANGED agent
       ELSE agent' = "message" /\ UNCHANGED pc
    /\ UNCHANGED <<reg, pend, drain, pbVars>>

\* An offer whose fingerprint is not its sender's: the sender's peer is closed,
\* and one that has none is a nil dereference.
GetsMismatch(f) ==
    /\ Reads
    /\ IF reg[f] = NoConn
       THEN agent' = "message" /\ UNCHANGED pc
       ELSE pc' = Closed(reg[f]) /\ UNCHANGED agent
    /\ UNCHANGED <<reg, pend, drain, pbVars>>

GetsOffer(f) ==
    /\ Reads
    /\ rd' = "create" /\ rdfp' = f
    /\ UNCHANGED <<connVars, ws, rdc, wr, hook, cb, ncan>>

\* NewPeer, and the callback is installed.
OfferMakesPeer ==
    /\ rd = "create"
    /\ \E c \in Conn : /\ NewPeer(rdfp, c)
                       /\ rdc' = c /\ hook' = hook \cup {c}
    /\ rd' = "describe"
    /\ UNCHANGED <<agent, pend, drain, ws, rdfp, wr, cb, ncan>>

\* SetRemoteDescription, CreateAnswer and SetLocalDescription, whose error is
\* not looked at.
OfferDescribes ==
    /\ rd = "describe"
    /\ \E local \in BOOLEAN : pc' = IF local THEN [pc EXCEPT ![rdc] = "local"] ELSE pc
    /\ rd' = "answer"
    /\ UNCHANGED <<agent, reg, pend, drain, ws, rdfp, rdc, wr, hook, cb, ncan>>

OfferFails ==
    /\ rd \in {"create", "describe"}
    /\ Returns
    /\ UNCHANGED <<connVars, ws, wr, hook, cb, ncan>>

\* Slip: the writer waits for a websocket that works.
AnswersWhenOpen ==
    /\ rd = "answer" /\ wr = "select" /\ ws = "open"
    /\ Returns /\ wr' = "write"
    /\ UNCHANGED <<connVars, ws, hook, cb, ncan>>

\* outChan takes the answer: reader and writer meet.
Answers ==
    /\ rd = "answer" /\ wr = "select"
    /\ Returns /\ wr' = "write"
    /\ UNCHANGED <<connVars, ws, hook, cb, ncan>>

\* A candidate for the newest peer of a fingerprint; AddCandidate looks at PC.
GetsCandidate(f) ==
    /\ Reads /\ reg[f] # NoConn
    /\ rd' = CandidateGoes(reg[f]) /\ rdc' = reg[f]
    /\ UNCHANGED <<connVars, ws, rdfp, wr, hook, cb, ncan>>

CandidateUses ==
    /\ rd = "use"
    /\ agent' = IF pc[rdc] = "nil" THEN "panic" ELSE agent
    /\ Returns
    /\ UNCHANGED <<pc, reg, pend, drain, ws, wr, hook, cb, ncan>>

CandidatePends ==
    /\ rd = "pend" /\ QueueCandidate(rdc)
    /\ Returns
    /\ UNCHANGED <<agent, pc, reg, drain, ws, wr, hook, cb, ncan>>

-----------------------------------------------------------------------------
(* Callbacks and writer *)

Gathers(c) ==
    /\ c \in hook /\ pc[c] \in {"local", "connecting"}
    /\ cb[c] = "off" /\ ncan[c] < MaxCan
    /\ cb' = [cb EXCEPT ![c] = "check"]
    /\ ncan' = [ncan EXCEPT ![c] = @ + 1]
    /\ UNCHANGED <<connVars, ws, rd, rdfp, rdc, wr, hook>>

\* The callback asks PC for its state: connected peers need no candidate.
CallbackAsks(c) ==
    /\ cb[c] = "check"
    /\ agent' = IF pc[c] = "nil" THEN "panic" ELSE agent
    /\ \E goes \in {"send", "off"} :
        /\ goes = "off" => pc[c] = "connecting"
        /\ cb' = [cb EXCEPT ![c] = goes]
    /\ UNCHANGED <<pc, reg, pend, drain, ws, rd, rdfp, rdc, wr, hook, ncan>>

CallbackSends(c) ==
    /\ cb[c] = "send" /\ wr = "select"
    /\ cb' = [cb EXCEPT ![c] = "off"] /\ wr' = "write"
    /\ UNCHANGED <<connVars, ws, rd, rdfp, rdc, hook, ncan>>

\* A write on a websocket that is gone is a nil dereference.  On a broken one
\* the message is lost, and after an unexpected close the writer ends: the code
\* asks for a CloseError, which the library may not return from a write.
WriterWrites ==
    /\ wr = "write"
    /\ agent' = IF ws = "nil" THEN "panic" ELSE agent
    /\ wr' \in IF ws = "broken" THEN {"select", "ended"} ELSE {"select"}
    /\ UNCHANGED <<pc, reg, pend, drain, ws, rd, rdfp, rdc, hook, cb, ncan>>

PbEvent == \/ Breaks
           \/ \E f \in FP : \/ \E v \in {"no", "missing"} : GetsUpdate(f, v)
                            \/ GetsMismatch(f)
                            \/ GetsOffer(f)
                            \/ GetsCandidate(f)

ReaderStep == \/ ReadFails
              \/ Wakes
              \/ OfferMakesPeer
              \/ OfferDescribes
              \/ OfferFails
              \/ Answers
              \/ CandidateUses
              \/ CandidatePends

Calls(c) == CallbackAsks(c) \/ CallbackSends(c)

PbStep == Dials \/ ReaderStep \/ WriterWrites \/ \E c \in Conn : Gathers(c) \/ Calls(c)

-----------------------------------------------------------------------------
(* Properties *)

PbTypeOK ==
    /\ ws \in {"nil", "open", "broken"}
    /\ rd \in {"dial", "read", "sleep", "create", "describe", "answer", "use", "pend"}
    /\ rdfp \in FP \cup {NoFP} /\ rdc \in Conn \cup {NoConn}
    /\ wr \in {"select", "write", "ended"}
    /\ hook \subseteq Conn
    /\ cb \in [Conn -> {"off", "check", "send"}]
    /\ ncan \in [Conn -> 0..MaxCan]

\* The reader hands its answer to the writer through an unbuffered channel, in
\* competition with the callbacks, and only the reader dials (peerbook.go:137,
\* 172, 317, 335): however the websocket breaks, the reader gets rid of its
\* answer, as long as the writer has not ended.
AnswerTaken ==
    rd = "answer" ~> rd # "answer" \/ wr = "ended" \/ agent # "up"
=============================================================================
