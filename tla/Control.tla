------------------------------- MODULE Control -------------------------------
(***************************************************************************)
(* The control channel ("%") of one peer: requests the server sends to the *)
(* client and waits to be answered (SendControlMessageAndWait, used by the *)
(* clipboard requests of the socket server), commands the client sends and *)
(* the server acknowledges, and the routing of acks and nacks.             *)
(* Sources: src/peers/peer.go 249-268 and 373-480, src/peers/cdc.go,       *)
(* src/sock.go 95-118.                                                     *)
(*                                                                         *)
(* The channel is reliable and ordered in each direction; its messages are *)
(* handled one at a time by the goroutine that reads it, so a handler that *)
(* blocks stops the channel.  A client answers each request at most once.  *)
(***************************************************************************)
EXTENDS Integers, Sequences, FiniteSets

CONSTANTS Caller,  \* the goroutines that send a request and wait
          MaxRef,  \* bound: messages the server sends
          MaxMsg   \* bound: messages the client sends

ASSUME BoundsAssumption == MaxRef \in Nat /\ MaxMsg \in Nat

None == [type |-> "none", of |-> 0]
Idle == [ref |-> 0, value |-> None]

VARIABLES
    lastRef,   \* peer.LastRef
    acks,      \* the keys of peer.acks
    ch,        \* ch[ref]: the channel made for ref, which holds one value
    pc,        \* where each caller is
    myRef,     \* msg.Ref of each caller
    result,    \* what its call returned or is about to return
    requests,  \* refs of the requests the client has received and not answered
    lastId,    \* the client's message counter
    inbox,     \* the client's messages on their way
    reader     \* the value the reading goroutine is delivering, and to which ref

callVars == <<pc, myRef, result>>
vars == <<lastRef, acks, ch, pc, myRef, result, requests, lastId, inbox, reader>>

Init == /\ lastRef = 0
        /\ acks = {}
        /\ ch = [ref \in 1..MaxRef |-> <<>>]
        /\ pc = [g \in Caller |-> "idle"]
        /\ myRef = [g \in Caller |-> 0]
        /\ result = [g \in Caller |-> None]
        /\ requests = {}
        /\ lastId = 0
        /\ inbox = <<>>
        /\ reader = Idle

-----------------------------------------------------------------------------
(* SendControlMessageAndWait *)

\* Slip: the increment of LastRef is lost.
RegisterLostIncrement(g) ==
    /\ pc[g] = "idle" /\ lastRef < MaxRef
    /\ myRef' = [myRef EXCEPT ![g] = lastRef + 1]
    /\ acks' = acks \cup {lastRef + 1}
    /\ pc' = [pc EXCEPT ![g] = "send"]
    /\ UNCHANGED <<lastRef, ch, result, requests, lastId, inbox, reader>>

\* newCTRLMessage and the entry in acks.
Register(g) ==
    /\ pc[g] = "idle" /\ lastRef < MaxRef
    /\ lastRef' = lastRef + 1
    /\ myRef' = [myRef EXCEPT ![g] = lastRef']
    /\ acks' = acks \cup {lastRef'}
    /\ pc' = [pc EXCEPT ![g] = "send"]
    /\ UNCHANGED <<ch, result, requests, lastId, inbox, reader>>

SendRequest(g) ==
    /\ pc[g] = "send"
    /\ requests' = requests \cup {myRef[g]}
    /\ pc' = [pc EXCEPT ![g] = "wait"]
    /\ UNCHANGED <<lastRef, acks, ch, myRef, result, lastId, inbox, reader>>

\* The channel is closed: return the error, and leave the entry in acks.
SendFails(g) ==
    /\ pc[g] = "send"
    /\ pc' = [pc EXCEPT ![g] = "failed"]
    /\ UNCHANGED <<lastRef, acks, ch, myRef, result, requests, lastId, inbox, reader>>

\* Slip: the select has no timer.
AckTimeoutMissing(g) == FALSE

AckTimeout(g) ==
    /\ pc[g] = "wait"
    /\ result' = [result EXCEPT ![g] = [type |-> "timeout", of |-> myRef[g]]]
    /\ pc' = [pc EXCEPT ![g] = "forget"]
    /\ UNCHANGED <<lastRef, acks, ch, myRef, requests, lastId, inbox, reader>>

\* The select takes the answer.
TakeAnswer(g) ==
    /\ pc[g] = "wait" /\ ch[myRef[g]] # <<>>
    /\ result' = [result EXCEPT ![g] = Head(ch[myRef[g]])]
    /\ ch' = [ch EXCEPT ![myRef[g]] = Tail(@)]
    /\ pc' = [pc EXCEPT ![g] = "forget"]
    /\ UNCHANGED <<lastRef, acks, myRef, requests, lastId, inbox, reader>>

\* Slip: only an answered call is forgotten.
ForgetAnswered(g) ==
    /\ pc[g] = "forget"
    /\ acks' = IF result[g].type = "timeout" THEN acks ELSE acks \ {myRef[g]}
    /\ pc' = [pc EXCEPT ![g] = "done"]
    /\ UNCHANGED <<lastRef, ch, myRef, result, requests, lastId, inbox, reader>>

\* delete(peer.acks, msg.Ref) and return.
Forget(g) ==
    /\ pc[g] = "forget"
    /\ acks' = acks \ {myRef[g]}
    /\ pc' = [pc EXCEPT ![g] = "done"]
    /\ UNCHANGED <<lastRef, ch, myRef, result, requests, lastId, inbox, reader>>

-----------------------------------------------------------------------------
(* The client *)

ClientSays(type, ref) ==
    /\ lastId < MaxMsg
    /\ lastId' = lastId + 1
    /\ inbox' = Append(inbox, [type |-> type, id |-> lastId', ref |-> ref])

\* An answer names the request in its args and has a message id of its own.
ClientAnswers(ref) ==
    /\ ref \in requests
    /\ ClientSays("ack", ref) \/ ClientSays("nack", ref)
    /\ requests' = requests \ {ref}
    /\ UNCHANGED <<lastRef, acks, ch, callVars, reader>>

ClientCommands ==
    /\ ClientSays("command", 0)
    /\ UNCHANGED <<lastRef, acks, ch, callVars, requests, reader>>

-----------------------------------------------------------------------------
(* The goroutine that reads the channel *)

\* Slip: the waiter of an ack is looked up by the ack's own message id.
AckKeyById(m) == m.id

\* handleAck looks for the waiter by the ref in the args.
AckKey(m) == m.ref

\* handleNack looks for the waiter by the message id of the nack itself.
NackKey(m) == m.id

\* Look the waiter up; with none the answer is dropped.
LookUp(key, value) ==
    reader' = IF key \in acks THEN [ref |-> key, value |-> value] ELSE Idle

HandleAck ==
    /\ reader = Idle /\ inbox # <<>> /\ Head(inbox).type = "ack"
    /\ LookUp(AckKey(Head(inbox)), [type |-> "ack", of |-> Head(inbox).ref])
    /\ inbox' = Tail(inbox)
    /\ UNCHANGED <<lastRef, acks, ch, callVars, requests, lastId>>

HandleNack ==
    /\ reader = Idle /\ inbox # <<>> /\ Head(inbox).type = "nack"
    /\ LookUp(NackKey(Head(inbox)), [type |-> "nack", of |-> Head(inbox).ref])
    /\ inbox' = Tail(inbox)
    /\ UNCHANGED <<lastRef, acks, ch, callVars, requests, lastId>>

\* Slip: the channel is a queue without a limit.
DeliverUnbounded ==
    /\ reader # Idle
    /\ ch' = [ch EXCEPT ![reader.ref] = Append(@, reader.value)]
    /\ reader' = Idle
    /\ UNCHANGED <<lastRef, acks, callVars, requests, lastId, inbox>>

\* ch <- value blocks while the channel holds one.
Deliver ==
    /\ reader # Idle /\ ch[reader.ref] = <<>>
    /\ ch' = [ch EXCEPT ![reader.ref] = <<reader.value>>]
    /\ reader' = Idle
    /\ UNCHANGED <<lastRef, acks, callVars, requests, lastId, inbox>>

\* A command is handled.  Its answer takes a ref of the server's; some of the
\* handlers' early returns send none.
HandleCommand ==
    /\ reader = Idle /\ inbox # <<>> /\ Head(inbox).type = "command"
    /\ lastRef < MaxRef
    /\ lastRef' \in {lastRef, lastRef + 1}
    /\ inbox' = Tail(inbox)
    /\ UNCHANGED <<acks, ch, callVars, requests, lastId, reader>>

-----------------------------------------------------------------------------

Call(g) == \/ SendRequest(g)
           \/ AckTimeout(g)
           \/ TakeAnswer(g)
           \/ Forget(g)

Reading == HandleAck \/ HandleNack \/ Deliver \/ HandleCommand

Next == \/ \E g \in Caller : Register(g) \/ SendFails(g) \/ Call(g)
        \/ \E ref \in 1..MaxRef : ClientAnswers(ref)
        \/ ClientCommands
        \/ Reading

Spec == Init /\ [][Next]_vars

\* The goroutines run and the timer of a waiting call fires; the client may
\* answer or not.
Fairness == WF_vars(Reading) /\ \A g \in Caller : WF_vars(Call(g))

FairSpec == Spec /\ Fairness

-----------------------------------------------------------------------------
(* Properties *)

Value == [type : {"none", "ack", "nack", "timeout"}, of : 0..MaxRef]

TypeOK ==
    /\ lastRef \in 0..MaxRef
    /\ acks \subseteq 1..MaxRef
    /\ ch \in [1..MaxRef -> Seq(Value)] /\ \A ref \in 1..MaxRef : Len(ch[ref]) <= 1
    /\ pc \in [Caller -> {"idle", "send", "wait", "forget", "done", "failed"}]
    /\ myRef \in [Caller -> 0..MaxRef]
    /\ result \in [Caller -> Value]
    /\ requests \subseteq 1..MaxRef
    /\ lastId \in 0..MaxMsg
    /\ inbox \in Seq([type : {"ack", "nack", "command"}, id : 1..MaxMsg, ref : 0..MaxRef])
    /\ reader \in [ref : 0..MaxRef, value : Value]

\* newCTRLMessage and handleAck (peer.go:373-388, 419-426): a caller that is
\* given the body of an ack is given the one that answers its own request,
\* with other calls, commands, late answers and timeouts in between.
AckAnswersOwnRequest ==
    \A g \in Caller : result[g].type = "ack" => result[g].of = myRef[g]

\* SendControlMessageAndWait (peer.go:443-472): an entry of acks belongs to a
\* call that is under way, or to one that could not send.
NoStrayEntry ==
    acks = {myRef[g] : g \in {h \in Caller : pc[h] \in {"send", "wait", "forget", "failed"}}}

\* The timer, the answer and the delete (peer.go:457-473): a call that sent its
\* request returns, whatever the client does.
CallReturns == \A g \in Caller : pc[g] = "wait" ~> pc[g] = "done"

\* handleAck (peer.go:381-384) does not hold the goroutine that reads the
\* control channel: an answer it found a waiter for is handed over at once
\* unless a nack got into that waiter's channel.
AckNeverBlocks ==
    reader.value.type = "ack" =>
        \A j \in 1..Len(ch[reader.ref]) : ch[reader.ref][j].type = "nack"

-----------------------------------------------------------------------------
(* What the code's comments say and the code does not do *)

\* src/peers/cdc.go:17: "Ref holds the message id the error refers to": a
\* caller is told "NACK" when the client refused that caller's request.
NackAnswersOwnRequest ==
    \A g \in Caller : result[g].type = "nack" => result[g].of = myRef[g]
=============================================================================
