---------------------------- MODULE ControlProofs ----------------------------
(***************************************************************************)
(* Proofs of the safety of Control, for any number of callers and any      *)
(* bound on the messages.                                                  *)
(***************************************************************************)
EXTENDS Control, TLAPS

USE BoundsAssumption

-----------------------------------------------------------------------------
(* Types *)

\* A call under way has a ref.
CallsHaveRefs == \A g \in Caller : pc[g] # "idle" => myRef[g] \in 1..MaxRef

\* The client's messages.
ClientMessage == [type : {"ack", "nack", "command"}, id : 1..MaxMsg, ref : 0..MaxRef]

\* A message of the client's keeps the inbox well typed (peer.go:249-259).
LEMMA SaysType ==
    ASSUME TypeOK, NEW t \in {"ack", "nack", "command"}, NEW ref \in 0..MaxRef,
           ClientSays(t, ref)
    PROVE  /\ lastId' \in 0..MaxMsg
           /\ inbox' \in Seq(ClientMessage)
<1>1. lastId' \in 1..MaxMsg
  BY DEF ClientSays, TypeOK
<1>2. [type |-> t, id |-> lastId', ref |-> ref] \in ClientMessage
  BY <1>1 DEF ClientMessage
<1>3. inbox \in Seq(ClientMessage)
  BY DEF TypeOK, ClientMessage
<1> QED BY <1>1, <1>2, <1>3 DEF ClientSays

\* The head and the tail of a typed inbox.
LEMMA InboxType ==
    ASSUME TypeOK, inbox # <<>>
    PROVE  /\ Head(inbox) \in ClientMessage
           /\ Tail(inbox) \in Seq(ClientMessage)
<1>1. inbox \in Seq(ClientMessage)
  BY DEF TypeOK, ClientMessage
<1> QED BY <1>1

\* What the reading goroutine finds is a value and a ref, or nothing
\* (peer.go:380-387).
LEMMA LookUpType ==
    ASSUME TypeOK, NEW key, NEW v \in Value, LookUp(key, v)
    PROVE  reader' \in [ref : 0..MaxRef, value : Value]
<1>1. CASE key \in acks
  BY <1>1 DEF LookUp, TypeOK
<1>2. CASE key \notin acks
  BY <1>2 DEF LookUp, Idle, None, Value
<1> QED BY <1>1, <1>2

\* The variables of the control channel keep their types: in particular the
\* channel of a call (peer.go:442) never holds more than its one place.
THEOREM TypeCorrect == Spec => [](TypeOK /\ CallsHaveRefs)
<1>1. Init => TypeOK /\ CallsHaveRefs
  BY DEF Init, TypeOK, CallsHaveRefs, Value, None, Idle
<1>2. TypeOK /\ CallsHaveRefs /\ [Next]_vars => TypeOK' /\ CallsHaveRefs'
  <2> SUFFICES ASSUME TypeOK, CallsHaveRefs, [Next]_vars
               PROVE TypeOK' /\ CallsHaveRefs'
    OBVIOUS
  <2>1. ASSUME NEW g \in Caller, Register(g) PROVE TypeOK' /\ CallsHaveRefs'
    <3>1. lastRef' \in 1..MaxRef
      BY <2>1 DEF Register, TypeOK
    <3> QED BY <2>1, <3>1 DEF Register, TypeOK, CallsHaveRefs
  <2>2. ASSUME NEW g \in Caller, SendRequest(g) PROVE TypeOK' /\ CallsHaveRefs'
    <3>1. myRef[g] \in 1..MaxRef
      BY <2>2 DEF SendRequest, CallsHaveRefs
    <3> QED BY <2>2, <3>1 DEF SendRequest, TypeOK, CallsHaveRefs
  <2>3. ASSUME NEW g \in Caller, SendFails(g) PROVE TypeOK' /\ CallsHaveRefs'
    BY <2>3 DEF SendFails, TypeOK, CallsHaveRefs
  <2>4. ASSUME NEW g \in Caller, AckTimeout(g) PROVE TypeOK' /\ CallsHaveRefs'
    <3>1. [type |-> "timeout", of |-> myRef[g]] \in Value
      BY DEF TypeOK, Value
    <3> QED BY <2>4, <3>1 DEF AckTimeout, TypeOK, CallsHaveRefs
  <2>5. ASSUME NEW g \in Caller, TakeAnswer(g) PROVE TypeOK' /\ CallsHaveRefs'
    <3>1. myRef[g] \in 1..MaxRef
      BY <2>5 DEF TakeAnswer, CallsHaveRefs
    <3>2. /\ ch[myRef[g]] \in Seq(Value) /\ ch[myRef[g]] # <<>>
          /\ Len(ch[myRef[g]]) <= 1
      BY <2>5, <3>1 DEF TakeAnswer, TypeOK
    <3>3. /\ Head(ch[myRef[g]]) \in Value /\ Tail(ch[myRef[g]]) \in Seq(Value)
          /\ Len(Tail(ch[myRef[g]])) <= 1
      BY <3>2
    <3> QED BY <2>5, <3>1, <3>3 DEF TakeAnswer, TypeOK, CallsHaveRefs
  <2>6. ASSUME NEW g \in Caller, Forget(g) PROVE TypeOK' /\ CallsHaveRefs'
    BY <2>6 DEF Forget, TypeOK, CallsHaveRefs
  <2>7. ASSUME NEW ref \in 1..MaxRef, ClientAnswers(ref) PROVE TypeOK' /\ CallsHaveRefs'
    <3>1. lastId' \in 0..MaxMsg /\ inbox' \in Seq(ClientMessage)
      BY <2>7, SaysType DEF ClientAnswers
    <3> QED BY <2>7, <3>1 DEF ClientAnswers, callVars, TypeOK, CallsHaveRefs, ClientMessage
  <2>8. ASSUME ClientCommands PROVE TypeOK' /\ CallsHaveRefs'
    <3>1. lastId' \in 0..MaxMsg /\ inbox' \in Seq(ClientMessage)
      <4>1. 0 \in 0..MaxRef /\ ClientSays("command", 0)
        BY <2>8 DEF ClientCommands
      <4> QED BY <4>1, SaysType
    <3> QED BY <2>8, <3>1 DEF ClientCommands, callVars, TypeOK, CallsHaveRefs, ClientMessage
  <2>9. ASSUME HandleAck \/ HandleNack PROVE TypeOK' /\ CallsHaveRefs'
    <3>1. Head(inbox) \in ClientMessage /\ inbox' \in Seq(ClientMessage)
      BY <2>9, InboxType DEF HandleAck, HandleNack
    <3>2. reader' \in [ref : 0..MaxRef, value : Value]
      <4>1. \A t \in {"ack", "nack"} : [type |-> t, of |-> Head(inbox).ref] \in Value
        BY <3>1 DEF Value, ClientMessage
      <4>2. CASE HandleAck
        BY <4>1, <4>2, LookUpType DEF HandleAck
      <4>3. CASE HandleNack
        BY <4>1, <4>3, LookUpType DEF HandleNack
      <4> QED BY <2>9, <4>2, <4>3
    <3> QED BY <2>9, <3>1, <3>2 DEF HandleAck, HandleNack, callVars, TypeOK, CallsHaveRefs, ClientMessage
  <2>10. ASSUME Deliver PROVE TypeOK' /\ CallsHaveRefs'
    <3>1. reader.value \in Value /\ Idle \in [ref : 0..MaxRef, value : Value]
      BY DEF TypeOK, Idle, None, Value
    <3>2. <<reader.value>> \in Seq(Value) /\ Len(<<reader.value>>) <= 1
      BY <3>1
    <3> QED BY <2>10, <3>1, <3>2 DEF Deliver, callVars, TypeOK, CallsHaveRefs
  <2>11. ASSUME HandleCommand PROVE TypeOK' /\ CallsHaveRefs'
    <3>1. inbox' \in Seq(ClientMessage) /\ lastRef' \in 0..MaxRef
      <4>1. inbox' \in Seq(ClientMessage)
        BY <2>11, InboxType DEF HandleCommand
      <4>2. lastRef' \in 0..MaxRef
        BY <2>11 DEF HandleCommand, TypeOK
      <4> QED BY <4>1, <4>2
    <3> QED BY <2>11, <3>1 DEF HandleCommand, callVars, TypeOK, CallsHaveRefs, ClientMessage
  <2>12. ASSUME UNCHANGED vars PROVE TypeOK' /\ CallsHaveRefs'
    BY <2>12 DEF vars, TypeOK, CallsHaveRefs
  <2> QED BY <2>1, <2>2, <2>3, <2>4, <2>5, <2>6, <2>7, <2>8, <2>9, <2>10, <2>11, <2>12
          DEF Next, Call, Reading
<1> QED BY <1>1, <1>2, PTL DEF Spec

-----------------------------------------------------------------------------
(* Refs and the entries of acks *)

\* The refs of calls are handed out by newCTRLMessage, and never twice.
RefsDistinct ==
    /\ \A g \in Caller : pc[g] # "idle" => myRef[g] <= lastRef
    /\ \A g, h \in Caller : g # h /\ pc[g] # "idle" /\ pc[h] # "idle" => myRef[g] # myRef[h]

\* The call has an entry in acks.
Listed(g) == pc[g] \in {"send", "wait", "forget", "failed"}

\* acks holds the refs of the listed calls.
Entries == \A ref \in 1..MaxRef : ref \in acks <=> \E g \in Caller : Listed(g) /\ myRef[g] = ref

\* Entries is NoStrayEntry, by elements.
LEMMA EntriesAreNoStray ==
    ASSUME TypeOK, CallsHaveRefs
    PROVE  Entries <=> NoStrayEntry
<1> DEFINE S == {myRef[g] : g \in {h \in Caller : pc[h] \in {"send", "wait", "forget", "failed"}}}
<1>1. acks \subseteq 1..MaxRef
  BY DEF TypeOK
<1>2. \A x : x \in S <=> \E g \in Caller : Listed(g) /\ myRef[g] = x
  BY DEF Listed
<1>3. S \subseteq 1..MaxRef
  BY <1>2 DEF CallsHaveRefs, Listed
<1>4. NoStrayEntry <=> acks = S
  BY DEF NoStrayEntry
<1> HIDE DEF S
<1>5. acks = S <=> \A x \in 1..MaxRef : x \in acks <=> x \in S
  BY <1>1, <1>3
<1> QED BY <1>2, <1>4, <1>5 DEF Entries

\* An entry of acks belongs to a call that is under way or could not send
\* (SendControlMessageAndWait, peer.go:443-472), whatever the others do.
THEOREM EntriesCorrect == Spec => [](RefsDistinct /\ NoStrayEntry)
<1>1. Init => RefsDistinct /\ Entries
  BY DEF Init, RefsDistinct, Entries, Listed
<1>2. TypeOK /\ CallsHaveRefs /\ RefsDistinct /\ Entries /\ [Next]_vars => RefsDistinct' /\ Entries'
  <2> SUFFICES ASSUME TypeOK, CallsHaveRefs, RefsDistinct, Entries, [Next]_vars
               PROVE RefsDistinct' /\ Entries'
    OBVIOUS
  <2>1. ASSUME NEW g \in Caller, Register(g) PROVE RefsDistinct' /\ Entries'
    <3>1. /\ lastRef \in Nat /\ lastRef' = lastRef + 1 /\ pc[g] = "idle"
          /\ myRef'[g] = lastRef + 1 /\ pc'[g] = "send"
          /\ \A h \in Caller : h # g => myRef'[h] = myRef[h] /\ pc'[h] = pc[h]
          /\ \A h \in Caller : myRef[h] \in Nat
          /\ acks' = acks \cup {lastRef + 1}
      BY <2>1 DEF Register, TypeOK
    <3>2. RefsDistinct'
      <4>1. \A h \in Caller : pc'[h] # "idle" => myRef'[h] <= lastRef'
        BY <3>1 DEF RefsDistinct
      <4>2. \A h \in Caller : h # g /\ pc'[h] # "idle" => myRef'[h] # myRef'[g]
        BY <3>1 DEF RefsDistinct
      <4> QED BY <3>1, <4>1, <4>2 DEF RefsDistinct
    <3>3. Entries'
      <4>1. \A h \in Caller : Listed(h)' <=> (h = g \/ Listed(h))
        BY <3>1 DEF Listed
      <4>2. ~Listed(g)
        BY <3>1 DEF Listed
      <4> QED BY <3>1, <4>1, <4>2 DEF Entries
    <3> QED BY <3>2, <3>3
  <2>2. ASSUME NEW g \in Caller, SendRequest(g) \/ SendFails(g) \/ AckTimeout(g) \/ TakeAnswer(g)
        PROVE RefsDistinct' /\ Entries'
    <3>1. /\ lastRef' = lastRef /\ myRef' = myRef /\ acks' = acks
          /\ \A h \in Caller : h # g => pc'[h] = pc[h]
          /\ pc[g] \in {"send", "wait"} /\ pc'[g] \in {"wait", "failed", "forget"}
      BY <2>2 DEF SendRequest, SendFails, AckTimeout, TakeAnswer, TypeOK
    <3>2. \A h \in Caller : (Listed(h)' <=> Listed(h)) /\ (pc'[h] # "idle" <=> pc[h] # "idle")
      BY <3>1 DEF Listed
    <3> QED BY <3>1, <3>2 DEF RefsDistinct, Entries
  <2>3. ASSUME NEW g \in Caller, Forget(g) PROVE RefsDistinct' /\ Entries'
    <3>1. /\ lastRef' = lastRef /\ myRef' = myRef /\ acks' = acks \ {myRef[g]}
          /\ \A h \in Caller : h # g => pc'[h] = pc[h]
          /\ pc[g] = "forget" /\ pc'[g] = "done"
      BY <2>3 DEF Forget, TypeOK
    <3>2. RefsDistinct'
      BY <3>1 DEF RefsDistinct
    <3>3. \A h \in Caller : Listed(h)' <=> (Listed(h) /\ h # g)
      BY <3>1 DEF Listed
    <3>4. \A h \in Caller : Listed(h) /\ h # g => myRef[h] # myRef[g]
      BY <3>1 DEF Listed, RefsDistinct
    <3>5. Entries'
      BY <3>1, <3>3, <3>4 DEF Entries
    <3> QED BY <3>2, <3>5
  <2>4. ASSUME UNCHANGED <<acks, pc, myRef>>, lastRef' \in {lastRef, lastRef + 1}
        PROVE RefsDistinct' /\ Entries'
    <3>1. lastRef \in Nat /\ lastRef' \in Nat /\ lastRef <= lastRef'
      BY <2>4 DEF TypeOK
    <3>2. \A g \in Caller : myRef[g] \in Nat
      BY DEF TypeOK
    <3>3. RefsDistinct'
      BY <2>4, <3>1, <3>2 DEF RefsDistinct
    <3>4. Entries'
      BY <2>4 DEF Entries, Listed
    <3> QED BY <3>3, <3>4
  <2>5. ASSUME NEW ref \in 1..MaxRef, ClientAnswers(ref)
        PROVE UNCHANGED <<acks, pc, myRef>> /\ lastRef' \in {lastRef, lastRef + 1}
    BY <2>5 DEF ClientAnswers, callVars
  <2>6. ASSUME ClientCommands \/ Reading \/ UNCHANGED vars
        PROVE UNCHANGED <<acks, pc, myRef>> /\ lastRef' \in {lastRef, lastRef + 1}
    BY <2>6 DEF ClientCommands, Reading, HandleAck, HandleNack, Deliver, HandleCommand, callVars, vars
  <2> QED BY <2>1, <2>2, <2>3, <2>4, <2>5, <2>6 DEF Next, Call
<1>3. TypeOK /\ CallsHaveRefs /\ Entries => NoStrayEntry
  BY EntriesAreNoStray
<1> QED BY <1>1, <1>2, <1>3, TypeCorrect, PTL DEF Spec

-----------------------------------------------------------------------------
(* Acks reach the call they answer *)

\* An ack in a call's channel, or on its way into it, answers that call.
AcksInPlace ==
    /\ \A ref \in 1..MaxRef : ch[ref] # <<>> /\ ch[ref][1].type = "ack" => ch[ref][1].of = ref
    /\ reader.value.type = "ack" => reader.value.of = reader.ref

\* A call has no result before its select.
NoEarlyResult ==
    \A g \in Caller : pc[g] \in {"idle", "send", "wait", "failed"} => result[g].type = "none"

\* A caller that is given the body of an ack is given the one that answers its
\* own request (newCTRLMessage, handleAck, peer.go:373-388, 419-426).
THEOREM AckCorrect == Spec => []AckAnswersOwnRequest
<1> DEFINE Inv == AcksInPlace /\ NoEarlyResult /\ AckAnswersOwnRequest
<1>1. Init => Inv
  BY DEF Init, AcksInPlace, NoEarlyResult, AckAnswersOwnRequest, Idle, None
<1>2. TypeOK /\ CallsHaveRefs /\ Inv /\ [Next]_vars => Inv'
  <2> SUFFICES ASSUME TypeOK, CallsHaveRefs, AcksInPlace, NoEarlyResult, AckAnswersOwnRequest,
                      [Next]_vars
               PROVE Inv'
    OBVIOUS
  <2>1. ASSUME NEW g \in Caller, Register(g) PROVE Inv'
    <3>1. /\ ch' = ch /\ reader' = reader /\ result' = result
          /\ pc[g] = "idle" /\ pc'[g] = "send"
          /\ \A h \in Caller : h # g => myRef'[h] = myRef[h] /\ pc'[h] = pc[h]
      BY <2>1 DEF Register, TypeOK
    <3>2. result[g].type = "none"
      BY <3>1 DEF NoEarlyResult
    <3>3. AcksInPlace'
      BY <3>1 DEF AcksInPlace
    <3>4. NoEarlyResult'
      BY <3>1, <3>2 DEF NoEarlyResult
    <3>5. AckAnswersOwnRequest'
      BY <3>1, <3>2 DEF AckAnswersOwnRequest
    <3> QED BY <3>3, <3>4, <3>5
  <2>2. ASSUME NEW g \in Caller, SendRequest(g) \/ SendFails(g) \/ Forget(g) PROVE Inv'
    <3>1. /\ ch' = ch /\ reader' = reader /\ result' = result /\ myRef' = myRef
          /\ \A h \in Caller : h # g => pc'[h] = pc[h]
          /\ pc[g] = "send" \/ pc'[g] = "done"
      BY <2>2 DEF SendRequest, SendFails, Forget, TypeOK
    <3>2. NoEarlyResult'
      BY <3>1 DEF NoEarlyResult
    <3> QED BY <3>1, <3>2 DEF AcksInPlace, AckAnswersOwnRequest
  <2>3. ASSUME NEW g \in Caller, AckTimeout(g) PROVE Inv'
    <3>1. /\ ch' = ch /\ reader' = reader /\ myRef' = myRef
          /\ result'[g].type = "timeout" /\ pc'[g] = "forget"
          /\ \A h \in Caller : h # g => result'[h] = result[h] /\ pc'[h] = pc[h]
      BY <2>3 DEF AckTimeout, TypeOK
    <3>2. NoEarlyResult' /\ AckAnswersOwnRequest'
      BY <3>1 DEF NoEarlyResult, AckAnswersOwnRequest
    <3> QED BY <3>1, <3>2 DEF AcksInPlace
  <2>4. ASSUME NEW g \in Caller, TakeAnswer(g) PROVE Inv'
    <3> DEFINE mine == myRef[g]
    <3>1. /\ mine \in 1..MaxRef /\ ch[mine] \in Seq(Value) /\ Len(ch[mine]) <= 1 /\ ch[mine] # <<>>
      BY <2>4 DEF TakeAnswer, CallsHaveRefs, TypeOK
    <3>2. /\ Head(ch[mine]) = ch[mine][1] /\ Tail(ch[mine]) = <<>>
      BY <3>1
    <3>3. /\ reader' = reader /\ myRef' = myRef
          /\ result'[g] = ch[mine][1] /\ pc'[g] = "forget"
          /\ \A h \in Caller : h # g => result'[h] = result[h] /\ pc'[h] = pc[h]
      BY <2>4, <3>2 DEF TakeAnswer, TypeOK
    <3>4. ch'[mine] = <<>> /\ \A ref \in 1..MaxRef : ref # mine => ch'[ref] = ch[ref]
      BY <2>4, <3>1, <3>2 DEF TakeAnswer, TypeOK
    <3>5. AcksInPlace'
      BY <3>3, <3>4 DEF AcksInPlace
    <3>6. NoEarlyResult'
      BY <3>3 DEF NoEarlyResult
    <3>7. AckAnswersOwnRequest'
      BY <3>1, <3>3 DEF AckAnswersOwnRequest, AcksInPlace
    <3> QED BY <3>5, <3>6, <3>7
  <2>5. ASSUME HandleAck PROVE Inv'
    <3>1. UNCHANGED <<ch, pc, myRef, result>>
      BY <2>5 DEF HandleAck, callVars
    <3>2. reader'.value.type = "ack" => reader'.value.of = reader'.ref
      BY <2>5 DEF HandleAck, LookUp, AckKey, Idle, None
    <3> QED BY <3>1, <3>2 DEF AcksInPlace, NoEarlyResult, AckAnswersOwnRequest
  <2>6. ASSUME HandleNack PROVE Inv'
    <3>1. UNCHANGED <<ch, pc, myRef, result>>
      BY <2>6 DEF HandleNack, callVars
    <3>2. reader'.value.type # "ack"
      BY <2>6 DEF HandleNack, LookUp, Idle, None
    <3> QED BY <3>1, <3>2 DEF AcksInPlace, NoEarlyResult, AckAnswersOwnRequest
  <2>7. ASSUME Deliver PROVE Inv'
    <3>1. UNCHANGED <<pc, myRef, result>> /\ reader'.value.type = "none"
      BY <2>7 DEF Deliver, callVars, Idle, None
    <3>2. \A ref \in 1..MaxRef :
             ch'[ref] = IF ref = reader.ref THEN <<reader.value>> ELSE ch[ref]
      BY <2>7 DEF Deliver, TypeOK
    <3>3. AcksInPlace'
      BY <3>1, <3>2 DEF AcksInPlace
    <3> QED BY <3>1, <3>3 DEF NoEarlyResult, AckAnswersOwnRequest
  <2>8. ASSUME UNCHANGED <<ch, pc, myRef, result, reader>> PROVE Inv'
    BY <2>8 DEF AcksInPlace, NoEarlyResult, AckAnswersOwnRequest
  <2>9. ASSUME NEW ref \in 1..MaxRef, ClientAnswers(ref)
        PROVE UNCHANGED <<ch, pc, myRef, result, reader>>
    BY <2>9 DEF ClientAnswers, callVars
  <2>10. ASSUME ClientCommands \/ HandleCommand \/ UNCHANGED vars
         PROVE UNCHANGED <<ch, pc, myRef, result, reader>>
    BY <2>10 DEF ClientCommands, HandleCommand, callVars, vars
  <2> HIDE DEF Inv
  <2> QED BY <2>1, <2>2, <2>3, <2>4, <2>5, <2>6, <2>7, <2>8, <2>9, <2>10 DEF Next, Call, Reading
<1> QED BY <1>1, <1>2, TypeCorrect, PTL DEF Spec
-----------------------------------------------------------------------------
(* The reading goroutine is not held up by acks *)

\* The places the answer to a request can be in.
Asked(ref) == ref \in requests
Sent(i, ref) == i \in 1..Len(inbox) /\ inbox[i].type = "ack" /\ inbox[i].ref = ref
Held(ref) == reader.value.type = "ack" /\ reader.ref = ref
Queued(ref) == ch[ref] # <<>> /\ ch[ref][1].type = "ack"

\* The request has not been made: nothing of it is anywhere.
Unasked(ref) == ref > lastRef \/ \E g \in Caller : pc[g] = "send" /\ myRef[g] = ref

\* Each request is answered in one place at most, and nowhere before it is made.
OnePlace ==
    \A ref \in 1..MaxRef :
        /\ Unasked(ref) => ~Asked(ref) /\ ~Held(ref) /\ ~Queued(ref) /\ \A i \in Nat : ~Sent(i, ref)
        /\ Asked(ref) => ~Held(ref) /\ ~Queued(ref) /\ \A i \in Nat : ~Sent(i, ref)
        /\ Held(ref) => ~Queued(ref) /\ \A i \in Nat : ~Sent(i, ref)
        /\ Queued(ref) => \A i \in Nat : ~Sent(i, ref)
        /\ \A i, j \in Nat : Sent(i, ref) /\ Sent(j, ref) => i = j

\* A step that moves no answer and makes no request.
LEMMA PlacesKept ==
    ASSUME OnePlace, UNCHANGED <<requests, reader, inbox>>,
           \A ref \in 1..MaxRef : (Unasked(ref)' => Unasked(ref)) /\ (Queued(ref)' => Queued(ref))
    PROVE  OnePlace'
BY DEF OnePlace, Asked, Sent, Held

\* The messages of the inbox after the first is taken.
LEMMA TakenInbox ==
    ASSUME TypeOK, inbox # <<>>, inbox' = Tail(inbox), NEW ref \in 1..MaxRef, NEW i \in Nat,
           Sent(i, ref)'
    PROVE  Sent(i + 1, ref) /\ i + 1 # 1
<1>1. inbox \in Seq(ClientMessage) /\ Len(inbox) \in Nat
  BY DEF TypeOK, ClientMessage
<1>2. Len(Tail(inbox)) = Len(inbox) - 1 /\ \A k \in 1..(Len(inbox) - 1) : Tail(inbox)[k] = inbox[k + 1]
  BY <1>1
<1>3. i \in 1..(Len(inbox) - 1) /\ inbox[i + 1].type = "ack" /\ inbox[i + 1].ref = ref
  BY <1>2 DEF Sent
<1> QED BY <1>1, <1>3 DEF Sent

\* The waiters' channels, and the reading goroutine, hold acks and nacks only.
AnswersOnly ==
    /\ \A ref \in 1..MaxRef : ch[ref] # <<>> => ch[ref][1].type \in {"ack", "nack"}
    /\ reader = Idle \/ (reader.ref \in 1..MaxRef /\ reader.value.type \in {"ack", "nack"})

\* handleAck and handleNack are all that puts values there (peer.go:383, 401).
LEMMA OnlyAnswersKept ==
    ASSUME TypeOK, CallsHaveRefs, AnswersOnly, [Next]_vars
    PROVE  AnswersOnly'
<1>0. ch \in [1..MaxRef -> Seq(Value)] /\ acks \subseteq 1..MaxRef
  BY DEF TypeOK
<1>1. CASE UNCHANGED <<ch, reader>>
  BY <1>1 DEF AnswersOnly
<1>2. ASSUME NEW g \in Caller, TakeAnswer(g) PROVE AnswersOnly'
  <2>1. /\ myRef[g] \in 1..MaxRef /\ ch[myRef[g]] \in Seq(Value) /\ ch[myRef[g]] # <<>>
        /\ Len(ch[myRef[g]]) <= 1
    BY <1>2 DEF TakeAnswer, TypeOK, CallsHaveRefs
  <2>2. Tail(ch[myRef[g]]) = <<>>
    BY <2>1
  <2>3. reader' = reader /\ \A ref \in 1..MaxRef : ch'[ref] = ch[ref] \/ ch'[ref] = <<>>
    BY <1>0, <1>2, <2>2 DEF TakeAnswer
  <2> QED BY <2>3 DEF AnswersOnly
<1>3. CASE HandleAck \/ HandleNack
  <2>1. ch' = ch
    BY <1>3 DEF HandleAck, HandleNack
  <2>2. \/ reader' = Idle
        \/ reader'.ref \in acks /\ reader'.value.type \in {"ack", "nack"}
    BY <1>3 DEF HandleAck, HandleNack, LookUp
  <2> QED BY <1>0, <2>1, <2>2 DEF AnswersOnly
<1>4. CASE Deliver
  <2>1. /\ reader' = Idle /\ reader.value.type \in {"ack", "nack"}
        /\ \A ref \in 1..MaxRef : ch'[ref] = ch[ref] \/ ch'[ref] = <<reader.value>>
    BY <1>0, <1>4 DEF Deliver, AnswersOnly
  <2> QED BY <2>1 DEF AnswersOnly
<1> QED BY <1>1, <1>2, <1>3, <1>4
        DEF Next, Call, Reading, Register, SendRequest, SendFails, AckTimeout, Forget,
            ClientAnswers, ClientCommands, HandleCommand, vars

\* handleAck hands an answer over at once, unless a nack got into the waiter's
\* channel (peer.go:373-388, 457-473).
THEOREM AckHandedOver == Spec => []AckNeverBlocks
<1>1. Init => OnePlace
  BY DEF Init, OnePlace, Asked, Sent, Held, Queued, Unasked, Idle, None
<1>2. TypeOK /\ CallsHaveRefs /\ RefsDistinct /\ OnePlace /\ [Next]_vars => OnePlace'
  <2> SUFFICES ASSUME TypeOK, CallsHaveRefs, RefsDistinct, OnePlace, [Next]_vars PROVE OnePlace'
    OBVIOUS
  <2>0. /\ lastRef \in 0..MaxRef /\ pc \in [Caller -> {"idle", "send", "wait", "forget", "done", "failed"}]
        /\ myRef \in [Caller -> 0..MaxRef] /\ OnePlace
    BY DEF TypeOK
  <2>1. ASSUME NEW g \in Caller, Register(g) PROVE OnePlace'
    <3>1. /\ UNCHANGED <<requests, reader, inbox, ch>> /\ lastRef' = lastRef + 1
          /\ pc'[g] = "send" /\ myRef'[g] = lastRef + 1
          /\ \A h \in Caller : h # g => pc'[h] = pc[h] /\ myRef'[h] = myRef[h]
      BY <2>0, <2>1 DEF Register
    <3>2. \A ref \in 1..MaxRef : Unasked(ref)' => Unasked(ref)
      BY <2>0, <3>1 DEF Unasked
    <3>3. \A ref \in 1..MaxRef : Queued(ref)' => Queued(ref)
      BY <3>1 DEF Queued
    <3> QED BY <3>1, <3>2, <3>3, PlacesKept
  <2>2. ASSUME NEW g \in Caller, SendRequest(g) PROVE OnePlace'
    <3> DEFINE mine == myRef[g]
    <3>1. /\ UNCHANGED <<lastRef, reader, inbox, ch, myRef>> /\ requests' = requests \cup {mine}
          /\ pc[g] = "send" /\ pc'[g] = "wait" /\ \A h \in Caller : h # g => pc'[h] = pc[h]
          /\ mine \in 1..MaxRef /\ mine <= lastRef
      BY <2>0, <2>2 DEF SendRequest, CallsHaveRefs, RefsDistinct
    <3>2. Unasked(mine) /\ ~Unasked(mine)'
      <4>1. \A h \in Caller : h # g /\ pc[h] = "send" => myRef[h] # mine
        BY <3>1 DEF RefsDistinct
      <4> QED BY <2>0, <3>1, <4>1 DEF Unasked
    <3>3. \A ref \in 1..MaxRef : Unasked(ref)' => Unasked(ref) /\ ref # mine
      BY <2>0, <3>1, <3>2 DEF Unasked
    <3>4. \A ref \in 1..MaxRef : /\ (Held(ref)' <=> Held(ref)) /\ (Queued(ref)' <=> Queued(ref))
                                 /\ \A i \in Nat : Sent(i, ref)' <=> Sent(i, ref)
                                 /\ Asked(ref)' <=> (Asked(ref) \/ ref = mine)
      BY <3>1 DEF Held, Queued, Sent, Asked
    <3> HIDE DEF mine
    <3> QED BY <2>0, <3>1, <3>2, <3>3, <3>4 DEF OnePlace
  <2>3. ASSUME NEW g \in Caller, SendFails(g) \/ AckTimeout(g) \/ Forget(g) PROVE OnePlace'
    <3>1. /\ UNCHANGED <<requests, reader, inbox, ch, lastRef, myRef>> /\ pc'[g] # "send"
          /\ \A h \in Caller : h # g => pc'[h] = pc[h]
      BY <2>0, <2>3 DEF SendFails, AckTimeout, Forget
    <3>2. \A ref \in 1..MaxRef : (Unasked(ref)' => Unasked(ref)) /\ (Queued(ref)' => Queued(ref))
      BY <3>1 DEF Unasked, Queued
    <3> QED BY <3>1, <3>2, PlacesKept
  <2>4. ASSUME NEW g \in Caller, TakeAnswer(g) PROVE OnePlace'
    <3>1. /\ myRef[g] \in 1..MaxRef /\ ch[myRef[g]] \in Seq(Value) /\ ch[myRef[g]] # <<>>
          /\ Len(ch[myRef[g]]) <= 1
      BY <2>4 DEF TakeAnswer, TypeOK, CallsHaveRefs
    <3>2. Tail(ch[myRef[g]]) = <<>>
      BY <3>1
    <3>3. /\ UNCHANGED <<requests, reader, inbox, lastRef, myRef>> /\ pc'[g] # "send"
          /\ \A h \in Caller : h # g => pc'[h] = pc[h]
          /\ \A ref \in 1..MaxRef : ch'[ref] = ch[ref] \/ ch'[ref] = <<>>
      BY <2>0, <2>4, <3>2 DEF TakeAnswer, TypeOK
    <3>4. \A ref \in 1..MaxRef : (Unasked(ref)' => Unasked(ref)) /\ (Queued(ref)' => Queued(ref))
      BY <3>3 DEF Unasked, Queued
    <3> QED BY <3>3, <3>4, PlacesKept
  <2>5. ASSUME NEW t \in {"ack", "nack", "command"}, NEW ref \in 0..MaxRef, ClientSays(t, ref),
               UNCHANGED <<lastRef, ch, pc, myRef, reader>>,
               t = "ack" => ref \in requests /\ ref \in 1..MaxRef, requests' = requests \ {ref}
        PROVE  OnePlace'
    <3> DEFINE m == [type |-> t, id |-> lastId', ref |-> ref]
    <3>1. inbox \in Seq(ClientMessage) /\ Len(inbox) \in Nat /\ inbox' = Append(inbox, m)
      BY <2>5 DEF TypeOK, ClientMessage, ClientSays
    <3>2. m.type = t /\ m.ref = ref
      OBVIOUS
    <3> HIDE DEF m
    <3>3. /\ Len(inbox') = Len(inbox) + 1 /\ inbox'[Len(inbox) + 1] = m
          /\ \A i \in 1..Len(inbox) : inbox'[i] = inbox[i]
      BY <3>1
    <3>4. \A k \in 1..MaxRef : \A i \in Nat :
             Sent(i, k)' <=> Sent(i, k) \/ (i = Len(inbox) + 1 /\ t = "ack" /\ k = ref)
      BY <3>1, <3>2, <3>3 DEF Sent
    <3>5. \A k \in 1..MaxRef : /\ (Held(k)' <=> Held(k)) /\ (Queued(k)' <=> Queued(k))
                               /\ (Unasked(k)' <=> Unasked(k))
                               /\ (Asked(k)' <=> Asked(k) /\ k # ref)
      BY <2>5 DEF Held, Queued, Unasked, Asked
    <3>6. t = "ack" => Asked(ref)
      BY <2>5 DEF Asked
    <3> QED BY <2>0, <3>4, <3>5, <3>6 DEF OnePlace
  <2>6. ASSUME NEW ref \in 1..MaxRef, ClientAnswers(ref) PROVE OnePlace'
    BY <2>5, <2>6 DEF ClientAnswers, callVars
  <2>7. CASE ClientCommands
    <3>1. 0 \in 0..MaxRef /\ requests = requests \ {0}
      BY DEF TypeOK
    <3> QED BY <2>5, <2>7, <3>1 DEF ClientCommands, callVars
  <2>8. CASE HandleAck
    <3>1. /\ inbox \in Seq(ClientMessage) /\ inbox # <<>> /\ Head(inbox) = inbox[1]
          /\ Head(inbox).type = "ack" /\ Len(inbox) \in Nat \ {0}
      BY <2>8 DEF HandleAck, TypeOK, ClientMessage
    <3>2. UNCHANGED <<requests, ch, lastRef, pc, myRef>> /\ inbox' = Tail(inbox)
      BY <2>8 DEF HandleAck, callVars
    <3>3. \A k \in 1..MaxRef : Held(k)' => k = Head(inbox).ref
      BY <2>8 DEF HandleAck, LookUp, AckKey, Held, Idle, None
    <3>4. \A k \in 1..MaxRef : Held(k)' => Sent(1, k)
      BY <3>1, <3>3 DEF Sent
    <3>5. \A k \in 1..MaxRef : \A i \in Nat : Sent(i, k)' => Sent(i + 1, k) /\ i + 1 # 1
      BY <3>1, <3>2, TakenInbox
    <3>6. \A k \in 1..MaxRef : /\ (Queued(k)' <=> Queued(k)) /\ (Asked(k)' <=> Asked(k))
                               /\ (Unasked(k)' <=> Unasked(k))
      BY <3>2 DEF Queued, Unasked, Asked
    <3> QED BY <2>0, <3>4, <3>5, <3>6 DEF OnePlace
  <2>9. CASE HandleNack \/ HandleCommand
    <3>1. inbox # <<>> /\ inbox' = Tail(inbox) /\ UNCHANGED <<requests, ch, pc, myRef>>
      BY <2>9 DEF HandleNack, HandleCommand, callVars
    <3>2. lastRef' \in {lastRef, lastRef + 1}
      BY <2>9 DEF HandleNack, HandleCommand
    <3>3. \A k \in 1..MaxRef : ~Held(k)' \/ (Held(k) /\ reader' = reader)
      BY <2>9 DEF HandleNack, HandleCommand, LookUp, Held, Idle, None
    <3>4. \A k \in 1..MaxRef : \A i \in Nat : Sent(i, k)' => Sent(i + 1, k)
      BY <3>1, TakenInbox
    <3>5. \A k \in 1..MaxRef : /\ (Queued(k)' <=> Queued(k)) /\ (Asked(k)' <=> Asked(k))
                               /\ (Unasked(k)' => Unasked(k))
      BY <2>0, <3>1, <3>2 DEF Queued, Unasked, Asked
    <3> QED BY <2>0, <3>3, <3>4, <3>5 DEF OnePlace
  <2>10. CASE Deliver
    <3>1. /\ UNCHANGED <<requests, inbox, lastRef, pc, myRef>> /\ reader'.value.type = "none"
          /\ \A k \in 1..MaxRef : ch'[k] = IF k = reader.ref THEN <<reader.value>> ELSE ch[k]
      BY <2>10 DEF Deliver, callVars, TypeOK, Idle, None
    <3>2. \A k \in 1..MaxRef : Queued(k)' => Queued(k) \/ Held(k)
      BY <3>1 DEF Queued, Held
    <3>3. \A k \in 1..MaxRef : /\ ~Held(k)' /\ (Asked(k)' <=> Asked(k))
                               /\ (Unasked(k)' <=> Unasked(k))
                               /\ \A i \in Nat : Sent(i, k)' <=> Sent(i, k)
      BY <3>1 DEF Held, Unasked, Asked, Sent
    <3> QED BY <2>0, <3>2, <3>3 DEF OnePlace
  <2>11. CASE UNCHANGED vars
    <3>1. \A ref \in 1..MaxRef : (Unasked(ref)' => Unasked(ref)) /\ (Queued(ref)' => Queued(ref))
      BY <2>11 DEF vars, Unasked, Queued
    <3> QED BY <2>11, <3>1, PlacesKept DEF vars
  <2> QED BY <2>1, <2>2, <2>3, <2>4, <2>6, <2>7, <2>8, <2>9, <2>10, <2>11
          DEF Next, Call, Reading
<1>3. TypeOK /\ OnePlace /\ AnswersOnly => AckNeverBlocks
  <2> SUFFICES ASSUME TypeOK, OnePlace, AnswersOnly, reader.value.type = "ack",
                      NEW j \in 1..Len(ch[reader.ref])
               PROVE  ch[reader.ref][j].type = "nack"
    BY DEF AckNeverBlocks
  <2>1. reader.ref \in 1..MaxRef /\ Held(reader.ref)
    BY DEF AnswersOnly, Idle, None, Held
  <2>2. ch[reader.ref] \in Seq(Value) /\ Len(ch[reader.ref]) <= 1 /\ ~Queued(reader.ref)
    BY <2>1 DEF OnePlace, TypeOK
  <2>3. j = 1 /\ ch[reader.ref] # <<>>
    BY <2>2
  <2> QED BY <2>1, <2>2, <2>3 DEF AnswersOnly, Queued
<1>4. Init => AnswersOnly
  BY DEF Init, AnswersOnly
<1>5. TypeOK /\ CallsHaveRefs /\ AnswersOnly /\ [Next]_vars => AnswersOnly'
  BY OnlyAnswersKept
<1> QED BY <1>1, <1>2, <1>3, <1>4, <1>5, TypeCorrect, EntriesCorrect, PTL DEF Spec
=============================================================================
