----------------------------- MODULE SharedProofs -----------------------------
(***************************************************************************)
(* Proofs of the safety of Payload and Clipboard as Shared composes them,  *)
(* for any clients, fingerprints and payloads and any number of events.    *)
(***************************************************************************)
EXTENDS Shared, TLAPS

USE ClientAssumption, FPAssumption, ValueAssumption, EventsAssumption

-----------------------------------------------------------------------------
(* Types *)

\* What a read of the payload yields is a payload (handlers.go:49-86).
LEMMA SeenType == ASSUME PayTypeOK PROVE Seen \subseteq Payloads
BY DEF Seen, Assigning, PayTypeOK, Payloads

\* A step of the handlers, of a client or of a broadcast keeps the types.
LEMMA PayTypeStep ==
    ASSUME PayTypeOK, PayEvent \/ PayStep \/ UNCHANGED payVars
    PROVE  PayTypeOK'
<1> USE DEF PayTypeOK, Payloads
<1>1. ASSUME NEW c \in Client, Registers(c) PROVE PayTypeOK'
  BY <1>1 DEF Registers
<1>2. CASE RangeRaces
  BY <1>2 DEF RangeRaces
<1>3. ASSUME NEW c \in Client, ControlOpens(c) \/ ControlCloses(c) PROVE PayTypeOK'
  BY <1>3 DEF ControlOpens, ControlCloses
<1>4. ASSUME NEW c \in Client, NEW f \in FP, Visits(c, f) PROVE PayTypeOK'
  BY <1>4 DEF Visits, Told
<1>5. ASSUME NEW c \in Client, BroadcastEnds(c) PROVE PayTypeOK'
  BY <1>5 DEF BroadcastEnds
<1>6. ASSUME NEW c \in Client, NEW v \in Value, SetPayload(c, v) PROVE PayTypeOK'
  BY <1>6 DEF SetPayload, Ready
<1>7. ASSUME NEW c \in Client, Assigns(c) PROVE PayTypeOK'
  BY <1>7 DEF Assigns, BroadcastStarts, Entries, Left
<1>8. ASSUME NEW c \in Client, Resize(c) PROVE PayTypeOK'
  BY <1>8 DEF Resize, BroadcastStarts, Entries, Ready
<1>9. ASSUME NEW c \in Client, Acks(c) PROVE PayTypeOK'
  <2>1. view' \in [Client -> Payloads]
    BY <1>9, SeenType DEF Acks
  <2> QED BY <1>9, <2>1 DEF Acks
<1>10. ASSUME NEW c \in Client, GetPayload(c) PROVE PayTypeOK'
  <2>1. view' \in [Client -> Payloads]
    BY <1>10, SeenType DEF GetPayload
  <2> QED BY <1>10, <2>1 DEF GetPayload
<1>11. ASSUME NEW v \in Value, PostLayout(v) PROVE PayTypeOK'
  BY <1>11 DEF PostLayout, Left
<1>12. CASE UNCHANGED payVars
  BY <1>12 DEF payVars
<1> QED BY <1>1, <1>2, <1>3, <1>4, <1>5, <1>6, <1>7, <1>8, <1>9, <1>10, <1>11, <1>12
        DEF PayEvent, PayStep

\* A step of the clipboard keeps the types.
LEMMA ClipTypeStep ==
    ASSUME ClipTypeOK, ClipEvent \/ ClipStep \/ UNCHANGED clipVars
    PROVE  ClipTypeOK'
<1> USE DEF ClipTypeOK
<1>1. ASSUME NEW c \in Client, SetLastPeer(c) PROVE ClipTypeOK'
  BY <1>1 DEF SetLastPeer, Enters, Leaves
<1>2. CASE TimePasses \/ LooksForPeer \/ LooksAtTime \/ TakesPeer \/ Replies
  BY <1>2 DEF TimePasses, LooksForPeer, LooksAtTime, TakesPeer, Replies
<1>3. CASE UNCHANGED clipVars
  BY <1>3 DEF clipVars
<1> QED BY <1>1, <1>2, <1>3 DEF ClipEvent, ClipStep

\* Every step is one of the payload's, of the clipboard's or of neither.
LEMMA Steps ==
    ASSUME [Next]_vars
    PROVE  /\ PayEvent \/ PayStep \/ UNCHANGED payVars
           /\ ClipEvent \/ ClipStep \/ UNCHANGED clipVars
BY DEF Next, Event, Step, vars

\* The variables keep their types: a broadcast has nothing left to visit once
\* its handler is past it (peer.go:493-503).
THEOREM TypeCorrect == Spec => []TypeOK
<1>1. Init => TypeOK
  <2> SUFFICES ASSUME Init PROVE TypeOK
    OBVIOUS
  <2>1. crashed \in BOOLEAN /\ mixed \in BOOLEAN /\ fresh \in BOOLEAN
    BY DEF Init, PayInit, ClipInit
  <2>2. PayTypeOK
    BY <2>1 DEF Init, PayInit, PayTypeOK, Payloads
  <2>3. ClipTypeOK
    BY <2>1 DEF Init, ClipInit, ClipTypeOK
  <2> QED BY <2>2, <2>3 DEF Init, TypeOK
<1>2. TypeOK /\ [Next]_vars => TypeOK'
  <2> SUFFICES ASSUME TypeOK, [Next]_vars PROVE TypeOK'
    OBVIOUS
  <2>1. PayTypeOK' /\ ClipTypeOK'
    BY Steps, PayTypeStep, ClipTypeStep DEF TypeOK
  <2>2. left' \in 0..MaxEvents
    BY DEF Next, vars, TypeOK
  <2> QED BY <2>1, <2>2 DEF TypeOK
<1> QED BY <1>1, <1>2, PTL DEF Spec

-----------------------------------------------------------------------------
(* Broadcast *)

\* Whoever is still to be told is registered, connected and on the list.
MustInv ==
    \A c \in Client : \A d \in must[c] :
        /\ hd[c] = "send" /\ d # c
        /\ reg[FPof[d]] = d /\ cdc[d] = "open" /\ FPof[d] \in todo[c]

\* The list of a broadcast keeps up with clients that come and go.
LEMMA MustStep ==
    ASSUME PayTypeOK, MustInv, PayEvent \/ PayStep \/ UNCHANGED payVars
    PROVE  MustInv'
<1>0. /\ must \in [Client -> SUBSET Client] /\ todo \in [Client -> SUBSET FP]
      /\ reg \in [FP -> Client \cup {NoClient}]
      /\ cdc \in [Client -> {"unborn", "none", "open", "closed"}]
      /\ hd \in [Client -> {"idle", "assign", "send", "ack"}]
      /\ MustInv
  BY DEF PayTypeOK
<1>1. ASSUME NEW c \in Client, Registers(c) PROVE MustInv'
  <2>1. /\ hd' = hd /\ cdc[c] = "unborn" /\ \A d \in Client : d # c => cdc'[d] = cdc[d]
        /\ \A f \in FP : reg'[f] = IF f = FPof[c] THEN c ELSE reg[f]
        /\ \A d \in Client : must'[d] = must[d] \ {reg[FPof[c]]} /\ todo[d] \subseteq todo'[d]
    BY <1>0, <1>1 DEF Registers
  <2> SUFFICES ASSUME NEW e \in Client, NEW d \in must'[e]
               PROVE  /\ hd'[e] = "send" /\ d # e
                      /\ reg'[FPof[d]] = d /\ cdc'[d] = "open" /\ FPof[d] \in todo'[e]
    BY DEF MustInv
  <2>2. /\ d \in Client /\ hd[e] = "send" /\ d # e /\ d # reg[FPof[c]]
        /\ reg[FPof[d]] = d /\ cdc[d] = "open" /\ FPof[d] \in todo[e]
    BY <1>0, <2>1 DEF MustInv
  <2>3. d # c /\ FPof[d] # FPof[c] /\ FPof[d] \in FP
    BY <2>1, <2>2
  <2> QED BY <2>1, <2>2, <2>3
<1>2. ASSUME NEW c \in Client, ControlOpens(c) \/ ControlCloses(c) PROVE MustInv'
  <2>1. /\ UNCHANGED <<hd, reg, todo>> /\ \A d \in Client : d # c => cdc'[d] = cdc[d]
        /\ \/ cdc[c] = "none" /\ must' = must
           \/ \A d \in Client : must'[d] = must[d] \ {c}
    BY <1>0, <1>2 DEF ControlOpens, ControlCloses
  <2>2. \A e \in Client : \A d \in must'[e] : d \in must[e] /\ d # c /\ d \in Client
    BY <1>0, <2>1 DEF MustInv
  <2> QED BY <1>0, <2>1, <2>2 DEF MustInv
<1>3. ASSUME NEW c \in Client, NEW f \in FP, Visits(c, f) PROVE MustInv'
  <2>1. /\ UNCHANGED <<hd, reg, cdc>>
        /\ todo'[c] = todo[c] \ {f} /\ must'[c] \subseteq must[c]
        /\ \A e \in Client : e # c => todo'[e] = todo[e] /\ must'[e] = must[e]
        /\ reg[f] # c /\ cdc[reg[f]] = "open" => reg[f] \notin must'[c]
    BY <1>0, <1>3 DEF Visits, Told
  <2>2. \A d \in must'[c] : FPof[d] # f
    BY <1>0, <2>1 DEF MustInv
  <2> QED BY <1>0, <2>1, <2>2 DEF MustInv
<1>4. ASSUME NEW c \in Client, BroadcastEnds(c) PROVE MustInv'
  <2>1. must[c] = {}
    BY <1>0, <1>4 DEF BroadcastEnds, MustInv
  <2> QED BY <1>0, <1>4, <2>1 DEF BroadcastEnds, MustInv
<1>5. ASSUME NEW c \in Client, BroadcastStarts(c), UNCHANGED <<reg, cdc>> PROVE MustInv'
  <2>1. /\ hd'[c] = "send" /\ todo'[c] = Entries
        /\ must'[c] = {d \in Client \ {c} : reg[FPof[d]] = d /\ cdc[d] = "open"}
        /\ \A e \in Client : e # c => /\ hd'[e] = hd[e] /\ todo'[e] = todo[e]
                                      /\ must'[e] = must[e]
    BY <1>0, <1>5 DEF BroadcastStarts
  <2>2. \A d \in must'[c] : d \in Client \ {c} /\ reg[FPof[d]] = d /\ cdc[d] = "open"
    BY <2>1
  <2>3. \A d \in must'[c] : FPof[d] \in Entries
    BY <2>2 DEF Entries
  <2> QED BY <1>0, <1>5, <2>1, <2>2, <2>3 DEF MustInv
<1>6. ASSUME NEW c \in Client, Assigns(c) \/ Resize(c) PROVE MustInv'
  BY <1>5, <1>6 DEF Assigns, Resize
<1>7. ASSUME NEW c \in Client, NEW v \in Value, SetPayload(c, v) PROVE MustInv'
  <2>1. must[c] = {}
    BY <1>0, <1>7 DEF SetPayload, Ready, MustInv
  <2> QED BY <1>0, <1>7, <2>1 DEF SetPayload, MustInv
<1>8. ASSUME NEW c \in Client, Acks(c) PROVE MustInv'
  BY <1>0, <1>8 DEF Acks, MustInv
<1>9. ASSUME NEW c \in Client, GetPayload(c) PROVE MustInv'
  BY <1>0, <1>9 DEF GetPayload, MustInv
<1>10. CASE RangeRaces \/ UNCHANGED payVars \/ \E v \in Value : PostLayout(v)
  BY <1>0, <1>10 DEF RangeRaces, payVars, PostLayout, MustInv
<1> QED BY <1>1, <1>2, <1>3, <1>4, <1>6, <1>7, <1>8, <1>9, <1>10 DEF PayEvent, PayStep

\* When a handler comes to its ack, every other client that was registered and
\* connected all through its broadcast has been told (peer.go:493-503).
THEOREM BroadcastCorrect == Spec => [](MustInv /\ AckMeansToldAll)
<1>1. Init => MustInv
  BY DEF Init, PayInit, MustInv
<1>2. TypeOK /\ MustInv /\ [Next]_vars => MustInv'
  BY Steps, MustStep DEF TypeOK
<1>3. TypeOK /\ MustInv => AckMeansToldAll
  <2> SUFFICES ASSUME TypeOK, MustInv, NEW c \in Client, hd[c] = "ack" PROVE must[c] = {}
    BY DEF AckMeansToldAll
  <2> QED BY DEF MustInv
<1> QED BY <1>1, <1>2, <1>3, TypeCorrect, PTL DEF Spec

-----------------------------------------------------------------------------
(* The active client *)

\* The client that typed last is active as long as any is, and a request knows
\* of every client that is.
ActiveInv ==
    /\ active # {} => recent \in active
    /\ stamp \subseteq active /\ (fresh => active # {})
    /\ cp # "idle" => active \subseteq near
    /\ cp = "peer" => recent \in near
    /\ cp # "send" => to = NoClient

\* Copied data goes to, and pasted data comes from, a client that typed at most
\* two seconds before the request, or after it (peer.go:240-248, 633-637).
THEOREM ClipboardCorrect == Spec => []ClipboardOfActive
<1>1. Init => ActiveInv /\ ClipboardOfActive
  BY DEF Init, ClipInit, ActiveInv, ClipboardOfActive
<1>2. TypeOK /\ ActiveInv /\ ClipboardOfActive /\ [Next]_vars
        => ActiveInv' /\ ClipboardOfActive'
  <2> SUFFICES ASSUME TypeOK, ActiveInv, ClipboardOfActive, [Next]_vars
               PROVE  ActiveInv' /\ ClipboardOfActive'
    OBVIOUS
  <2> USE DEF ActiveInv, ClipboardOfActive
  <2>1. ASSUME NEW c \in Client, SetLastPeer(c) PROVE ActiveInv' /\ ClipboardOfActive'
    <3>1. CASE Enters(c) /\ recent' = c /\ UNCHANGED fresh
      BY <3>1 DEF Enters
    <3>2. CASE Leaves(c) /\ fresh' = TRUE /\ UNCHANGED recent
      BY <3>2 DEF Leaves
    <3> QED BY <2>1, <3>1, <3>2 DEF SetLastPeer
  <2>2. CASE TimePasses
    <3>1. ~fresh' /\ active' = {} /\ UNCHANGED <<recent, stamp, cp, to, near>> /\ stamp = {}
      BY <2>2 DEF TimePasses
    <3> QED BY <3>1
  <2>3. CASE LooksForPeer
    BY <2>3 DEF LooksForPeer
  <2>4. CASE LooksAtTime
    BY <2>4 DEF LooksAtTime
  <2>5. CASE TakesPeer
    BY <2>5 DEF TakesPeer
  <2>6. CASE Replies
    BY <2>6 DEF Replies
  <2>7. CASE UNCHANGED clipVars
    BY <2>7 DEF clipVars
  <2>8. ClipEvent \/ ClipStep \/ UNCHANGED clipVars
    BY Steps
  <2>9. stamp \subseteq Client
    BY DEF TypeOK, ClipTypeOK
  <2> QED BY <2>1, <2>2, <2>3, <2>4, <2>5, <2>6, <2>7, <2>8, <2>9 DEF ClipEvent, ClipStep
<1> QED BY <1>1, <1>2, TypeCorrect, PTL DEF Spec
-----------------------------------------------------------------------------
(* Agreement on the payload *)

\* Only a connected client knows a payload, only a handler that sets one has
\* one, and only a channel that was opened has a handler at work; a peer is
\* registered under its own fingerprint.
ViewInv ==
    /\ \A c \in Client : /\ hd[c] = "assign" => val[c] # NoValue
                         /\ hd[c] = "idle" => val[c] = NoValue
                         /\ hd[c] # "idle" => cdc[c] \in {"open", "closed"}
                         /\ cdc[c] # "open" => view[c] = NoValue
    /\ \A f \in FP : reg[f] # NoClient => FPof[reg[f]] = f

\* The client is connected and knows a payload.
Knows(d) == reg[FPof[d]] = d /\ cdc[d] = "open" /\ view[d] # NoValue

\* After the last set that began alone, and as long as it is, at most one set is
\* under way; the clients agree, once it has assigned all but those it has
\* still to tell and its own.
AgreeInv ==
    ~mixed => /\ \A c, d \in Client : Setting(c) /\ Setting(d) => c = d
              /\ (\A c \in Client : ~Setting(c))
                    => \A d \in Client : Knows(d) => view[d] = payload
              /\ \A c \in Client : Setting(c) /\ hd[c] # "assign" =>
                    /\ payload = val[c]
                    /\ \A d \in Client : d # c /\ Knows(d) /\ d \notin must[c]
                                            => view[d] = payload

\* What views and handlers may be, step by step.
LEMMA ViewStep ==
    ASSUME PayTypeOK, ViewInv, PayEvent \/ PayStep \/ UNCHANGED payVars
    PROVE  ViewInv'
<1> USE DEF ViewInv
<1>0. /\ cdc \in [Client -> {"unborn", "none", "open", "closed"}]
      /\ hd \in [Client -> {"idle", "assign", "send", "ack"}]
      /\ val \in [Client -> Value \cup {NoValue}]
      /\ view \in [Client -> Payloads]
      /\ reg \in [FP -> Client \cup {NoClient}]
  BY DEF PayTypeOK
<1>1. ASSUME NEW c \in Client, Registers(c) \/ ControlOpens(c) \/ ControlCloses(c)
      PROVE ViewInv'
  BY <1>0, <1>1 DEF Registers, ControlOpens, ControlCloses
<1>2. ASSUME NEW c \in Client, NEW f \in FP, Visits(c, f) PROVE ViewInv'
  <2>1. /\ UNCHANGED <<hd, val, cdc, reg>>
        /\ \A d \in Client : view'[d] = view[d] \/ cdc[d] = "open"
    BY <1>0, <1>2 DEF Visits, Told
  <2> QED BY <2>1
<1>3. ASSUME NEW c \in Client, BroadcastEnds(c) \/ Assigns(c) \/ Resize(c) PROVE ViewInv'
  BY <1>0, <1>3 DEF BroadcastEnds, Assigns, Resize, BroadcastStarts, Ready
<1>4. ASSUME NEW c \in Client, NEW v \in Value, SetPayload(c, v) PROVE ViewInv'
  BY <1>0, <1>4 DEF SetPayload, Ready
<1>5. ASSUME NEW c \in Client, Acks(c) PROVE ViewInv'
  <2>1. /\ UNCHANGED <<cdc, reg>> /\ hd[c] = "ack" /\ hd'[c] = "idle" /\ val'[c] = NoValue
        /\ \A d \in Client : d # c => /\ view'[d] = view[d] /\ hd'[d] = hd[d]
                                      /\ val'[d] = val[d]
        /\ cdc[c] = "closed" => view' = view
    BY <1>0, <1>5 DEF Acks
  <2> QED BY <2>1
<1>6. ASSUME NEW c \in Client, GetPayload(c) PROVE ViewInv'
  <2>1. /\ UNCHANGED <<cdc, reg, hd, val>> /\ cdc[c] = "open"
        /\ \A d \in Client : d # c => view'[d] = view[d]
    BY <1>0, <1>6 DEF GetPayload, Ready
  <2> QED BY <2>1
<1>7. CASE RangeRaces \/ UNCHANGED payVars \/ \E v \in Value : PostLayout(v)
  BY <1>7 DEF RangeRaces, payVars, PostLayout
<1> QED BY <1>1, <1>2, <1>3, <1>4, <1>5, <1>6, <1>7 DEF PayEvent, PayStep
\* A read sees the payload when nobody assigns one.
LEMMA ReadAlone == ASSUME Assigning = {}, NEW v \in Seen PROVE v = payload
BY DEF Seen

\* A step that changes no set, no payload and nobody's connection.
LEMMA AgreeKept ==
    ASSUME ViewInv, AgreeInv, UNCHANGED <<payload, mixed, val>>,
           \A c \in Client : Setting(c)' <=> Setting(c),
           \A c \in Client : Setting(c) /\ hd'[c] # "assign" => hd[c] # "assign",
           \A c, d \in Client : Setting(c) /\ d \in must[c] => d \in must'[c] \/ ~Knows(d)'
                                                                \/ view'[d] = val[c],
           \A d \in Client : Knows(d)' => (Knows(d) /\ view'[d] = view[d]) \/ view'[d] = payload
    PROVE  AgreeInv'
BY DEF AgreeInv

\* The agreement, step by step.
LEMMA AgreeStep ==
    ASSUME PayTypeOK, MustInv, ViewInv, AgreeInv, PayEvent \/ PayStep \/ UNCHANGED payVars
    PROVE  AgreeInv'
<1>0. /\ cdc \in [Client -> {"unborn", "none", "open", "closed"}]
      /\ hd \in [Client -> {"idle", "assign", "send", "ack"}]
      /\ val \in [Client -> Value \cup {NoValue}]
      /\ view \in [Client -> Payloads]
      /\ must \in [Client -> SUBSET Client]
      /\ reg \in [FP -> Client \cup {NoClient}]
      /\ ViewInv /\ AgreeInv
  BY DEF PayTypeOK
<1>1. ASSUME NEW c \in Client, Registers(c) PROVE AgreeInv'
  <2>1. /\ UNCHANGED <<payload, mixed, val, hd, view>> /\ cdc[c] = "unborn"
        /\ \A d \in Client : d # c => cdc'[d] = cdc[d]
        /\ \A f \in FP : reg'[f] = IF f = FPof[c] THEN c ELSE reg[f]
        /\ \A d \in Client : must'[d] = must[d] \ {reg[FPof[c]]}
    BY <1>0, <1>1 DEF Registers
  <2>2. \A d \in Client : Knows(d)' => Knows(d) /\ d # reg[FPof[c]]
    BY <1>0, <2>1 DEF Knows, ViewInv
  <2>3. \A d \in Client : Setting(d)' <=> Setting(d)
    BY <2>1 DEF Setting
  <2> QED BY <1>0, <2>1, <2>2, <2>3, AgreeKept
<1>2. ASSUME NEW c \in Client, ControlOpens(c) \/ ControlCloses(c) PROVE AgreeInv'
  <2>1. /\ UNCHANGED <<payload, mixed, val, hd, reg>>
        /\ \A d \in Client : d # c => cdc'[d] = cdc[d] /\ view'[d] = view[d]
        /\ \/ cdc[c] = "none" /\ must' = must /\ view' = view
           \/ cdc'[c] = "closed" /\ \A d \in Client : must'[d] = must[d] \ {c}
    BY <1>0, <1>2 DEF ControlOpens, ControlCloses
  <2>2. ~Knows(c)'
    BY <1>0, <2>1 DEF Knows, ViewInv
  <2>3. \A d \in Client : Knows(d)' => d # c /\ Knows(d) /\ view'[d] = view[d]
    BY <2>1, <2>2 DEF Knows
  <2>4. \A d \in Client : Setting(d)' <=> Setting(d)
    BY <2>1 DEF Setting
  <2> QED BY <1>0, <2>1, <2>2, <2>3, <2>4, AgreeKept
<1>3. ASSUME NEW c \in Client, NEW f \in FP, Visits(c, f) PROVE AgreeInv'
  <2>1. /\ UNCHANGED <<payload, mixed, val, hd, reg, cdc>> /\ hd[c] = "send"
        /\ \A d \in Client : d # c => must'[d] = must[d]
        /\ \A d \in Client : d \in must[c] => d \in must'[c] \/ d = reg[f]
    BY <1>0, <1>3 DEF Visits, Told
  <2>2. \A d \in Client : Setting(d)' <=> Setting(d)
    BY <2>1 DEF Setting
  <2>3. CASE val[c] = NoValue \/ reg[f] = c \/ cdc[reg[f]] # "open"
    <3>1. view' = view
      BY <1>3, <2>3 DEF Visits, Told
    <3>2. Setting(c) => must' = must
      BY <1>0, <1>3, <2>3 DEF Visits, Setting
    <3>3. \A d \in Client : Knows(d)' <=> Knows(d)
      BY <2>1, <3>1 DEF Knows
    <3>4. \A e, d \in Client : Setting(e) /\ d \in must[e] => d \in must'[e]
      BY <2>1, <3>2
    <3> QED BY <1>0, <2>1, <2>2, <3>1, <3>3, <3>4, AgreeKept
  <2>4. CASE val[c] # NoValue /\ reg[f] # c /\ cdc[reg[f]] = "open"
    <3>1. Setting(c) /\ hd[c] # "assign"
      BY <2>1, <2>4 DEF Setting
    <3>2. \A d \in Client : view'[d] = IF d = reg[f] THEN val[c] ELSE view[d]
      BY <1>0, <1>3, <2>4 DEF Visits, Told
    <3>3. \A d \in Client : d # reg[f] => (Knows(d)' <=> Knows(d))
      BY <2>1, <3>2 DEF Knows
    <3>4. CASE mixed
      BY <2>1, <3>4 DEF AgreeInv
    <3>5. CASE ~mixed
      <4>1. payload = val[c]
        BY <1>0, <3>1, <3>5 DEF AgreeInv
      <4>2. \A e, d \in Client : Setting(e) /\ d \in must[e]
                                    => d \in must'[e] \/ view'[d] = val[e]
        BY <2>1, <3>2
      <4> QED BY <1>0, <2>1, <2>2, <3>2, <3>3, <4>1, <4>2, AgreeKept
    <3> QED BY <3>4, <3>5
  <2> QED BY <2>3, <2>4
<1>4. ASSUME NEW c \in Client, BroadcastEnds(c) PROVE AgreeInv'
  <2>1. /\ UNCHANGED <<payload, mixed, val, reg, cdc, must, view>>
        /\ hd[c] = "send" /\ hd'[c] = "ack" /\ \A d \in Client : d # c => hd'[d] = hd[d]
    BY <1>0, <1>4 DEF BroadcastEnds
  <2>2. \A d \in Client : (Setting(d)' <=> Setting(d)) /\ (Knows(d)' <=> Knows(d))
    BY <2>1 DEF Setting, Knows
  <2> QED BY <1>0, <2>1, <2>2, AgreeKept
<1>5. ASSUME NEW c \in Client, NEW v \in Value, SetPayload(c, v) PROVE AgreeInv'
  <2>1. /\ mixed' = (\E d \in Client : Setting(d)) /\ hd'[c] = "assign"
        /\ \A d \in Client : d # c => hd'[d] = hd[d] /\ val'[d] = val[d]
    BY <1>0, <1>5 DEF SetPayload
  <2>2. \A d \in Client : d # c => (Setting(d)' <=> Setting(d))
    BY <2>1 DEF Setting
  <2>3. Setting(c)'
    BY <1>0, <1>5 DEF SetPayload, Setting
  <2> QED BY <2>1, <2>2, <2>3 DEF AgreeInv
<1>6. ASSUME NEW c \in Client, Assigns(c) PROVE AgreeInv'
  <2>1. /\ UNCHANGED <<mixed, val, reg, cdc, view>>
        /\ hd[c] = "assign" /\ hd'[c] = "send" /\ \A d \in Client : d # c => hd'[d] = hd[d]
        /\ must'[c] = {d \in Client \ {c} : reg[FPof[d]] = d /\ cdc[d] = "open"}
    BY <1>0, <1>6 DEF Assigns, BroadcastStarts
  <2>2. Setting(c) /\ \A d \in Client : Setting(d)' <=> Setting(d)
    BY <1>0, <2>1 DEF Setting, ViewInv
  <2>3. CASE mixed
    BY <2>1, <2>3 DEF AgreeInv
  <2>4. CASE ~mixed
    <3>1. \A d \in Client : Setting(d) => d = c
      BY <1>0, <2>2, <2>4 DEF AgreeInv
    <3>2. Assigning \ {c} = {}
      BY <1>0, <3>1 DEF Assigning, Setting, ViewInv
    <3>3. payload' = val[c]
      BY <1>6, <3>2 DEF Assigns, Left
    <3>4. \A d \in Client : d # c /\ Knows(d)' => d \in must'[c]
      BY <2>1 DEF Knows
    <3> QED BY <2>1, <2>2, <3>1, <3>3, <3>4 DEF AgreeInv
  <2> QED BY <2>3, <2>4
<1>7. ASSUME NEW c \in Client, Resize(c) PROVE AgreeInv'
  <2>1. /\ UNCHANGED <<payload, mixed, val, reg, cdc, view>>
        /\ hd[c] = "idle" /\ hd'[c] = "send" /\ \A d \in Client : d # c => hd'[d] = hd[d]
        /\ \A d \in Client : d # c => must'[d] = must[d]
    BY <1>0, <1>7 DEF Resize, Ready, BroadcastStarts
  <2>2. \A d \in Client : (Setting(d)' <=> Setting(d)) /\ (Knows(d)' <=> Knows(d))
    BY <1>0, <2>1 DEF Setting, Knows, ViewInv
  <2>3. ~Setting(c)
    BY <2>1 DEF Setting
  <2> QED BY <1>0, <2>1, <2>2, <2>3, AgreeKept
<1>8. ASSUME NEW c \in Client, Acks(c) PROVE AgreeInv'
  <2>1. /\ UNCHANGED <<payload, mixed, reg, cdc>> /\ hd[c] = "ack" /\ hd'[c] = "idle"
        /\ \A d \in Client : d # c => /\ hd'[d] = hd[d] /\ val'[d] = val[d]
                                      /\ must'[d] = must[d] /\ view'[d] = view[d]
        /\ val'[c] = NoValue
    BY <1>0, <1>8 DEF Acks
  <2>2. /\ \A d \in Client : d # c => (Setting(d)' <=> Setting(d)) /\ (Knows(d)' <=> Knows(d))
        /\ ~Setting(c)'
    BY <2>1 DEF Setting, Knows
  <2>3. CASE mixed
    BY <2>1, <2>3 DEF AgreeInv
  <2>4. CASE ~mixed /\ val[c] = NoValue
    <3>1. view' = view /\ ~Setting(c)
      BY <1>8, <2>4 DEF Acks, Setting
    <3>2. \A d \in Client : (Setting(d)' <=> Setting(d)) /\ (Knows(d)' <=> Knows(d))
      BY <2>1, <2>2, <3>1 DEF Knows
    <3>3. val' = val
      BY <1>0, <1>8, <2>4 DEF Acks
    <3> QED BY <1>0, <2>1, <3>1, <3>2, <3>3, AgreeKept
  <2>5. CASE ~mixed /\ val[c] # NoValue
    <3>1. Setting(c)
      BY <2>1, <2>5 DEF Setting
    <3>2. \A d \in Client : Setting(d) => d = c
      BY <1>0, <2>5, <3>1 DEF AgreeInv
    <3>3. Assigning = {}
      BY <1>0, <2>1, <3>2 DEF Assigning, Setting, ViewInv
    <3>4. must[c] = {}
      BY <2>1 DEF MustInv
    <3>5. \A d \in Client : d # c /\ Knows(d) => view[d] = payload
      BY <1>0, <2>1, <2>5, <3>1, <3>4 DEF AgreeInv
    <3>6. Knows(c)' => view'[c] = payload
      <4>1. CASE cdc[c] = "closed"
        BY <2>1, <4>1 DEF Knows
      <4>2. CASE cdc[c] # "closed"
        BY <1>0, <1>8, <2>5, <3>3, <4>2, ReadAlone DEF Acks
      <4> QED BY <4>1, <4>2
    <3>7. \A d \in Client : ~Setting(d)'
      BY <2>2, <3>2
    <3> QED BY <2>1, <2>2, <3>5, <3>6, <3>7 DEF AgreeInv
  <2> QED BY <2>3, <2>4, <2>5
<1>9. ASSUME NEW c \in Client, GetPayload(c) PROVE AgreeInv'
  <2>1. /\ UNCHANGED <<payload, mixed, val, hd, reg, cdc, must>>
        /\ \A d \in Client : d # c => view'[d] = view[d]
    BY <1>0, <1>9 DEF GetPayload
  <2>2. /\ \A d \in Client : d # c => (Knows(d)' <=> Knows(d))
        /\ \A d \in Client : Setting(d)' <=> Setting(d)
    BY <2>1 DEF Setting, Knows
  <2>3. CASE mixed
    BY <2>1, <2>3 DEF AgreeInv
  <2>4. CASE Assigning = {}
    <3>1. view'[c] = payload
      BY <1>0, <1>9, <2>4, ReadAlone DEF GetPayload
    <3> QED BY <1>0, <2>1, <2>2, <3>1, AgreeKept
  <2>5. CASE ~mixed /\ Assigning # {}
    <3>1. PICK e \in Client : hd[e] = "assign"
      BY <2>5 DEF Assigning
    <3>2. Setting(e)
      BY <1>0, <3>1 DEF Setting, ViewInv
    <3>3. \A d \in Client : Setting(d) => d = e
      BY <1>0, <2>5, <3>2 DEF AgreeInv
    <3> QED BY <2>1, <2>2, <3>1, <3>2, <3>3 DEF AgreeInv
  <2> QED BY <2>3, <2>4, <2>5
<1>10. ASSUME NEW v \in Value, PostLayout(v) PROVE AgreeInv'
  BY <1>10 DEF PostLayout, AgreeInv
<1>11. CASE RangeRaces \/ UNCHANGED payVars
  BY <1>0, <1>11 DEF RangeRaces, payVars, AgreeInv, Setting, Knows
<1> QED BY <1>1, <1>2, <1>3, <1>4, <1>5, <1>6, <1>7, <1>8, <1>9, <1>10, <1>11
        DEF PayEvent, PayStep

\* When no set is under way and the last one that began alone was met and
\* followed by no other assignment, all connected clients that know a payload
\* know the agent's (handlers.go:49-86, peer.go:493-503).
THEOREM AgreementCorrect == Spec => []ClientsAgree
<1>1. Init => ViewInv /\ AgreeInv
  BY DEF Init, PayInit, ViewInv, AgreeInv, Setting, Knows
<1>2. TypeOK /\ MustInv /\ ViewInv /\ AgreeInv /\ [Next]_vars => ViewInv' /\ AgreeInv'
  BY Steps, ViewStep, AgreeStep DEF TypeOK
<1>3. AgreeInv => ClientsAgree
  BY DEF AgreeInv, ClientsAgree, Knows
<1> QED BY <1>1, <1>2, <1>3, TypeCorrect, BroadcastCorrect, PTL DEF Spec
=============================================================================
