--------------------------- MODULE SignallingProofs ---------------------------
(***************************************************************************)
(* Proofs about Signalling, for any clients, requests and numbers of       *)
(* peers, candidates and events: the types, what a removal leaves in the   *)
(* file of authorised clients, and what may end the agent.                 *)
(***************************************************************************)
EXTENDS Signalling, AuthorizedProofs, TLAPS

USE ConnAssumption, CanAssumption, EventsAssumption

-----------------------------------------------------------------------------
(* Types *)

NetTypeOK == ConnTypeOK /\ HttpTypeOK /\ PbTypeOK

\* A step of the peers' state handlers (peer.go:150-165).
LEMMA ConnTypes ==
    ASSUME NetTypeOK, ConnStep, UNCHANGED <<httpVars, pbVars>>
    PROVE  NetTypeOK'
<1> USE DEF NetTypeOK, ConnTypeOK
<1>1. HttpTypeOK' /\ PbTypeOK'
  BY DEF httpVars, pbVars, HttpTypeOK, PbTypeOK
<1>2. ASSUME NEW c \in Conn, Connects(c) \/ ConnectionFails(c) PROVE ConnTypeOK'
  BY <1>2 DEF Connects, ConnectionFails, Closed
<1>3. ASSUME NEW c \in Conn, Drains(c) PROVE ConnTypeOK'
  <2>1. pend[c] - 1 \in 0..PendCap
    BY <1>3 DEF Drains
  <2> QED BY <1>3, <2>1 DEF Drains
<1> QED BY <1>1, <1>2, <1>3 DEF ConnStep

\* A candidate that is queued finds room (peer.go:486).
LEMMA QueueTypes ==
    ASSUME ConnTypeOK, NEW c \in Conn \cup {NoConn}, QueueCandidate(c)
    PROVE  pend' \in [Conn -> 0..PendCap]
<1>1. CASE c \in Conn
  <2>1. pend[c] + 1 \in 0..PendCap
    BY <1>1 DEF QueueCandidate, ConnTypeOK
  <2> QED BY <2>1 DEF QueueCandidate, ConnTypeOK
<1>2. CASE c \notin Conn
  BY <1>2 DEF QueueCandidate, ConnTypeOK
<1> QED BY <1>1, <1>2

\* What a request that ends leaves behind.
LEMMA EndsTypes ==
    ASSUME HttpTypeOK, NEW r \in Req, NEW as \in {"over", "done"}, Ends(r, as)
    PROVE  /\ rq' \in [Req -> {"idle", "create", "listen", "gather", "store", "stored",
                               "over", "body", "use", "pend", "done"}]
           /\ kind' \in [Req -> {"none", "offer", "connect"}]
           /\ rfp' \in [Req -> FP \cup {NoFP}]
           /\ rc' \in [Req -> Conn \cup {NoConn}]
BY DEF HttpTypeOK, Ends, Goes

\* A step of the HTTP server (http.go).
LEMMA HttpTypes ==
    ASSUME NetTypeOK, HttpEvent \/ HttpStep, UNCHANGED pbVars
    PROVE  NetTypeOK'
<1> USE DEF NetTypeOK, ConnTypeOK, HttpTypeOK, connVars
<1>0. PbTypeOK'
  BY DEF pbVars, PbTypeOK
<1>1. ASSUME NEW r \in Req, NEW f \in FP, NEW b \in Bearer,
             HandleOffer(r, f, b) \/ HandleConnect(r, f, b)
      PROVE ConnTypeOK' /\ HttpTypeOK'
  <2>1. ASSUME NEW k \in {"offer", "connect"}, Offer(r, k, f, b)
        PROVE ConnTypeOK' /\ HttpTypeOK'
    BY <2>1 DEF Offer, Goes, Ends
  <2> QED BY <1>1, <2>1 DEF HandleOffer, HandleConnect
<1>2. ASSUME NEW r \in Req, OfferCreates(r) PROVE ConnTypeOK' /\ HttpTypeOK'
  <2>1. PICK c \in Conn : NewPeer(rfp[r], c) /\ rc' = [rc EXCEPT ![r] = c]
    BY <1>2 DEF OfferCreates
  <2>2. /\ pc' \in [Conn -> {"unused", "new", "local", "connecting", "nil"}]
        /\ reg' \in [FP -> Conn \cup {NoConn}] /\ rc' \in [Req -> Conn \cup {NoConn}]
    BY <2>1 DEF NewPeer
  <2> QED BY <1>2, <2>2 DEF OfferCreates, Goes
<1>3. ASSUME NEW r \in Req, OfferListens(r) \/ OfferStores(r) PROVE ConnTypeOK' /\ HttpTypeOK'
  <2>1. CASE OfferListens(r)
    BY <2>1 DEF OfferListens, Goes
  <2>2. CASE OfferStores(r)
    BY <2>2 DEF OfferStores, Goes
  <2> QED BY <1>3, <2>1, <2>2
<1>4. ASSUME NEW r \in Req, OfferGathers(r) PROVE ConnTypeOK' /\ HttpTypeOK'
  <2>1. CASE kind[r] = "offer"
    BY <1>4, <2>1 DEF OfferGathers, Goes
  <2>2. CASE kind[r] # "offer"
    BY <1>4, <2>2, EndsTypes DEF OfferGathers
  <2> QED BY <2>1, <2>2
<1>5. ASSUME NEW r \in Req, OfferEnds(r) \/ Expires(r) \/ PatchUses(r)
      PROVE ConnTypeOK' /\ HttpTypeOK'
  <2>1. /\ UNCHANGED <<agent, pc, reg, pend, drain>> /\ sess' \subseteq Req
        /\ Ends(r, "done") \/ Ends(r, "over")
    BY <1>5 DEF OfferEnds, Expires, PatchUses
  <2> QED BY <2>1, EndsTypes
<1>6. ASSUME NEW r \in Req, NEW s \in Req, Patch(r, s) \/ Delete(r, s)
      PROVE ConnTypeOK' /\ HttpTypeOK'
  BY <1>6 DEF Patch, Delete, Goes
<1>7. ASSUME NEW r \in Req, PatchReads(r) PROVE ConnTypeOK' /\ HttpTypeOK'
  BY <1>7 DEF PatchReads, CandidateGoes, Goes, Ends
<1>8. ASSUME NEW r \in Req, PatchPends(r) PROVE ConnTypeOK' /\ HttpTypeOK'
  <2>1. pend' \in [Conn -> 0..PendCap]
    BY <1>8, QueueTypes DEF PatchPends
  <2> QED BY <1>8, <2>1, EndsTypes DEF PatchPends
<1>9. CASE SessionsRace
  <2>1. agent' = "race" /\ UNCHANGED <<pc, reg, pend, drain, rq, kind, rfp, rc, sess>>
    BY <1>9 DEF SessionsRace, httpVars
  <2> QED BY <1>0, <2>1
<1> QED BY <1>0, <1>1, <1>2, <1>3, <1>4, <1>5, <1>6, <1>7, <1>8, <1>9
        DEF HttpEvent, HttpStep, Serves

\* A step of the peerbook client (peerbook.go).
LEMMA PbTypes ==
    ASSUME NetTypeOK, PbEvent \/ PbStep, UNCHANGED httpVars
    PROVE  NetTypeOK'
<1> USE DEF NetTypeOK, ConnTypeOK, PbTypeOK, connVars
<1>0. HttpTypeOK'
  BY DEF httpVars, HttpTypeOK
<1>1. CASE Dials \/ Breaks \/ ReadFails \/ Wakes
  BY <1>0, <1>1 DEF Dials, Breaks, ReadFails, Wakes
<1>2. ASSUME NEW f \in FP, GetsMismatch(f) \/ \E v \in {"no", "missing"} : GetsUpdate(f, v)
      PROVE NetTypeOK'
  <2>1. /\ UNCHANGED <<reg, pend, drain, pbVars>>
        /\ agent' \in {agent, "message"} /\ (pc' = pc \/ pc' = [pc EXCEPT ![reg[f]] = "nil"])
    BY <1>2 DEF GetsMismatch, GetsUpdate, Closed
  <2>2. pc' \in [Conn -> {"unused", "new", "local", "connecting", "nil"}]
    BY <2>1
  <2> QED BY <1>0, <2>1, <2>2 DEF pbVars
<1>3. ASSUME NEW f \in FP, GetsOffer(f) \/ GetsCandidate(f) PROVE NetTypeOK'
  <2>1. /\ UNCHANGED <<connVars, ws, wr, hook, cb, ncan>>
        /\ rd' \in {"create", "use", "pend"} /\ rdfp' \in {rdfp, f} /\ rdc' \in {rdc, reg[f]}
    BY <1>3 DEF GetsOffer, GetsCandidate, CandidateGoes
  <2>2. ConnTypeOK'
    BY <2>1
  <2>3. PbTypeOK'
    BY <2>1
  <2> QED BY <1>0, <2>2, <2>3
<1>4. CASE OfferMakesPeer
  <2>1. PICK c \in Conn : NewPeer(rdfp, c) /\ rdc' = c /\ hook' = hook \cup {c}
    BY <1>4 DEF OfferMakesPeer
  <2>2. /\ pc' \in [Conn -> {"unused", "new", "local", "connecting", "nil"}]
        /\ reg' \in [FP -> Conn \cup {NoConn}]
    BY <2>1 DEF NewPeer
  <2> QED BY <1>0, <1>4, <2>1, <2>2 DEF OfferMakesPeer
<1>5. CASE OfferDescribes \/ OfferFails \/ Answers
  BY <1>0, <1>5 DEF OfferDescribes, OfferFails, Answers, Returns
<1>6. CASE CandidateUses
  BY <1>0, <1>6 DEF CandidateUses, Returns
<1>7. CASE CandidatePends
  <2>1. pend' \in [Conn -> 0..PendCap]
    BY <1>7, QueueTypes DEF CandidatePends
  <2> QED BY <1>0, <1>7, <2>1 DEF CandidatePends, Returns
<1>8. ASSUME NEW c \in Conn, Gathers(c) PROVE NetTypeOK'
  <2>1. ncan[c] + 1 \in 0..MaxCan
    BY <1>8 DEF Gathers
  <2>2. ncan' \in [Conn -> 0..MaxCan] /\ cb' \in [Conn -> {"off", "check", "send"}]
    BY <1>8, <2>1 DEF Gathers
  <2>3. UNCHANGED <<agent, pc, reg, pend, drain, ws, rd, rdfp, rdc, wr, hook>>
    BY <1>8 DEF Gathers
  <2> QED BY <1>0, <2>2, <2>3
<1>9. ASSUME NEW c \in Conn, CallbackAsks(c) \/ CallbackSends(c) PROVE NetTypeOK'
  <2>1. cb' \in [Conn -> {"off", "check", "send"}] /\ wr' \in {wr, "write"}
    BY <1>9 DEF CallbackAsks, CallbackSends
  <2>2. /\ agent' \in {agent, "panic"}
        /\ UNCHANGED <<pc, reg, pend, drain, ws, rd, rdfp, rdc, hook, ncan>>
    BY <1>9 DEF CallbackAsks, CallbackSends
  <2> QED BY <1>0, <2>1, <2>2
<1>10. CASE WriterWrites
  BY <1>0, <1>10 DEF WriterWrites
<1> QED BY <1>1, <1>2, <1>3, <1>4, <1>5, <1>6, <1>7, <1>8, <1>9, <1>10
        DEF PbEvent, PbStep, ReaderStep, Calls

\* Every step belongs to one component.
LEMMA Steps ==
    ASSUME [Next]_vars
    PROVE  \/ UNCHANGED <<connVars, httpVars, pbVars>>
           \/ ConnStep /\ UNCHANGED <<httpVars, pbVars>>
           \/ (HttpEvent \/ HttpStep) /\ UNCHANGED pbVars
           \/ (PbEvent \/ PbStep) /\ UNCHANGED httpVars
           \/ PeersRace
BY DEF Next, Event, Step, vars

\* The variables of the peers, the HTTP server and the peerbook client keep
\* their types: pendingCandidates (peer.go:116) never holds more than it can.
LEMMA NetTypeCorrect == Spec => []NetTypeOK
<1>1. Init => NetTypeOK
  BY DEF Init, ConnInit, HttpInit, PbInit, NetTypeOK, ConnTypeOK, HttpTypeOK, PbTypeOK
<1>2. NetTypeOK /\ [Next]_vars => NetTypeOK'
  <2> SUFFICES ASSUME NetTypeOK, [Next]_vars PROVE NetTypeOK'
    OBVIOUS
  <2>1. CASE UNCHANGED <<connVars, httpVars, pbVars>>
    BY <2>1 DEF connVars, httpVars, pbVars, NetTypeOK, ConnTypeOK, HttpTypeOK, PbTypeOK
  <2>2. CASE PeersRace
    BY <2>2 DEF PeersRace, httpVars, pbVars, NetTypeOK, ConnTypeOK, HttpTypeOK, PbTypeOK
  <2> QED BY <2>1, <2>2, Steps, ConnTypes, HttpTypes, PbTypes
<1> QED BY <1>1, <1>2, PTL DEF Spec

-----------------------------------------------------------------------------
(* The file of authorised clients *)

\* Only the client commands change the file; the HTTP server reads it.
LEMMA FileSteps ==
    ASSUME [Next]_vars
    PROVE  AuthEvent \/ AuthStep \/ UNCHANGED fileVars
BY DEF Next, Event, Step, PeersRace, vars

\* The invariant of the file holds while requests are served and peerbook is
\* listened to.
LEMMA FileInvariant == Spec => []AuthInv
<1>1. Init => AuthInv
  BY AuthStarts DEF Init
<1>2. AuthInv /\ [Next]_vars => AuthInv'
  BY FileSteps, AuthKeeps
<1> QED BY <1>1, <1>2, PTL DEF Spec

\* No client that was authorised at the start and that no "client remove" named
\* is refused, unless a removal is writing the file or was cut short while it
\* did (clients.go:57-82, auth.go:33-78).
THEOREM UnnamedCorrect == Spec => []UnnamedClientsStay
<1>1. AuthInv => UnnamedClientsStay
  BY AuthShows
<1> QED BY <1>1, FileInvariant, PTL

\* When "client remove" has finished, its argument is in the file only if it was
\* added after the removal read it (clients.go:57-82).
THEOREM RemovedCorrect == Spec => []RemovedIsGone
<1>1. AuthInv => RemovedIsGone
  BY AuthShows
<1> QED BY <1>1, FileInvariant, PTL

\* Every variable of the composition keeps its type: pendingCandidates
\* (peer.go:116) never holds more than it can, a removal never writes more lines
\* than it kept, and every line of the file is one that can be read.
THEOREM TypeCorrect == Spec => []TypeOK
<1> DEFINE Left == left \in 0..MaxEvents /\ met \in BOOLEAN
<1>1. Init => Left
  <2>1. Init => left \in 0..MaxEvents
    BY EventsAssumption DEF Init
  <2>2. Init => met \in BOOLEAN
    BY DEF Init
  <2> QED BY <2>1, <2>2
<1>2. Left /\ [Next]_vars => Left'
  <2> SUFFICES ASSUME Left, [Next]_vars PROVE Left'
    OBVIOUS
  <2>1. left' \in 0..MaxEvents
    BY DEF Next, vars
  <2>2. met' \in {met, TRUE}
    BY DEF Next, Records, vars
  <2> QED BY <2>1, <2>2
<1>3. AuthInv /\ NetTypeOK /\ Left => TypeOK
  BY DEF AuthInv, NetTypeOK, TypeOK
<1> HIDE DEF Left
<1> QED BY <1>1, <1>2, <1>3, FileInvariant, NetTypeCorrect, PTL DEF Spec

-----------------------------------------------------------------------------
(* What may end the agent *)

\* As long as nothing was taken away from a goroutine at work: the peer whose
\* candidate or callback passed the look at PC has it, and a message that is
\* about to be written has a websocket.
InHand ==
    ~met => /\ agent # "panic"
            /\ rd = "use" => pc[rdc] # "nil"
            /\ \A c \in Conn : cb[c] = "check" => pc[c] # "nil"
            /\ wr = "write" => ws # "nil"

\* A candidate that is handled has a peer, and the reader handles messages only
\* while it has a websocket.
HandlesPeer == /\ rd \in {"use", "pend"} => rdc \in Conn
               /\ rd # "dial" => ws # "nil"

PanicInv == InHand /\ HandlesPeer

\* Steps that close no peer and change nothing of the peerbook client.
LEMMA PanicKept ==
    ASSUME PanicInv, UNCHANGED pbVars, Records, agent' # "panic",
           \A c \in Conn : pc'[c] = "nil" => pc[c] = "nil"
    PROVE  PanicInv'
<1>1. UNCHANGED <<ws, rd, rdc, wr, cb>>
  BY DEF pbVars
<1>2. ~met' => ~met
  BY DEF Records
<1> QED BY <1>1, <1>2 DEF PanicInv, InHand, HandlesPeer

\* A peer is closed: that is recorded if its candidate or callback is at work.
LEMMA PanicCloses ==
    ASSUME NetTypeOK, PanicInv, NEW c, pc' = Closed(c), UNCHANGED pbVars, Records,
           agent' # "panic"
    PROVE  PanicInv'
<1>1. UNCHANGED <<ws, rd, rdc, wr, cb>>
  BY DEF pbVars
<1>2. pc \in [Conn -> {"unused", "new", "local", "connecting", "nil"}]
  BY DEF NetTypeOK, ConnTypeOK
<1>3. HandlesPeer'
  BY <1>1 DEF PanicInv, HandlesPeer
<1>4. ASSUME ~met' PROVE InHand'
  <2>1. ~met /\ ~Overlap
    BY <1>4 DEF Records
  <2>2. ASSUME NEW d \in Conn, pc'[d] = "nil", (rd = "use" /\ rdc = d) \/ cb[d] = "check"
        PROVE FALSE
    <3>1. pc[d] # "nil"
      BY <2>1, <2>2 DEF PanicInv, InHand
    <3> QED BY <2>1, <2>2, <3>1 DEF Overlap
  <2>3. rd = "use" => rdc \in Conn
    BY DEF PanicInv, HandlesPeer
  <2> QED BY <1>1, <2>1, <2>2, <2>3 DEF PanicInv, InHand
<1> QED BY <1>3, <1>4 DEF PanicInv, InHand

\* A step of the peers' state handlers.
LEMMA ConnPanic ==
    ASSUME NetTypeOK, PanicInv, agent = "up", ConnStep, UNCHANGED pbVars, Records
    PROVE  PanicInv'
<1>1. ASSUME NEW c \in Conn, Connects(c) PROVE PanicInv'
  BY <1>1, PanicKept DEF Connects, NetTypeOK, ConnTypeOK
<1>2. ASSUME NEW c \in Conn, Drains(c) PROVE PanicInv'
  BY <1>2, PanicKept DEF Drains
<1>3. ASSUME NEW c \in Conn, ConnectionFails(c) PROVE PanicInv'
  BY <1>3, PanicCloses DEF ConnectionFails
<1> QED BY <1>1, <1>2, <1>3 DEF ConnStep

\* A step of the HTTP server closes no peer.
LEMMA HttpPanic ==
    ASSUME NetTypeOK, PanicInv, agent = "up", HttpEvent \/ HttpStep, UNCHANGED pbVars, Records
    PROVE  PanicInv'
<1>1. agent' # "panic" /\ \A c \in Conn : pc'[c] = "nil" => pc[c] = "nil"
  <2> USE DEF connVars, NetTypeOK, ConnTypeOK
  <2> DEFINE Goal == agent' # "panic" /\ \A c \in Conn : pc'[c] = "nil" => pc[c] = "nil"
  <2>1. ASSUME NEW r \in Req, \/ OfferGathers(r) \/ OfferEnds(r) \/ OfferStores(r) \/ Expires(r)
                              \/ PatchUses(r) \/ PatchPends(r) \/ PatchReads(r)
        PROVE Goal
    BY <2>1 DEF OfferGathers, OfferEnds, OfferStores, Expires, PatchUses, PatchPends, PatchReads
  <2>2. ASSUME NEW r \in Req, OfferCreates(r) \/ OfferListens(r) PROVE Goal
    BY <2>2 DEF OfferCreates, OfferListens, NewPeer
  <2>3. CASE HttpEvent \/ SessionsRace
    BY <2>3 DEF HttpEvent, HandleOffer, HandleConnect, Offer, Patch, Delete, SessionsRace
  <2> QED BY <2>1, <2>2, <2>3 DEF HttpStep, Serves
<1> QED BY <1>1, PanicKept

\* A step of the peerbook client.
LEMMA PbPanic ==
    ASSUME NetTypeOK, PanicInv, agent = "up", PbEvent \/ PbStep, Records
    PROVE  PanicInv'
<1> USE DEF connVars
<1>0. /\ pc \in [Conn -> {"unused", "new", "local", "connecting", "nil"}]
      /\ cb \in [Conn -> {"off", "check", "send"}]
      /\ reg \in [FP -> Conn \cup {NoConn}]
      /\ InHand /\ HandlesPeer
  BY DEF NetTypeOK, ConnTypeOK, PbTypeOK, PanicInv
<1>00. (~met' => ~met /\ ~Overlap) /\ (PanicInv' <=> InHand' /\ HandlesPeer')
  BY DEF Records, PanicInv
<1>1. CASE Dials \/ Breaks \/ ReadFails
  BY <1>0, <1>00, <1>1 DEF Dials, Breaks, ReadFails, InHand, HandlesPeer
<1>2. CASE Wakes
  BY <1>0, <1>00, <1>2 DEF Wakes, Overlap, InHand, HandlesPeer
<1>3. ASSUME NEW f \in FP, GetsMismatch(f) \/ \E v \in {"no", "missing"} : GetsUpdate(f, v)
      PROVE PanicInv'
  <2>1. /\ UNCHANGED pbVars /\ agent' # "panic" /\ pc' \in {pc, Closed(reg[f])}
    BY <1>3 DEF GetsMismatch, GetsUpdate
  <2> QED BY <2>1, PanicKept, PanicCloses
<1>4. ASSUME NEW f \in FP, GetsOffer(f) PROVE PanicInv'
  BY <1>0, <1>00, <1>4 DEF GetsOffer, Reads, InHand, HandlesPeer
<1>5. ASSUME NEW f \in FP, GetsCandidate(f) PROVE PanicInv'
  BY <1>0, <1>00, <1>5 DEF GetsCandidate, Reads, CandidateGoes, InHand, HandlesPeer
<1>6. CASE OfferMakesPeer
  <2>1. PICK c \in Conn : NewPeer(rdfp, c)
    BY <1>6 DEF OfferMakesPeer
  <2>2. \A d \in Conn : pc'[d] = "nil" => pc[d] = "nil"
    BY <1>0, <2>1 DEF NewPeer
  <2>3. UNCHANGED <<agent, ws, wr, cb>> /\ rd = "create" /\ rd' = "describe"
    BY <1>6 DEF OfferMakesPeer
  <2> QED BY <1>0, <1>00, <2>2, <2>3 DEF InHand, HandlesPeer
<1>7. CASE OfferDescribes \/ OfferFails
  <2>1. /\ UNCHANGED <<agent, ws, wr, cb>> /\ rd' \in {"answer", "read"}
        /\ rd \in {"create", "describe"} /\ \A d \in Conn : pc'[d] = "nil" => pc[d] = "nil"
    BY <1>0, <1>7 DEF OfferDescribes, OfferFails, Returns
  <2> QED BY <1>0, <1>00, <2>1 DEF InHand, HandlesPeer
<1>8. CASE Answers
  BY <1>0, <1>00, <1>8 DEF Answers, Returns, InHand, HandlesPeer
<1>9. CASE CandidateUses \/ CandidatePends
  BY <1>0, <1>00, <1>9 DEF CandidateUses, CandidatePends, Returns, InHand, HandlesPeer
<1>10. ASSUME NEW c \in Conn, Gathers(c) \/ CallbackAsks(c) PROVE PanicInv'
  BY <1>0, <1>00, <1>10 DEF Gathers, CallbackAsks, InHand, HandlesPeer
<1>11. ASSUME NEW c \in Conn, CallbackSends(c) PROVE PanicInv'
  BY <1>0, <1>00, <1>11 DEF CallbackSends, Overlap, InHand, HandlesPeer
<1>12. CASE WriterWrites
  BY <1>0, <1>00, <1>12 DEF WriterWrites, InHand, HandlesPeer
<1> QED BY <1>1, <1>2, <1>3, <1>4, <1>5, <1>6, <1>7, <1>8, <1>9, <1>10, <1>11, <1>12
        DEF PbEvent, PbStep, ReaderStep, Calls

\* The agent panics only if a peer was closed, or the websocket given up, under
\* a goroutine in the middle of its work (peer.go:482-491, peerbook.go:137, 172,
\* 308, 335): closes, refusals and broken websockets at any other moment do not
\* end it, whatever the number of clients, peers, candidates and messages.
THEOREM PanicCorrect == Spec => []PanicNeedsOverlap
<1>1. Init => PanicInv
  BY DEF Init, ConnInit, PbInit, PanicInv, InHand, HandlesPeer
<1>2. NetTypeOK /\ PanicInv /\ [Next]_vars => PanicInv'
  <2> SUFFICES ASSUME NetTypeOK, PanicInv, [Next]_vars PROVE PanicInv'
    OBVIOUS
  <2>1. CASE UNCHANGED vars
    BY <2>1 DEF vars, connVars, pbVars, PanicInv, InHand, HandlesPeer
  <2>2. CASE Next
    <3>1. Records /\ agent = "up"
      BY <2>2 DEF Next
    <3>2. CASE UNCHANGED <<connVars, httpVars, pbVars>>
      BY <3>1, <3>2, PanicKept DEF connVars
    <3>3. CASE PeersRace
      BY <3>1, <3>3, PanicKept DEF PeersRace
    <3> QED BY <3>1, <3>2, <3>3, Steps, ConnPanic, HttpPanic, PbPanic
  <2> QED BY <2>1, <2>2
<1>3. PanicInv => PanicNeedsOverlap
  BY DEF PanicInv, InHand, PanicNeedsOverlap
<1> QED BY <1>1, <1>2, <1>3, NetTypeCorrect, PTL DEF Spec
=============================================================================
