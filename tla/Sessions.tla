------------------------------- MODULE Sessions -------------------------------
(***************************************************************************)
(* The HTTP server: clients send offers to /connect and /offer, and for an *)
(* offer their candidates to the session it was given, which is forgotten  *)
(* after 30 seconds.  Source: src/httpserver/http.go.                      *)
(*                                                                         *)
(* A request is used once; the session of an offer bears the request's     *)
(* name.  net/http recovers a handler that panics: the request is over and *)
(* the agent goes on.                                                      *)
(***************************************************************************)
EXTENDS Connections, Authorized

CONSTANT Req       \* bound: the requests

Bearer == Token \cup {"none", "short"}

VARIABLES
    rq,   \* where a request, and then the timer of its session, is
    kind, \* the end point it was sent to: "none", "offer" or "connect"
    rfp,  \* the fingerprint of its offer
    rc,   \* its peer
    sess  \* the keys of sessions

httpVars == <<rq, kind, rfp, rc, sess>>

HttpInit == /\ rq = [r \in Req |-> "idle"] /\ kind = [r \in Req |-> "none"]
            /\ rfp = [r \in Req |-> NoFP] /\ rc = [r \in Req |-> NoConn]
            /\ sess = {}

Goes(r, where) == rq' = [rq EXCEPT ![r] = where]

\* The handler returns, its locals are gone.
Ends(r, as) == /\ Goes(r, as)
               /\ kind' = [kind EXCEPT ![r] = "none"]
               /\ rfp' = [rfp EXCEPT ![r] = NoFP]
               /\ rc' = [rc EXCEPT ![r] = NoConn]

\* The handler's own IsAuthorized: a header too short for a token is refused.
MayConnect(f, b) == b # "short" /\ (Authorised(f) \/ (b \in Token /\ Authorised(b)))

\* An offer is parsed and its client authorised.
Offer(r, k, f, b) ==
    /\ rq[r] = "idle"
    /\ IF MayConnect(f, b)
       THEN /\ Goes(r, "create")
            /\ kind' = [kind EXCEPT ![r] = k]
            /\ rfp' = [rfp EXCEPT ![r] = f]
            /\ UNCHANGED rc
       ELSE Ends(r, "done")
    /\ UNCHANGED <<connVars, sess>>

\* The two end points, up to NewPeer.
HandleOffer(r, f, b) == Offer(r, "offer", f, b)
HandleConnect(r, f, b) == Offer(r, "connect", f, b)

OfferCreates(r) ==
    /\ rq[r] = "create"
    /\ \E c \in Conn : NewPeer(rfp[r], c) /\ rc' = [rc EXCEPT ![r] = c]
    /\ Goes(r, "listen")
    /\ UNCHANGED <<agent, pend, drain, kind, rfp, sess>>

\* Listen up to SetLocalDescription.  A peer closed meanwhile has no PC.
OfferListens(r) ==
    /\ rq[r] = "listen" /\ pc[rc[r]] # "nil"
    /\ pc' = [pc EXCEPT ![rc[r]] = "local"]
    /\ Goes(r, "gather")
    /\ UNCHANGED <<agent, reg, pend, drain, kind, rfp, rc, sess>>

\* The candidates are gathered or the wait for them is over: Listen returns
\* the answer, which HandleConnect replies with.
OfferGathers(r) ==
    /\ rq[r] = "gather" /\ pc[rc[r]] # "nil"
    /\ IF kind[r] = "offer" THEN Goes(r, "store") /\ UNCHANGED <<kind, rfp, rc>>
                            ELSE Ends(r, "done")
    /\ UNCHANGED <<connVars, sess>>

\* An error, or PC is nil.
OfferEnds(r) ==
    /\ rq[r] \in {"create", "listen"} \/ (rq[r] = "gather" /\ pc[rc[r]] = "nil")
    /\ Ends(r, "done")
    /\ UNCHANGED <<connVars, sess>>

\* The session is stored, its timer started and the answer sent.
OfferStores(r) ==
    /\ rq[r] = "store"
    /\ sess' = sess \cup {r}
    /\ Goes(r, "stored")
    /\ UNCHANGED <<connVars, kind, rfp, rc>>

Expires(r) ==
    /\ rq[r] = "stored"
    /\ sess' = sess \ {r}
    /\ Ends(r, "over")
    /\ UNCHANGED connVars

\* HandleCandidate, of a client that was told the session s.
Patch(r, s) ==
    /\ rq[r] = "idle" /\ rq[s] \in {"stored", "over"}
    /\ Goes(r, IF s \in sess THEN "body" ELSE "done")
    /\ rc' = [rc EXCEPT ![r] = IF s \in sess THEN rc[s] ELSE NoConn]
    /\ UNCHANGED <<connVars, kind, rfp, sess>>

Delete(r, s) ==
    /\ rq[r] = "idle" /\ rq[s] \in {"stored", "over"}
    /\ sess' = sess \ {s}
    /\ Goes(r, "done")
    /\ UNCHANGED <<connVars, kind, rfp, rc>>

\* The body is read and decoded, or is not; AddCandidate looks at PC.
PatchReads(r) ==
    /\ rq[r] = "body"
    /\ \/ Goes(r, CandidateGoes(rc[r])) /\ UNCHANGED <<kind, rfp, rc>>
       \/ Ends(r, "done")
    /\ UNCHANGED <<connVars, sess>>

\* AddICECandidate: it succeeds, fails, or there is no PC any more.
PatchUses(r) ==
    /\ rq[r] = "use"
    /\ Ends(r, "done")
    /\ UNCHANGED <<connVars, sess>>

PatchPends(r) ==
    /\ rq[r] = "pend" /\ QueueCandidate(rc[r])
    /\ Ends(r, "done")
    /\ UNCHANGED <<agent, pc, reg, drain, sess>>

\* sessions has no lock: of two goroutines that use it at once, one of them to
\* change it, the runtime may notice and end the agent.
SessionsRace ==
    /\ \E r, s \in Req : /\ r # s /\ rq[r] \in {"store", "stored"}
                         /\ rq[s] \in {"store", "stored", "idle"}
    /\ agent' = "race"
    /\ UNCHANGED <<pc, reg, pend, drain, httpVars>>

HttpEvent ==
    \E r \in Req :
        \/ \E f \in FP, b \in Bearer : HandleOffer(r, f, b) \/ HandleConnect(r, f, b)
        \/ \E s \in Req : Patch(r, s) \/ Delete(r, s)

Serves(r) == \/ OfferCreates(r)
             \/ OfferListens(r)
             \/ OfferGathers(r)
             \/ OfferEnds(r)
             \/ OfferStores(r)
             \/ Expires(r)
             \/ PatchUses(r)
             \/ PatchPends(r)

HttpStep == SessionsRace \/ \E r \in Req : Serves(r) \/ PatchReads(r)

HttpTypeOK ==
    /\ rq \in [Req -> {"idle", "create", "listen", "gather", "store", "stored",
                       "over", "body", "use", "pend", "done"}]
    /\ kind \in [Req -> {"none", "offer", "connect"}]
    /\ rfp \in [Req -> FP \cup {NoFP}]
    /\ rc \in [Req -> Conn \cup {NoConn}]
    /\ sess \subseteq Req

\* AddCandidate blocks when pendingCandidates is full (peer.go:486): a PATCH
\* that has been read returns, unless its peer was closed before it ever
\* started to connect, by peerbook.
PatchReturns ==
    \A r \in Req :
        rq[r] \in {"use", "pend"} ~> \/ rq[r] = "done" \/ agent # "up"
                                     \/ rc[r] \in Conn \ drain /\ pc[rc[r]] = "nil"
=============================================================================
