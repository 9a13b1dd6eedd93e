-------------------------------- MODULE Offers --------------------------------
(***************************************************************************)
(* The live offers of the agent's unix socket and the command              *)
(* "webexec accept" that uses them: an offer is POSTed, the agent's ICE    *)
(* candidates are read back with one GET after another, candidates of the  *)
(* client are PUT, and 30 seconds after the answer the offer is forgotten. *)
(* Sources: src/sock.go 34-79 and 233-360, src/webexec.go 367-520.         *)
(*                                                                         *)
(* Candidates are numbered in the order they are gathered or PUT.  The     *)
(* requests of an offer that is not registered yet come from its accept    *)
(* command; PUTs may come from any program that knows the id, and have to: *)
(* accept never sends one (see Types).                                     *)
(***************************************************************************)
EXTENDS Integers, Sequences, FiniteSets

CONSTANTS Offer,   \* the offers, each with its own accept command
          NoOffer, \* nobody holds coMutex
          Cap,     \* capacity of LiveOffer.cs and LiveOffer.incoming, 5 in the code
          MaxCan,  \* bound: MaxCan[n] candidates are gathered, and
          MaxPut,  \* bound: MaxPut[n] are PUT, for each of n offers made
          MaxLines \* bound: lines typed to each accept

ASSUME CapAssumption == Cap \in Nat \ {0}
ASSUME OfferAssumption == NoOffer \notin Offer
ASSUME MaxAssumption == /\ MaxCan \in Seq(Nat) /\ MaxPut \in Seq(Nat)
                        /\ Len(MaxCan) = Len(MaxPut) /\ MaxLines \in Nat

VARIABLES
    crashed,  \* the agent is gone
    live,     \* the keys of currentOffers
    mx,       \* the offer whose POST or timer holds coMutex and changes the map
    post,     \* where the POST handler, and then its timer, is
    pc,       \* lo.p.PC: "none", "open", "connected" or "nil"
    gathered, \* how many candidates the agent gathered
    calling,  \* the candidate OnCandidate waits to queue, 0 if none
    cs,       \* lo.cs
    incoming, \* lo.incoming
    nput,     \* how many candidates were PUT
    hold,     \* the PUTs that wait to queue their candidate
    hin,      \* where handleIncoming is
    hcan,     \* the candidate it is adding
    acc,      \* the accept process: "run" or "gone"
    text,     \* the lines in can of TrickleCandidates
    gt,       \* where getAgentCandidates, and the GET it sends, is
    out       \* the candidates GETs were answered with

agentVars == <<live, mx, post>>
candVars == <<gathered, calling, cs>>
putVars == <<incoming, nput, hold, hin, hcan>>
accVars == <<acc, text, gt, out>>
vars == <<crashed, live, mx, post, pc, gathered, calling, cs, incoming, nput, hold,
          hin, hcan, acc, text, gt, out>>

Init ==
    /\ crashed = FALSE
    /\ live = {} /\ mx = NoOffer /\ post = [o \in Offer |-> "none"]
    /\ pc = [o \in Offer |-> "none"]
    /\ gathered = [o \in Offer |-> 0] /\ calling = [o \in Offer |-> 0]
    /\ cs = [o \in Offer |-> <<>>]
    /\ incoming = [o \in Offer |-> <<>>] /\ nput = [o \in Offer |-> 0]
    /\ hold = [o \in Offer |-> {}] /\ hin = [o \in Offer |-> "off"]
    /\ hcan = [o \in Offer |-> 0]
    /\ acc = [o \in Offer |-> "run"] /\ text = [o \in Offer |-> <<>>]
    /\ gt = [o \in Offer |-> "off"] /\ out = [o \in Offer |-> <<>>]

\* SetLocalDescription was called: candidates are gathered.
Local == {"reply", "replied", "expire", "expiring", "over"}
\* The timer has cancelled the context of handleIncoming.
Cancelled(o) == post[o] \in {"expire", "expiring", "over"}

\* How many offers were made.
Made == Cardinality({o \in Offer : post[o] # "none"})
\* One more would not put the candidates handled so far above their bounds.
RoomForOffer ==
    /\ Made < Len(MaxCan)
    /\ \A o \in Offer : gathered[o] <= MaxCan[Made + 1] /\ nput[o] <= MaxPut[Made + 1]

-----------------------------------------------------------------------------
(* accept *)

\* json.Unmarshal takes exactly one value: a line that ends one, and only the
\* last, ends a value.
Parses(t) == /\ t # <<>> /\ t[Len(t)] = "last"
             /\ \A j \in 1..(Len(t) - 1) : t[j] # "last"

\* TrickleCandidates reads a line.  The first value is POSTed.  can is not
\* cleared after that (the assignment follows an endless loop): whatever is
\* typed next is only added to it, the text never parses again and the branch
\* that PUTs is never taken.
Types(o) ==
    /\ acc[o] = "run" /\ post[o] = "none" /\ Len(text[o]) < MaxLines /\ RoomForOffer
    /\ \E l \in {"part", "last"} : text' = [text EXCEPT ![o] = Append(@, l)]
    /\ post' = IF Parses(text'[o]) THEN [post EXCEPT ![o] = "create"] ELSE post
    /\ UNCHANGED <<crashed, live, mx, pc, candVars, putVars, acc, gt, out>>

\* accept is interrupted.  One that has sent no offer yet leaves nothing behind.
Leaves(o) ==
    /\ acc[o] = "run" /\ post[o] # "none"
    /\ acc' = [acc EXCEPT ![o] = "gone"]
    /\ gt' = [gt EXCEPT ![o] = IF @ = "ask" THEN "over" ELSE @]
    /\ UNCHANGED <<crashed, agentVars, pc, candVars, putVars, text, out>>

-----------------------------------------------------------------------------
(* POST and its timer *)

\* The handler gives up, and accept with it.  What it has done stays done.
PostFails(o) ==
    /\ post[o] \in {"create", "remote", "answer"} \/ (post[o] = "reply" /\ acc[o] = "gone")
    /\ post' = [post EXCEPT ![o] = "failed"]
    /\ acc' = [acc EXCEPT ![o] = "gone"]
    /\ UNCHANGED <<crashed, live, mx, pc, candVars, putVars, text, gt, out>>

\* NewPeer.
PostCreates(o) ==
    /\ post[o] = "create"
    /\ pc' = [pc EXCEPT ![o] = "open"]
    /\ post' = [post EXCEPT ![o] = "store"]
    /\ UNCHANGED <<crashed, live, mx, candVars, putVars, accVars>>

\* Slip: whoever holds coMutex is not waited for.
LocksAnyway(o) ==
    /\ post[o] \in {"store", "expire"}
    /\ mx' = o
    /\ post' = [post EXCEPT ![o] = IF @ = "store" THEN "storing" ELSE "expiring"]
    /\ UNCHANGED <<crashed, live, pc, candVars, putVars, accVars>>

\* coMutex.Lock, by POST and by the timer.
Locks(o) ==
    /\ post[o] \in {"store", "expire"} /\ mx = NoOffer
    /\ mx' = o
    /\ post' = [post EXCEPT ![o] = IF @ = "store" THEN "storing" ELSE "expiring"]
    /\ UNCHANGED <<crashed, live, pc, candVars, putVars, accVars>>

PostStores(o) ==
    /\ post[o] = "storing"
    /\ live' = live \cup {o}
    /\ mx' = NoOffer
    /\ post' = [post EXCEPT ![o] = "remote"]
    /\ UNCHANGED <<crashed, pc, candVars, putVars, accVars>>

\* SetRemoteDescription, and handleIncoming is started.
PostStartsHandler(o) ==
    /\ post[o] = "remote"
    /\ hin' = [hin EXCEPT ![o] = "select"]
    /\ post' = [post EXCEPT ![o] = "answer"]
    /\ UNCHANGED <<crashed, live, mx, pc, candVars, incoming, nput, hold, hcan, accVars>>

\* CreateAnswer and SetLocalDescription.
PostAnswers(o) ==
    /\ post[o] = "answer"
    /\ post' = [post EXCEPT ![o] = "reply"]
    /\ UNCHANGED <<crashed, live, mx, pc, candVars, putVars, accVars>>

\* The answer is written, the timer is started, and accept, if it is still
\* there, starts to ask for candidates.
PostReplies(o) ==
    /\ post[o] = "reply"
    /\ post' = [post EXCEPT ![o] = "replied"]
    /\ gt' = [gt EXCEPT ![o] = IF acc[o] = "run" THEN "ask" ELSE "over"]
    /\ UNCHANGED <<crashed, live, mx, pc, candVars, putVars, acc, text, out>>

\* 30 seconds later.
ExpireCancels(o) ==
    /\ post[o] = "replied"
    /\ post' = [post EXCEPT ![o] = "expire"]
    /\ UNCHANGED <<crashed, live, mx, pc, candVars, putVars, accVars>>

ExpireDeletes(o) ==
    /\ post[o] = "expiring"
    /\ live' = live \ {o}
    /\ mx' = NoOffer
    /\ post' = [post EXCEPT ![o] = "over"]
    /\ UNCHANGED <<crashed, pc, candVars, putVars, accVars>>

-----------------------------------------------------------------------------
(* The agent's candidates: OnCandidate and GET *)

Gather(o) ==
    /\ post[o] \in Local /\ pc[o] # "nil"
    /\ calling[o] = 0 /\ gathered[o] < MaxCan[Made]
    /\ gathered' = [gathered EXCEPT ![o] = @ + 1]
    /\ calling' = [calling EXCEPT ![o] = gathered[o] + 1]
    /\ UNCHANGED <<crashed, agentVars, pc, cs, putVars, accVars>>

\* Slips: a candidate that finds the queue full is dropped; the queue is taken
\* for unbounded.
OnCandidateDrops(o) ==
    /\ calling[o] # 0
    /\ cs' = [cs EXCEPT ![o] = IF Len(@) < Cap THEN Append(@, calling[o]) ELSE @]
    /\ calling' = [calling EXCEPT ![o] = 0]
    /\ UNCHANGED <<crashed, agentVars, pc, gathered, putVars, accVars>>
OnCandidateUnbounded(o) ==
    /\ calling[o] # 0
    /\ cs' = [cs EXCEPT ![o] = Append(@, calling[o])]
    /\ calling' = [calling EXCEPT ![o] = 0]
    /\ UNCHANGED <<crashed, agentVars, pc, gathered, putVars, accVars>>

OnCandidate(o) ==
    /\ calling[o] # 0 /\ Len(cs[o]) < Cap
    /\ cs' = [cs EXCEPT ![o] = Append(@, calling[o])]
    /\ calling' = [calling EXCEPT ![o] = 0]
    /\ UNCHANGED <<crashed, agentVars, pc, gathered, putVars, accVars>>

\* GET looks the offer up; an unknown one is an error that ends the loop of
\* getAgentCandidates.
GetLooksUp(o) ==
    /\ gt[o] = "ask"
    /\ gt' = [gt EXCEPT ![o] = IF o \in live THEN "wait" ELSE "over"]
    /\ UNCHANGED <<crashed, agentVars, pc, candVars, putVars, acc, text, out>>

\* Slip: the loop ends with the first candidate.
GetRepliesOnce(o) ==
    /\ gt[o] = "wait" /\ cs[o] # <<>>
    /\ out' = [out EXCEPT ![o] = Append(@, Head(cs[o]))]
    /\ cs' = [cs EXCEPT ![o] = Tail(@)]
    /\ gt' = [gt EXCEPT ![o] = "off"]
    /\ UNCHANGED <<crashed, agentVars, pc, gathered, calling, putVars, acc, text>>

\* A candidate is written; accept prints it and asks again.
GetReplies(o) ==
    /\ gt[o] = "wait" /\ cs[o] # <<>>
    /\ out' = [out EXCEPT ![o] = Append(@, Head(cs[o]))]
    /\ cs' = [cs EXCEPT ![o] = Tail(@)]
    /\ gt' = [gt EXCEPT ![o] = IF acc[o] = "run" THEN "ask" ELSE "over"]
    /\ UNCHANGED <<crashed, agentVars, pc, gathered, calling, putVars, acc, text>>

\* Five seconds without one.  A closed peer connection is an error, which ends
\* the loop.  "Connected" and, on an offer that is still connecting, no text at
\* all are both an empty candidate to accept: it exits.
GetTimesOut(o) ==
    /\ gt[o] = "wait"
    /\ gt' = [gt EXCEPT ![o] = "over"]
    /\ acc' = IF pc[o] = "nil" THEN acc ELSE [acc EXCEPT ![o] = "gone"]
    /\ UNCHANGED <<crashed, agentVars, pc, candVars, putVars, text, out>>

-----------------------------------------------------------------------------
(* The client's candidates: PUT and handleIncoming *)

\* Somebody knows the id and PUTs a candidate.
CanPut(o) == post[o] \in {"replied", "expire", "expiring", "over"} /\ nput[o] < MaxPut[Made]

\* PUT looks the offer up.
PutLooksUp(o) ==
    /\ CanPut(o)
    /\ nput' = [nput EXCEPT ![o] = @ + 1]
    /\ hold' = IF o \in live THEN [hold EXCEPT ![o] = @ \cup {nput[o] + 1}] ELSE hold
    /\ UNCHANGED <<crashed, agentVars, pc, candVars, incoming, hin, hcan, accVars>>

PutSends(o, n) ==
    /\ n \in hold[o] /\ Len(incoming[o]) < Cap
    /\ incoming' = [incoming EXCEPT ![o] = Append(@, n)]
    /\ hold' = [hold EXCEPT ![o] = @ \ {n}]
    /\ UNCHANGED <<crashed, agentVars, pc, candVars, nput, hin, hcan, accVars>>

\* GET and PUT read the map without coMutex: while it is being changed the
\* runtime may notice and end the agent.
LookupRaces ==
    /\ mx # NoOffer
    /\ \E o \in Offer : gt[o] = "ask" \/ CanPut(o)
    /\ crashed' = TRUE
    /\ UNCHANGED <<agentVars, pc, candVars, putVars, accVars>>

\* Slip: handleIncoming ends when it finds no PC to add candidates to.
IncomingGivesUp(o) ==
    /\ hin[o] = "select" /\ incoming[o] # <<>>
    /\ IF pc[o] = "nil"
       THEN hin' = [hin EXCEPT ![o] = "off"] /\ UNCHANGED <<incoming, hcan>>
       ELSE /\ incoming' = [incoming EXCEPT ![o] = Tail(@)]
            /\ hcan' = [hcan EXCEPT ![o] = Head(incoming[o])]
            /\ hin' = [hin EXCEPT ![o] = "add"]
    /\ UNCHANGED <<crashed, agentVars, pc, candVars, nput, hold, accVars>>

\* handleIncoming takes a candidate and looks at PC: without one the candidate
\* is ignored.
IncomingTakes(o) ==
    /\ hin[o] = "select" /\ incoming[o] # <<>>
    /\ incoming' = [incoming EXCEPT ![o] = Tail(@)]
    /\ hcan' = [hcan EXCEPT ![o] = IF pc[o] = "nil" THEN 0 ELSE Head(incoming[o])]
    /\ hin' = [hin EXCEPT ![o] = IF pc[o] = "nil" THEN "select" ELSE "add"]
    /\ UNCHANGED <<crashed, agentVars, pc, candVars, nput, hold, accVars>>

\* ... and uses PC, without a lock: a Close in between is a nil dereference.
IncomingAdds(o) ==
    /\ hin[o] = "add"
    /\ crashed' = (pc[o] = "nil")
    /\ hcan' = [hcan EXCEPT ![o] = 0]
    /\ hin' = [hin EXCEPT ![o] = "select"]
    /\ UNCHANGED <<agentVars, pc, candVars, incoming, nput, hold, accVars>>

\* Slip: the context is not looked at.
IncomingStaysOn(o) == FALSE

IncomingStops(o) ==
    /\ hin[o] = "select" /\ Cancelled(o)
    /\ hin' = [hin EXCEPT ![o] = "done"]
    /\ UNCHANGED <<crashed, agentVars, pc, candVars, incoming, nput, hold, hcan, accVars>>

-----------------------------------------------------------------------------
(* The peer connection *)

Connects(o) ==
    /\ pc[o] = "open" /\ post[o] \in Local
    /\ pc' = [pc EXCEPT ![o] = "connected"]
    /\ UNCHANGED <<crashed, agentVars, candVars, putVars, accVars>>

\* The connection fails and the peer is closed.
Fails(o) ==
    /\ pc[o] \in {"open", "connected"} /\ post[o] \in Local
    /\ pc' = [pc EXCEPT ![o] = "nil"]
    /\ UNCHANGED <<crashed, agentVars, candVars, putVars, accVars>>

-----------------------------------------------------------------------------

Posting(o) == \/ PostCreates(o)
              \/ PostFails(o)
              \/ Locks(o)
              \/ PostStores(o)
              \/ PostStartsHandler(o)
              \/ PostAnswers(o)
              \/ PostReplies(o)
              \/ ExpireCancels(o)
              \/ ExpireDeletes(o)

Getting(o) == GetLooksUp(o) \/ GetReplies(o) \/ GetTimesOut(o)

Handling(o) == IncomingTakes(o) \/ IncomingAdds(o) \/ IncomingStops(o)

Environment(o) == Types(o) \/ Leaves(o) \/ Gather(o) \/ PutLooksUp(o) \/ Connects(o) \/ Fails(o)

Next == /\ ~crashed
        /\ \/ \E o \in Offer : \/ Posting(o)
                               \/ Getting(o)
                               \/ Handling(o)
                               \/ OnCandidate(o)
                               \/ Environment(o)
                               \/ \E n \in hold[o] : PutSends(o, n)
           \/ LookupRaces

Spec == Init /\ [][Next]_vars

\* The PUTs an offer can have.
Puts == UNION {1..MaxPut[k] : k \in DOMAIN MaxPut}

\* Handlers, timers and loops that can run do run.  Every offer takes coMutex
\* twice at most, so nobody can be kept from it for good.  Nobody has to type,
\* PUT or connect.
Fairness ==
    \A o \in Offer :
        /\ WF_vars(~crashed /\ Posting(o))
        /\ WF_vars(~crashed /\ Getting(o))
        /\ WF_vars(~crashed /\ Handling(o))
        /\ WF_vars(~crashed /\ OnCandidate(o))
        /\ \A n \in Puts : WF_vars(~crashed /\ PutSends(o, n))

FairSpec == Spec /\ Fairness

-----------------------------------------------------------------------------
(* Properties *)

TypeOK ==
    /\ crashed \in BOOLEAN
    /\ live \subseteq Offer /\ mx \in Offer \cup {NoOffer}
    /\ post \in [Offer -> {"none", "create", "store", "storing", "remote", "answer",
                           "failed"} \cup Local]
    /\ pc \in [Offer -> {"none", "open", "connected", "nil"}]
    /\ gathered \in [Offer -> Nat] /\ calling \in [Offer -> Nat]
    /\ cs \in [Offer -> Seq(Nat)] /\ incoming \in [Offer -> Seq(Nat)]
    /\ \A o \in Offer : Len(cs[o]) <= Cap /\ Len(incoming[o]) <= Cap
    /\ nput \in [Offer -> Nat] /\ hold \in [Offer -> SUBSET Nat]
    /\ hin \in [Offer -> {"off", "select", "add", "done"}]
    /\ hcan \in [Offer -> Nat]
    /\ acc \in [Offer -> {"run", "gone"}]
    /\ text \in [Offer -> Seq({"part", "last"})]
    /\ gt \in [Offer -> {"off", "ask", "wait", "over"}]
    /\ out \in [Offer -> Seq(Nat)]

\* OnCandidate's candidate on its way to the queue.
Waiting(o) == IF calling[o] = 0 THEN <<>> ELSE <<calling[o]>>

\* OnCandidate, lo.cs and GET (sock.go:74-79, 249-258): what accept printed,
\* what is queued and what waits to be queued are together the candidates the
\* agent gathered, in order, none lost or repeated, also when the queue is
\* full and after the offer is forgotten.
CandidatesInOrder ==
    \A o \in Offer : out[o] \o cs[o] \o Waiting(o) = [j \in 1..gathered[o] |-> j]

\* coMutex (sock.go:301-303, 333-340): whoever holds it is the only one that
\* changes the map, and an answered offer stays registered until its own timer
\* removes it, whatever other offers do meanwhile.
RegisteredUntilExpiry ==
    /\ \A o \in Offer : post[o] \in {"storing", "expiring"} <=> mx = o
    /\ \A o \in Offer : /\ post[o] \in {"remote", "answer", "expiring"} \cup (Local \ {"over"})
                              => o \in live
                        /\ post[o] \in {"none", "create", "store", "storing", "over"}
                              => o \notin live

\* OnCandidate blocks on a full queue (sock.go:77): it is released as long as
\* accept goes on asking.
CallbackReleased ==
    \A o \in Offer : calling[o] # 0 ~> \/ calling[o] = 0
                                       \/ gt[o] = "over" \/ acc[o] = "gone" \/ crashed

\* PUT blocks on a full queue (sock.go:358): it is released as long as
\* handleIncoming runs, whether or not there is a peer connection to add
\* candidates to.
PutReturns ==
    \A o \in Offer : \A n \in Puts :
        n \in hold[o] ~> n \notin hold[o] \/ hin[o] = "done" \/ crashed

\* The timer of an answered offer (sock.go:333-340): the offer is forgotten
\* and the goroutine that handled its candidates ends.
AnsweredOfferForgotten ==
    \A o \in Offer : post[o] = "replied" ~> (o \notin live /\ hin[o] = "done") \/ crashed
=============================================================================
