----------------------------- MODULE OffersProofs -----------------------------
(***************************************************************************)
(* Proofs of the safety of Offers, for any set of offers, any capacity of  *)
(* their queues and any number of candidates.                              *)
(***************************************************************************)
EXTENDS Offers, SequenceTheorems, TLAPS

USE CapAssumption, OfferAssumption

-----------------------------------------------------------------------------
(* Sequences *)

\* The first of one sequence becomes the last of the one before it.
LEMMA MoveHead ==
    ASSUME NEW s \in Seq(Nat), NEW t \in Seq(Nat), t # <<>>
    PROVE  Append(s, Head(t)) \o Tail(t) = s \o t
<1> DEFINE l == Append(s, Head(t)) \o Tail(t)
<1>1. /\ Head(t) \in Nat /\ Tail(t) \in Seq(Nat) /\ Len(t) \in Nat \ {0} /\ Len(s) \in Nat
      /\ Len(Tail(t)) = Len(t) - 1
      /\ \A i \in 1..(Len(t) - 1) : Tail(t)[i] = t[i + 1]
      /\ Head(t) = t[1]
  OBVIOUS
<1>2. /\ Append(s, Head(t)) \in Seq(Nat) /\ Len(Append(s, Head(t))) = Len(s) + 1
      /\ \A i \in 1..Len(s) : Append(s, Head(t))[i] = s[i]
      /\ Append(s, Head(t))[Len(s) + 1] = Head(t)
  BY <1>1
<1>3. l \in Seq(Nat) /\ s \o t \in Seq(Nat) /\ Len(l) = Len(s) + Len(t) /\ Len(s \o t) = Len(s) + Len(t)
  BY <1>1, <1>2
<1>4. ASSUME NEW i \in 1..(Len(s) + Len(t)) PROVE l[i] = (s \o t)[i]
  <2>1. CASE i <= Len(s)
    BY <1>1, <1>2, <2>1
  <2>2. CASE i = Len(s) + 1
    BY <1>1, <1>2, <2>2
  <2>3. CASE i > Len(s) + 1
    <3>1. l[i] = Tail(t)[i - (Len(s) + 1)]
      BY <1>1, <1>2, <2>3
    <3>2. Tail(t)[i - (Len(s) + 1)] = t[i - Len(s)]
      BY <1>1, <2>3
    <3> QED BY <1>1, <2>3, <3>1, <3>2
  <2> QED BY <1>1, <2>1, <2>2, <2>3
<1> DEFINE r == s \o t
<1>5. l \in Seq(Nat) /\ r \in Seq(Nat) /\ Len(l) = Len(r) /\ \A i \in 1..Len(l) : l[i] = r[i]
  BY <1>3, <1>4
<1> HIDE DEF l, r
<1>6. l = r
  BY <1>5, SeqEqual
<1> QED BY <1>6 DEF l, r

\* The parts of a queue that is not empty.
LEMMA HeadAndTail ==
    ASSUME NEW s \in Seq(Nat), s # <<>>
    PROVE  Head(s) \in Nat /\ Tail(s) \in Seq(Nat) /\ Len(Tail(s)) = Len(s) - 1 /\ Len(s) \in Nat
OBVIOUS

\* What waits to be queued is queued.
LEMMA Regroup ==
    ASSUME NEW s \in Seq(Nat), NEW t \in Seq(Nat), NEW n \in Nat
    PROVE  s \o Append(t, n) \o <<>> = s \o t \o <<n>>
OBVIOUS

\* The first g candidates.
UpTo(g) == [j \in 1..g |-> j]

\* One more candidate follows those there are.
LEMMA OneMore ==
    ASSUME NEW s \in Seq(Nat), NEW t \in Seq(Nat), NEW g \in Nat,
           s \o t \o <<>> = UpTo(g)
    PROVE  s \o t \o <<g + 1>> = UpTo(g + 1)
<1> DEFINE u == s \o t
<1>1. u \in Seq(Nat) /\ u \o <<>> = u
  OBVIOUS
<1>2. u = [j \in 1..g |-> j]
  BY <1>1 DEF UpTo
<1> HIDE DEF u
<1>3. Len(u) = g /\ \A j \in 1..g : u[j] = j
  BY <1>1, <1>2
<1>4. u \o <<g + 1>> = [j \in 1..(g + 1) |-> j]
  <2>1. u \o <<g + 1>> \in Seq(Nat) /\ Len(u \o <<g + 1>>) = g + 1
    BY <1>1, <1>3
  <2>2. ASSUME NEW j \in 1..(g + 1) PROVE (u \o <<g + 1>>)[j] = j
    BY <1>1, <1>3
  <2> QED BY <2>1, <2>2
<1>5. u \o <<g + 1>> = UpTo(g + 1)
  BY <1>4 DEF UpTo
<1> QED BY <1>5 DEF u

-----------------------------------------------------------------------------
(* Types *)

\* The variables of the offers keep their types: no queue (sock.go:294-295)
\* ever holds more than its capacity.
THEOREM TypeCorrect == Spec => []TypeOK
<1>1. Init => TypeOK
  <2> SUFFICES ASSUME Init PROVE TypeOK
    OBVIOUS
  <2>1. /\ cs \in [Offer -> Seq(Nat)] /\ incoming \in [Offer -> Seq(Nat)]
        /\ text \in [Offer -> Seq({"part", "last"})] /\ out \in [Offer -> Seq(Nat)]
    BY DEF Init
  <2>2. ASSUME NEW o \in Offer PROVE Len(cs[o]) <= Cap /\ Len(incoming[o]) <= Cap
    <3>1. cs[o] = <<>> /\ incoming[o] = <<>>
      BY DEF Init
    <3>2. Len(<<>>) = 0
      OBVIOUS
    <3>3. 0 <= Cap
      OBVIOUS
    <3> QED BY <3>1, <3>2, <3>3
  <2> QED BY <2>1, <2>2 DEF Init, TypeOK
<1>2. TypeOK /\ [Next]_vars => TypeOK'
  <2> SUFFICES ASSUME TypeOK, [Next]_vars PROVE TypeOK'
    OBVIOUS
  <2>0. TypeOK
    OBVIOUS
  <2> USE DEF Local, agentVars, candVars, putVars, accVars
  <2>1. ASSUME NEW o \in Offer, PostCreates(o) PROVE TypeOK'
    BY <2>0, <2>1 DEF PostCreates, TypeOK
  <2>2. ASSUME NEW o \in Offer, PostFails(o) PROVE TypeOK'
    BY <2>0, <2>2 DEF PostFails, TypeOK
  <2>3. ASSUME NEW o \in Offer, Locks(o) PROVE TypeOK'
    BY <2>0, <2>3 DEF Locks, TypeOK
  <2>4. ASSUME NEW o \in Offer, PostStores(o) PROVE TypeOK'
    BY <2>0, <2>4 DEF PostStores, TypeOK
  <2>5. ASSUME NEW o \in Offer, PostStartsHandler(o) PROVE TypeOK'
    BY <2>0, <2>5 DEF PostStartsHandler, TypeOK
  <2>6. ASSUME NEW o \in Offer, PostAnswers(o) PROVE TypeOK'
    BY <2>0, <2>6 DEF PostAnswers, TypeOK
  <2>7. ASSUME NEW o \in Offer, PostReplies(o) PROVE TypeOK'
    BY <2>0, <2>7 DEF PostReplies, TypeOK
  <2>8. ASSUME NEW o \in Offer, ExpireCancels(o) PROVE TypeOK'
    BY <2>0, <2>8 DEF ExpireCancels, TypeOK
  <2>9. ASSUME NEW o \in Offer, ExpireDeletes(o) PROVE TypeOK'
    BY <2>0, <2>9 DEF ExpireDeletes, TypeOK
  <2>10. ASSUME NEW o \in Offer, GetLooksUp(o) PROVE TypeOK'
    BY <2>0, <2>10 DEF GetLooksUp, TypeOK
  <2>11. ASSUME NEW o \in Offer, GetReplies(o) PROVE TypeOK'
    <3>1. /\ Head(cs[o]) \in Nat /\ Tail(cs[o]) \in Seq(Nat) /\ Len(Tail(cs[o])) <= Cap
          /\ Append(out[o], Head(cs[o])) \in Seq(Nat)
      <4>1. cs[o] \in Seq(Nat) /\ cs[o] # <<>> /\ Len(cs[o]) <= Cap /\ out[o] \in Seq(Nat)
        BY <2>0, <2>11 DEF GetReplies, TypeOK
      <4> QED BY <4>1, HeadAndTail
    <3>2. out' \in [Offer -> Seq(Nat)] /\ cs' \in [Offer -> Seq(Nat)]
      BY <2>0, <2>11, <3>1 DEF GetReplies, TypeOK
    <3>3. \A q \in Offer : Len(cs'[q]) <= Cap
      BY <2>0, <2>11, <3>1 DEF GetReplies, TypeOK
    <3>4. gt' \in [Offer -> {"off", "ask", "wait", "over"}]
      BY <2>0, <2>11 DEF GetReplies, TypeOK
    <3> QED BY <2>0, <2>11, <3>2, <3>3, <3>4 DEF GetReplies, TypeOK
  <2>12. ASSUME NEW o \in Offer, GetTimesOut(o) PROVE TypeOK'
    BY <2>0, <2>12 DEF GetTimesOut, TypeOK
  <2>13. ASSUME NEW o \in Offer, IncomingTakes(o) PROVE TypeOK'
    <3>1. Head(incoming[o]) \in Nat /\ Tail(incoming[o]) \in Seq(Nat)
          /\ Len(Tail(incoming[o])) <= Cap
      <4>1. incoming[o] \in Seq(Nat) /\ incoming[o] # <<>> /\ Len(incoming[o]) <= Cap
        BY <2>0, <2>13 DEF IncomingTakes, TypeOK
      <4> QED BY <4>1, HeadAndTail
    <3> QED BY <2>0, <2>13, <3>1 DEF IncomingTakes, TypeOK
  <2>14. ASSUME NEW o \in Offer, IncomingAdds(o) PROVE TypeOK'
    BY <2>0, <2>14 DEF IncomingAdds, TypeOK
  <2>15. ASSUME NEW o \in Offer, IncomingStops(o) PROVE TypeOK'
    BY <2>0, <2>15 DEF IncomingStops, TypeOK
  <2>16. ASSUME NEW o \in Offer, OnCandidate(o) PROVE TypeOK'
    <3>1. Append(cs[o], calling[o]) \in Seq(Nat) /\ Len(Append(cs[o], calling[o])) <= Cap
      BY <2>0, <2>16 DEF OnCandidate, TypeOK
    <3>2. cs' \in [Offer -> Seq(Nat)] /\ calling' \in [Offer -> Nat]
      BY <2>0, <2>16, <3>1 DEF OnCandidate, TypeOK
    <3>3. \A q \in Offer : Len(cs'[q]) <= Cap
      BY <2>0, <2>16, <3>1 DEF OnCandidate, TypeOK
    <3> QED BY <2>0, <2>16, <3>2, <3>3 DEF OnCandidate, TypeOK
  <2>17. ASSUME NEW o \in Offer, Types(o) PROVE TypeOK'
    <3>1. PICK l \in {"part", "last"} : text' = [text EXCEPT ![o] = Append(text[o], l)]
      BY <2>17 DEF Types
    <3>2. text' \in [Offer -> Seq({"part", "last"})]
      BY <2>0, <3>1 DEF TypeOK
    <3>3. post' = post \/ post' = [post EXCEPT ![o] = "create"]
      BY <2>17 DEF Types
    <3> QED BY <2>0, <2>17, <3>2, <3>3 DEF Types, TypeOK
  <2>18. ASSUME NEW o \in Offer, Leaves(o) PROVE TypeOK'
    BY <2>0, <2>18 DEF Leaves, TypeOK
  <2>19. ASSUME NEW o \in Offer, Gather(o) PROVE TypeOK'
    <3>0. /\ gathered' = [gathered EXCEPT ![o] = gathered[o] + 1]
          /\ calling' = [calling EXCEPT ![o] = gathered[o] + 1]
      BY <2>19 DEF Gather
    <3>1. gathered \in [Offer -> Nat] /\ calling \in [Offer -> Nat]
      BY <2>0 DEF TypeOK
    <3>2. gathered' \in [Offer -> Nat] /\ calling' \in [Offer -> Nat]
      BY <3>0, <3>1
    <3> QED BY <2>0, <2>19, <3>2 DEF Gather, TypeOK
  <2>20. ASSUME NEW o \in Offer, PutLooksUp(o) PROVE TypeOK'
    <3>0. nput' = [nput EXCEPT ![o] = nput[o] + 1]
      BY <2>20 DEF PutLooksUp
    <3>1. nput' \in [Offer -> Nat] /\ nput[o] + 1 \in Nat
      BY <2>0, <3>0 DEF TypeOK
    <3>2. hold' \in [Offer -> SUBSET Nat]
      BY <2>0, <2>20, <3>1 DEF PutLooksUp, TypeOK
    <3> QED BY <2>0, <2>20, <3>1, <3>2 DEF PutLooksUp, TypeOK
  <2>21. ASSUME NEW o \in Offer, Connects(o) PROVE TypeOK'
    BY <2>0, <2>21 DEF Connects, TypeOK
  <2>22. ASSUME NEW o \in Offer, Fails(o) PROVE TypeOK'
    BY <2>0, <2>22 DEF Fails, TypeOK
  <2>23. ASSUME NEW o \in Offer, NEW n \in hold[o], PutSends(o, n) PROVE TypeOK'
    <3>1. n \in Nat
      BY <2>0 DEF TypeOK
    <3>2. Append(incoming[o], n) \in Seq(Nat) /\ Len(Append(incoming[o], n)) <= Cap
      BY <2>0, <2>23, <3>1 DEF PutSends, TypeOK
    <3>3. incoming' \in [Offer -> Seq(Nat)] /\ hold' \in [Offer -> SUBSET Nat]
      BY <2>0, <2>23, <3>2 DEF PutSends, TypeOK
    <3>4. \A q \in Offer : Len(incoming'[q]) <= Cap
      BY <2>0, <2>23, <3>2 DEF PutSends, TypeOK
    <3> QED BY <2>0, <2>23, <3>3, <3>4 DEF PutSends, TypeOK
  <2>24. CASE LookupRaces
    BY <2>0, <2>24 DEF LookupRaces, TypeOK
  <2>25. CASE UNCHANGED vars
    BY <2>0, <2>25 DEF vars, TypeOK
  <2> QED BY <2>1, <2>2, <2>3, <2>4, <2>5, <2>6, <2>7, <2>8, <2>9, <2>10, <2>11, <2>12, <2>13,
            <2>14, <2>15, <2>16, <2>17, <2>18, <2>19, <2>20, <2>21, <2>22, <2>23, <2>24, <2>25
         DEF Next, Posting, Getting, Handling, Environment
<1> QED BY <1>1, <1>2, PTL DEF Spec

-----------------------------------------------------------------------------
(* The map of live offers *)

\* coMutex keeps POSTs and timers apart, and an offer is in the map from its
\* registration to the end of its own timer (sock.go:301-303, 333-340).
THEOREM RegisteredCorrect == Spec => []RegisteredUntilExpiry
<1>1. Init => RegisteredUntilExpiry
  BY DEF Init, RegisteredUntilExpiry, Local
<1>2. TypeOK /\ RegisteredUntilExpiry /\ [Next]_vars => RegisteredUntilExpiry'
  <2> SUFFICES ASSUME TypeOK, RegisteredUntilExpiry, [Next]_vars PROVE RegisteredUntilExpiry'
    OBVIOUS
  <2>0. RegisteredUntilExpiry /\ DOMAIN post = Offer
    BY DEF TypeOK
  <2>1. ASSUME NEW o \in Offer, PostCreates(o) \/ PostFails(o) \/ PostStartsHandler(o)
        PROVE  RegisteredUntilExpiry'
    <3>1. CASE PostCreates(o)
      BY <2>0, <3>1 DEF PostCreates, RegisteredUntilExpiry, Local
    <3>2. CASE PostFails(o)
      BY <2>0, <3>2 DEF PostFails, RegisteredUntilExpiry, Local
    <3>3. CASE PostStartsHandler(o)
      BY <2>0, <3>3 DEF PostStartsHandler, RegisteredUntilExpiry, Local
    <3> QED BY <2>1, <3>1, <3>2, <3>3
  <2>2. ASSUME NEW o \in Offer, PostAnswers(o) \/ PostReplies(o) \/ ExpireCancels(o)
        PROVE  RegisteredUntilExpiry'
    BY <2>0, <2>2 DEF PostAnswers, PostReplies, ExpireCancels, RegisteredUntilExpiry, Local
  <2>3. ASSUME NEW o \in Offer, Locks(o) PROVE RegisteredUntilExpiry'
    BY <2>0, <2>3 DEF Locks, RegisteredUntilExpiry, Local
  <2>4. ASSUME NEW o \in Offer, PostStores(o) \/ ExpireDeletes(o) PROVE RegisteredUntilExpiry'
    <3>1. mx = o /\ mx' = NoOffer
      BY <2>0, <2>4 DEF PostStores, ExpireDeletes, RegisteredUntilExpiry
    <3>2. \A q \in Offer : q # o => post[q] \notin {"storing", "expiring"} /\ post'[q] = post[q]
      BY <2>0, <2>4, <3>1 DEF PostStores, ExpireDeletes, RegisteredUntilExpiry
    <3>3. \A q \in Offer : q # o => (q \in live' <=> q \in live)
      <4>1. live' = live \cup {o} \/ live' = live \ {o}
        BY <2>4 DEF PostStores, ExpireDeletes
      <4> QED BY <4>1
    <3>4. \/ post'[o] = "remote" /\ o \in live'
          \/ post'[o] = "over" /\ o \notin live'
      <4>1. CASE PostStores(o)
        <5>1. post'[o] = "remote"
          BY <2>0, <4>1 DEF PostStores
        <5>2. o \in live'
          BY <4>1 DEF PostStores
        <5> QED BY <5>1, <5>2
      <4>2. CASE ExpireDeletes(o)
        BY <2>0, <4>2 DEF ExpireDeletes
      <4> QED BY <2>4, <4>1, <4>2
    <3> QED BY <2>0, <3>1, <3>2, <3>3, <3>4 DEF RegisteredUntilExpiry, Local
  <2>5. ASSUME NEW o \in Offer, Types(o) PROVE RegisteredUntilExpiry'
    <3>1. post[o] = "none" /\ UNCHANGED <<live, mx>>
      BY <2>5 DEF Types
    <3>2. post' = post \/ post' = [post EXCEPT ![o] = "create"]
      BY <2>5 DEF Types
    <3> QED BY <2>0, <3>1, <3>2 DEF RegisteredUntilExpiry, Local
  <2>6. ASSUME UNCHANGED agentVars PROVE RegisteredUntilExpiry'
    BY <2>0, <2>6 DEF agentVars, RegisteredUntilExpiry
  <2>7. ASSUME NEW o \in Offer, Getting(o) \/ Handling(o) \/ OnCandidate(o)
         PROVE  UNCHANGED agentVars
    BY <2>7 DEF Getting, GetLooksUp, GetReplies, GetTimesOut,
                 Handling, IncomingTakes, IncomingAdds, IncomingStops, OnCandidate
  <2>8. ASSUME NEW o \in Offer, \/ Leaves(o) \/ Gather(o) \/ PutLooksUp(o) \/ Connects(o)
                                 \/ Fails(o) \/ \E n \in hold[o] : PutSends(o, n)
         PROVE  UNCHANGED agentVars
    BY <2>8 DEF Leaves, Gather, PutLooksUp, Connects, Fails, PutSends
  <2>9. ASSUME LookupRaces \/ UNCHANGED vars PROVE UNCHANGED agentVars
    BY <2>9 DEF LookupRaces, vars, agentVars
  <2> QED BY <2>1, <2>2, <2>3, <2>4, <2>5, <2>6, <2>7, <2>8, <2>9
          DEF Next, Posting, Environment
<1> QED BY <1>1, <1>2, TypeCorrect, PTL DEF Spec

-----------------------------------------------------------------------------
(* The agent's candidates *)

\* The candidates of an offer, from those accept has read to the one that
\* waits to be queued.
Way(o) == out[o] \o cs[o] \o Waiting(o)

\* Every candidate the agent gathered is on its way to accept, once and in
\* order (sock.go:74-79, 249-258).
THEOREM CandidatesCorrect == Spec => []CandidatesInOrder
<1>0. CandidatesInOrder <=> \A o \in Offer : Way(o) = UpTo(gathered[o])
  BY DEF CandidatesInOrder, Way, UpTo
<1>1. Init => CandidatesInOrder
  <2> SUFFICES ASSUME Init, NEW o \in Offer
               PROVE  out[o] \o cs[o] \o Waiting(o) = [j \in 1..gathered[o] |-> j]
    BY DEF CandidatesInOrder
  <2>1. out[o] = <<>> /\ cs[o] = <<>> /\ Waiting(o) = <<>> /\ gathered[o] = 0
    BY DEF Init, Waiting
  <2>2. <<>> \o <<>> \o <<>> = [j \in 1..0 |-> j]
    OBVIOUS
  <2> QED BY <2>1, <2>2
<1>2. TypeOK /\ CandidatesInOrder /\ [Next]_vars => CandidatesInOrder'
  <2> SUFFICES ASSUME TypeOK, \A o \in Offer : Way(o) = UpTo(gathered[o]), [Next]_vars
               PROVE  \A o \in Offer : (Way(o) = UpTo(gathered[o]))'
    BY <1>0 DEF CandidatesInOrder, Way, UpTo
  <2>0. TypeOK /\ \A o \in Offer : Way(o) = UpTo(gathered[o])
    OBVIOUS
  <2>1. ASSUME NEW q \in Offer, cs'[q] = cs[q], out'[q] = out[q],
               calling'[q] = calling[q], gathered'[q] = gathered[q]
        PROVE  (Way(q) = UpTo(gathered[q]))'
    <3>1. Way(q)' = Way(q)
      BY <2>1 DEF Way, Waiting
    <3> QED BY <2>0, <2>1, <3>1 DEF UpTo
  <2>2. ASSUME NEW o \in Offer, GetReplies(o)
        PROVE  \A q \in Offer : (Way(q) = UpTo(gathered[q]))'
    <3>1. cs[o] \in Seq(Nat) /\ out[o] \in Seq(Nat) /\ cs[o] # <<>>
      BY <2>0, <2>2 DEF GetReplies, TypeOK
    <3>2. Append(out[o], Head(cs[o])) \o Tail(cs[o]) = out[o] \o cs[o]
      BY <3>1, MoveHead
    <3>3. /\ out'[o] = Append(out[o], Head(cs[o])) /\ cs'[o] = Tail(cs[o])
          /\ \A q \in Offer : q # o => out'[q] = out[q] /\ cs'[q] = cs[q]
          /\ calling' = calling /\ gathered' = gathered
      BY <2>0, <2>2 DEF GetReplies, TypeOK
    <3>4. Way(o)' = Way(o)
      BY <3>2, <3>3 DEF Way, Waiting
    <3> QED BY <2>0, <2>1, <3>3, <3>4 DEF UpTo
  <2>3. ASSUME NEW o \in Offer, OnCandidate(o)
        PROVE  \A q \in Offer : (Way(q) = UpTo(gathered[q]))'
    <3>1. calling[o] \in Nat /\ cs[o] \in Seq(Nat) /\ out[o] \in Seq(Nat)
      BY <2>0 DEF TypeOK
    <3>2. out[o] \o Append(cs[o], calling[o]) \o <<>> = out[o] \o cs[o] \o <<calling[o]>>
      BY <3>1, Regroup, ZenonT(40)
    <3>3. /\ out' = out /\ gathered' = gathered
          /\ cs'[o] = Append(cs[o], calling[o]) /\ calling'[o] = 0 /\ calling[o] # 0
          /\ \A q \in Offer : q # o => cs'[q] = cs[q] /\ calling'[q] = calling[q]
      BY <2>0, <2>3 DEF OnCandidate, TypeOK, accVars
    <3>4. Waiting(o) = <<calling[o]>> /\ Waiting(o)' = <<>>
      BY <3>3 DEF Waiting
    <3>5. Way(o)' = Way(o)
      BY <3>2, <3>3, <3>4 DEF Way
    <3> QED BY <2>0, <2>1, <3>3, <3>5 DEF UpTo
  <2>4. ASSUME NEW o \in Offer, Gather(o)
        PROVE  \A q \in Offer : (Way(q) = UpTo(gathered[q]))'
    <3> DEFINE s == out[o]
               t == cs[o]
               g == gathered[o]
    <3>1. /\ g \in Nat /\ t \in Seq(Nat) /\ s \in Seq(Nat) /\ calling[o] = 0
      BY <2>0, <2>4 DEF Gather, TypeOK
    <3>2. /\ out' = out /\ cs' = cs /\ calling'[o] = g + 1 /\ gathered'[o] = g + 1
          /\ \A q \in Offer : q # o => calling'[q] = calling[q] /\ gathered'[q] = gathered[q]
      BY <2>0, <2>4 DEF Gather, TypeOK, accVars
    <3>3. s \o t \o <<>> = UpTo(g)
      BY <2>0, <3>1 DEF Way, Waiting
    <3>4. Way(o)' = s \o t \o <<g + 1>>
      <4>1. Waiting(o)' = <<g + 1>>
        BY <3>1, <3>2 DEF Waiting
      <4> QED BY <3>2, <4>1 DEF Way
    <3> HIDE DEF s, t, g
    <3>5. s \o t \o <<g + 1>> = UpTo(g + 1)
      BY <3>1, <3>3, OneMore, ZenonT(40)
    <3>6. (Way(o) = UpTo(gathered[o]))'
      BY <3>2, <3>4, <3>5 DEF UpTo
    <3> QED BY <2>1, <3>2, <3>6
  <2>5. ASSUME UNCHANGED <<candVars, out>>
        PROVE  \A q \in Offer : (Way(q) = UpTo(gathered[q]))'
    BY <2>1, <2>5 DEF candVars
  <2>6. ASSUME NEW o \in Offer, Posting(o) PROVE UNCHANGED <<candVars, out>>
    BY <2>6 DEF Posting, PostCreates, PostFails, Locks, PostStores, PostStartsHandler, PostAnswers,
                PostReplies, ExpireCancels, ExpireDeletes, accVars
  <2>7. ASSUME NEW o \in Offer, GetLooksUp(o) \/ GetTimesOut(o) \/ Handling(o)
        PROVE  UNCHANGED <<candVars, out>>
    BY <2>7 DEF GetLooksUp, GetTimesOut, Handling, IncomingTakes, IncomingAdds, IncomingStops, accVars
  <2>8. ASSUME NEW o \in Offer, \/ Types(o) \/ Leaves(o) \/ PutLooksUp(o) \/ Connects(o)
                                \/ Fails(o) \/ \E n \in hold[o] : PutSends(o, n)
        PROVE  UNCHANGED <<candVars, out>>
    BY <2>8 DEF Types, Leaves, PutLooksUp, Connects, Fails, PutSends, accVars
  <2>9. ASSUME LookupRaces \/ UNCHANGED vars PROVE UNCHANGED <<candVars, out>>
    BY <2>9 DEF LookupRaces, vars, accVars, candVars
  <2> QED BY <2>2, <2>3, <2>4, <2>5, <2>6, <2>7, <2>8, <2>9 DEF Next, Getting, Environment
<1> QED BY <1>1, <1>2, TypeCorrect, PTL DEF Spec
=============================================================================
