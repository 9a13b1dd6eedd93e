------------------------------ MODULE PaneProofs ------------------------------
(***************************************************************************)
(* Proofs of the safety of Pane, for any set of channels opened in any way, *)
(* any capacity of outbuf and any amount of output.                        *)
(***************************************************************************)
EXTENDS Pane, SequenceTheorems, TLAPS

USE OutBufAssumption, BoundsAssumption, KindAssumption

Chunk == 1..MaxChunks

-----------------------------------------------------------------------------
(* Where the callbacks, loops and senders can be *)

\* What the place of a channel's OnOpen callback says of the channel and of
\* the pane.  Without it Run could start a ReadLoop that is already there and
\* CDB could get more than two entries for a channel.
HandlerInv ==
    /\ \A d \in DC :
        /\ hpc[d] \in {"opening", "run", "loop2"} => d = Creator
        /\ hpc[d] \in {"idle", "opening", "run", "loop2"} => cdb[d] = 0
        /\ hpc[d] \in {"attach", "reattached"} => cdb[d] <= 1
    /\ hpc[Creator] \in {"idle", "opening", "run"} => rpc[1] = "off" /\ spc[1] = "off"
    /\ hpc[Creator] \in {"idle", "opening", "run", "loop2"} => rpc[2] = "off" /\ spc[2] = "off"

\* A loop that pushes, and a sender that sends or stores, has a chunk.
ChunkInv ==
    \A r \in Loop : /\ rpc[r] = "push" => rchunk[r] \in Chunk
                    /\ spc[r] \in {"send", "store"} => smsg[r] \in Chunk

\* How many chunks a loop and its sender have in their hands.
Held(r) == (IF spc[r] \in {"send", "store"} THEN 1 ELSE 0) + (IF rpc[r] = "push" THEN 1 ELSE 0)

\* A loop and its sender have at most a chunk each.
LEMMA HeldSmall == \A r \in Loop : Held(r) \in 0..2
BY DEF Held

\* No chunk is lost or made up, by two loops either.
CountInv == Len(stored) + Len(outbuf) + Len(tty) + Held(1) + Held(2) = produced

\* Steps that leave the output where it is.
LEMMA OutputKept ==
    ASSUME ChunkInv, CountInv,
           UNCHANGED <<stored, outbuf, tty, produced, rpc, spc, rchunk, smsg>>
    PROVE  ChunkInv' /\ CountInv'
BY DEF ChunkInv, CountInv, Held

BaseInv == TypeOK /\ HandlerInv /\ ChunkInv /\ CountInv

\* The inductive invariant holds at the start.
LEMMA BaseInit == Init => BaseInv
<1> SUFFICES ASSUME Init PROVE BaseInv
  OBVIOUS
<1>1. /\ tty \in Seq(Chunk) /\ outbuf \in Seq(Chunk) /\ stored \in Seq(Chunk)
      /\ Len(tty) = 0 /\ Len(outbuf) = 0 /\ Len(stored) = 0
      /\ rx \in [DC -> Seq(Message)]
  BY DEF Init
<1>2. TypeOK
  <2>1. /\ exists \in BOOLEAN /\ running \in BOOLEAN /\ ctxDone \in BOOLEAN /\ exited \in BOOLEAN
        /\ scancel \in [Loop -> BOOLEAN] /\ closing \in [DC -> {"no", "coming", "heard", "missed"}]
        /\ handled \in [DC -> BOOLEAN]
    BY DEF Init
  <2>2. /\ produced \in 0..MaxChunks /\ rchunk \in [Loop -> 0..MaxChunks]
        /\ smsg \in [Loop -> 0..MaxChunks] /\ scs \in [Loop -> [DC -> 0..2]]
        /\ cdb \in [DC -> 0..2]
    BY DEF Init
  <2> QED BY <1>1, <2>1, <2>2 DEF Init, TypeOK, Chunk
<1>3. HandlerInv /\ ChunkInv /\ CountInv
  BY <1>1 DEF Init, HandlerInv, ChunkInv, CountInv, Held, Loop
<1> QED BY <1>2, <1>3 DEF BaseInv

-----------------------------------------------------------------------------
(* Lemmas about sequences *)

\* The parts of a sequence that is not empty.
LEMMA HeadAndTail ==
    ASSUME NEW S, NEW s \in Seq(S), s # <<>>
    PROVE  Head(s) \in S /\ Tail(s) \in Seq(S) /\ Len(Tail(s)) = Len(s) - 1 /\ Len(s) \in Nat \ {0}
OBVIOUS

\* A sequence with one more element.
LEMMA Appended ==
    ASSUME NEW S, NEW s \in Seq(S), NEW x \in S
    PROVE  Append(s, x) \in Seq(S) /\ Len(Append(s, x)) = Len(s) + 1 /\ Len(s) \in Nat
OBVIOUS

\* A chunk sent once for every entry of a channel.
LEMMA Sent ==
    ASSUME NEW S, NEW s \in Seq(S), NEW x \in S, NEW k \in Nat
    PROVE  s \o [n \in 1..k |-> x] \in Seq(S)
<1>1. [n \in 1..k |-> x] \in Seq(S)
  BY IsASeq
<1> QED BY <1>1

\* ClientsDB.Delete leaves no more entries than there were.
LEMMA DeletedFewer ==
    ASSUME TypeOK, NEW d \in DC, NEW n \in Nat
    PROVE  Deleted(d, n) \in 0..cdb[d]
<1>1. cdb[d] \in 0..2
  BY DEF TypeOK
<1> QED BY <1>1 DEF Deleted

-----------------------------------------------------------------------------
(* The command, the callbacks and the channels *)

\* The command, marks and what clients do keep the invariant.
LEMMA EnvironmentBase ==
    ASSUME BaseInv, Environment
    PROVE  BaseInv'
<1> USE DEF paneVars, cmdVars, readVars, sendVars, chanVars, handVars, restVars
<1>0. TypeOK /\ HandlerInv /\ ChunkInv /\ CountInv
  BY DEF BaseInv
<1>00. Len(tty) \in Nat /\ Len(outbuf) \in Nat /\ Len(stored) \in Nat
  BY <1>0 DEF TypeOK
<1>1. CASE CommandWrites
  <2>1. produced + 1 \in Chunk
    BY <1>0, <1>1 DEF CommandWrites, TypeOK, Chunk
  <2>2. tty' \in Seq(Chunk) /\ Len(tty') = Len(tty) + 1
    BY <1>0, <1>1, <2>1, Appended DEF CommandWrites, TypeOK, Chunk
  <2>3. TypeOK'
    BY <1>0, <1>1, <2>1, <2>2 DEF CommandWrites, TypeOK, Chunk
  <2>4. HandlerInv' /\ ChunkInv'
    BY <1>0, <1>1 DEF CommandWrites, HandlerInv, ChunkInv
  <2>5. CountInv'
    BY <1>0, <1>00, <1>1, <2>2 DEF CommandWrites, CountInv, Held, TypeOK
  <2> QED BY <2>3, <2>4, <2>5 DEF BaseInv
<1>2. CASE CommandExits
  BY <1>0, <1>2 DEF CommandExits, BaseInv, TypeOK, HandlerInv, ChunkInv, CountInv, Held
<1>3. CASE Mark
  <2>1. Len(stored) <= produced
    BY <1>0, <1>00 DEF CountInv, Held
  <2>2. markPos' \in 0..MaxChunks
    BY <1>0, <1>00, <1>3, <2>1 DEF Mark, TypeOK
  <2>3. TypeOK'
    BY <1>0, <1>3, <2>2 DEF Mark, TypeOK
  <2>4. HandlerInv' /\ ChunkInv' /\ CountInv'
    BY <1>0, <1>3 DEF Mark, HandlerInv, ChunkInv, CountInv, Held
  <2> QED BY <2>3, <2>4 DEF BaseInv
<1>4. ASSUME NEW d \in DC, HandleAddPane(d) PROVE BaseInv'
  <2>1. d = Creator
    BY <1>4 DEF HandleAddPane, CreatorKind
  <2>2. TypeOK' /\ ChunkInv' /\ CountInv'
    BY <1>0, <1>4 DEF HandleAddPane, TypeOK, ChunkInv, CountInv, Held
  <2>3. HandlerInv'
    BY <1>0, <1>4, <2>1 DEF HandleAddPane, HandlerInv, TypeOK
  <2> QED BY <2>2, <2>3 DEF BaseInv
<1>5. ASSUME NEW d \in DC, ClientCloses(d) PROVE BaseInv'
  <2>1. TypeOK'
    BY <1>0, <1>5 DEF ClientCloses, TypeOK
  <2>2. HandlerInv' /\ ChunkInv' /\ CountInv'
    BY <1>0, <1>5, OutputKept DEF ClientCloses, HandlerInv
  <2> QED BY <2>1, <2>2 DEF BaseInv
<1>6. ASSUME NEW d \in DC, OnMessage(d) PROVE BaseInv'
  <2>1. TypeOK'
    BY <1>0, <1>6 DEF OnMessage, TypeOK, Killer, Client
  <2>2. HandlerInv' /\ ChunkInv' /\ CountInv'
    BY <1>0, <1>6, OutputKept DEF OnMessage, HandlerInv
  <2> QED BY <2>1, <2>2 DEF BaseInv
<1> QED BY <1>1, <1>2, <1>3, <1>4, <1>5, <1>6 DEF Environment

\* So do the OnOpen callbacks, close events and timers of Restore.
LEMMA HandlerBase ==
    ASSUME BaseInv, NEW d \in DC, Handler(d)
    PROVE  BaseInv'
<1> USE DEF paneVars, cmdVars, readVars, sendVars, chanVars, handVars, restVars
<1>0. TypeOK /\ HandlerInv /\ ChunkInv /\ CountInv
  BY DEF BaseInv
<1>1. CASE OpenAndRun(d)
  <2>1. d = Creator
    BY <1>1 DEF OpenAndRun, CreatorKind
  <2>2. TypeOK'
    <3>1. PICK x \in {"run", "attach", "done"} : hpc' = [hpc EXCEPT ![d] = x]
      BY <1>1 DEF OpenAndRun
    <3>2. hpc' \in [DC -> {"idle", "opening", "run", "loop2", "attach", "handlers",
                    "reattached", "done"}]
      BY <1>0, <3>1 DEF TypeOK
    <3>3. dc' \in [DC -> {"new", "open", "closed"}] /\ running' \in BOOLEAN
      BY <1>0, <1>1 DEF OpenAndRun, TypeOK
    <3> QED BY <1>0, <1>1, <3>2, <3>3 DEF OpenAndRun, TypeOK
  <2>4. ChunkInv' /\ CountInv'
    BY <1>0, <1>1, OutputKept DEF OpenAndRun
  <2>3. HandlerInv'
    BY <1>0, <1>1, <2>1 DEF OpenAndRun, HandlerInv, TypeOK
  <2> QED BY <2>2, <2>3, <2>4 DEF BaseInv
<1>2. CASE RunRest(d)
  <2>1. d = Creator /\ rpc[1] = "off" /\ spc[1] = "off" /\ rpc[2] = "off" /\ spc[2] = "off"
        /\ cdb[d] = 0
    BY <1>0, <1>2 DEF RunRest, HandlerInv
  <2>2. rpc'[1] = "read" /\ spc'[1] = "recv" /\ rpc'[2] = "off" /\ spc'[2] = "off"
    BY <1>0, <1>2, <2>1 DEF RunRest, StartLoop, TypeOK, Loop
  <2>3. TypeOK'
    BY <1>0, <1>2 DEF RunRest, StartLoop, TypeOK
  <2>4. HandlerInv'
    BY <1>0, <1>2, <2>1, <2>2 DEF RunRest, HandlerInv, TypeOK
  <2>5. ChunkInv'
    BY <1>0, <2>2 DEF ChunkInv, Loop
  <2>6. CountInv'
    BY <1>0, <1>2, <2>1, <2>2 DEF RunRest, CountInv, Held
  <2> QED BY <2>3, <2>4, <2>5, <2>6 DEF BaseInv
<1>3. CASE SecondLoop(d)
  <2>1. d = Creator /\ rpc[2] = "off" /\ spc[2] = "off" /\ cdb[d] = 0
    BY <1>0, <1>3 DEF SecondLoop, HandlerInv
  <2>2. /\ rpc'[2] = "read" /\ spc'[2] = "recv" /\ rpc'[1] = rpc[1] /\ spc'[1] = spc[1]
        /\ rchunk' = rchunk /\ smsg' = smsg
    BY <1>0, <1>3, <2>1 DEF SecondLoop, StartLoop, TypeOK, Loop
  <2>3. TypeOK'
    BY <1>0, <1>3 DEF SecondLoop, StartLoop, TypeOK, Loop
  <2>4. HandlerInv'
    BY <1>0, <1>3, <2>1, <2>2 DEF SecondLoop, HandlerInv, TypeOK
  <2>5. ChunkInv'
    BY <1>0, <2>2 DEF ChunkInv, Loop
  <2>6. CountInv'
    BY <1>0, <1>3, <2>1, <2>2 DEF SecondLoop, CountInv, Held
  <2> QED BY <2>3, <2>4, <2>5, <2>6 DEF BaseInv
<1>4. CASE Attach(d)
  <2>1. cdb[d] \in 0..1
    BY <1>0, <1>4 DEF Attach, HandlerInv, TypeOK
  <2>2. TypeOK'
    BY <1>0, <1>4, <2>1 DEF Attach, TypeOK
  <2>3. HandlerInv'
    BY <1>0, <1>4 DEF Attach, HandlerInv, TypeOK
  <2>4. ChunkInv' /\ CountInv'
    BY <1>0, <1>4 DEF Attach, ChunkInv, CountInv, Held
  <2> QED BY <2>2, <2>3, <2>4 DEF BaseInv
<1>5. CASE SetHandlers(d)
  <2>1. TypeOK' /\ ChunkInv' /\ CountInv'
    BY <1>0, <1>5 DEF SetHandlers, TypeOK, ChunkInv, CountInv, Held
  <2>2. HandlerInv'
    BY <1>0, <1>5 DEF SetHandlers, HandlerInv, TypeOK
  <2> QED BY <2>1, <2>2 DEF BaseInv
<1>6. CASE Reconnect(d)
  <2>1. d # Creator /\ hpc[d] = "idle" /\ cdb[d] = 0
    BY <1>0, <1>6 DEF Reconnect, HandlerInv, VisitorKind, CreatorKind
  <2>2. ChunkInv' /\ CountInv'
    BY <1>0, <1>6 DEF Reconnect, ChunkInv, CountInv, Held
  <2>3. CASE Reattach(d)
    <3>1. TypeOK'
      BY <1>0, <1>6, <2>1, <2>3 DEF Reconnect, Reattach, TypeOK
    <3>2. HandlerInv'
      BY <1>0, <1>6, <2>1, <2>3 DEF Reconnect, Reattach, HandlerInv, TypeOK
    <3> QED BY <2>2, <3>1, <3>2 DEF BaseInv
  <2>4. CASE Refuse(d)
    <3>1. TypeOK'
      BY <1>0, <1>6, <2>4 DEF Reconnect, Refuse, TypeOK
    <3>2. HandlerInv'
      BY <1>0, <1>6, <2>1, <2>4 DEF Reconnect, Refuse, HandlerInv, TypeOK
    <3> QED BY <2>2, <3>1, <3>2 DEF BaseInv
  <2> QED BY <1>6, <2>3, <2>4 DEF Reconnect
<1>7. CASE OnCloseFires(d)
  <2>1. cdb' \in [DC -> 0..2] /\ \A e \in DC : cdb'[e] <= cdb[e]
    <3>1. cdb \in [DC -> 0..2] /\ Deleted(d, 1) \in 0..cdb[d]
      BY <1>0, DeletedFewer DEF TypeOK
    <3>2. cdb' = [cdb EXCEPT ![d] = Deleted(d, 1)] \/ cdb' = cdb
      BY <1>7 DEF OnCloseFires
    <3> QED BY <3>1, <3>2
  <2>2. TypeOK' /\ ChunkInv' /\ CountInv'
    BY <1>0, <1>7, <2>1 DEF OnCloseFires, TypeOK, ChunkInv, CountInv, Held
  <2>3. HandlerInv'
    BY <1>0, <1>7, <2>1 DEF OnCloseFires, HandlerInv, TypeOK
  <2> QED BY <2>2, <2>3 DEF BaseInv
<1>8. CASE RestoreFires(d)
  <2> DEFINE since == IF markPos = NoMarker THEN 0 ELSE markPos
             msg == IF restore[d] = "screen" THEN Screen(stored)
                    ELSE History(SubSeq(stored, since + 1, Len(stored)))
  <2>1. msg \in Message
    <3>1. since \in Nat /\ stored \in Seq(Chunk) /\ Len(stored) \in Nat
      BY <1>0 DEF TypeOK, Chunk
    <3> HIDE DEF since
    <3>2. SubSeq(stored, since + 1, Len(stored)) \in Seq(Chunk)
      BY <3>1
    <3> QED BY <3>1, <3>2 DEF Message, Screen, History, Chunk
  <2>2. rx' = [rx EXCEPT ![d] = IF dc[d] = "open" THEN Append(@, msg) ELSE @]
    BY <1>8 DEF RestoreFires
  <2> HIDE DEF msg
  <2>3. rx' \in [DC -> Seq(Message)]
    BY <1>0, <2>1, <2>2 DEF TypeOK
  <2>4. TypeOK'
    BY <1>0, <1>8, <2>3 DEF RestoreFires, TypeOK
  <2>5. HandlerInv' /\ ChunkInv' /\ CountInv'
    BY <1>0, <1>8 DEF RestoreFires, HandlerInv, ChunkInv, CountInv, Held
  <2> QED BY <2>4, <2>5 DEF BaseInv
<1>9. CASE RestoreStarts(d)
  <2>1. TypeOK'
    <3>1. restore' \in [DC -> {"none", "screen", "history", "done"}]
      BY <1>0, <1>9 DEF RestoreStarts, TypeOK
    <3>2. hpc' \in [DC -> {"idle", "opening", "run", "loop2", "attach", "handlers",
                          "reattached", "done"}] /\ handled' \in [DC -> BOOLEAN]
      BY <1>0, <1>9 DEF RestoreStarts, TypeOK
    <3> QED BY <1>0, <1>9, <3>1, <3>2 DEF RestoreStarts, TypeOK
  <2>2. HandlerInv'
    BY <1>0, <1>9 DEF RestoreStarts, HandlerInv, TypeOK
  <2>3. ChunkInv' /\ CountInv'
    BY <1>0, <1>9, OutputKept DEF RestoreStarts
  <2> QED BY <2>1, <2>2, <2>3 DEF BaseInv
<1> QED BY <1>1, <1>2, <1>3, <1>4, <1>5, <1>6, <1>7, <1>8, <1>9 DEF Handler

-----------------------------------------------------------------------------
(* ReadLoop, sender and Kill *)

\* So do the ReadLoops and their timers.
LEMMA ReadLoopBase ==
    ASSUME BaseInv, NEW r \in Loop, ReadLoop(r) \/ ReadNothing(r)
    PROVE  BaseInv'
<1> USE DEF paneVars, cmdVars, readVars, sendVars, chanVars, handVars, restVars
<1>0. TypeOK /\ HandlerInv /\ ChunkInv /\ CountInv
  BY DEF BaseInv
<1>00. Len(tty) \in Nat /\ Len(outbuf) \in Nat /\ Len(stored) \in Nat
  BY <1>0 DEF TypeOK
<1>1. CASE ReadChunk(r)
  <2>1. /\ Head(tty) \in Chunk /\ tty' \in Seq(Chunk)
        /\ Len(tty') = Len(tty) - 1
    BY <1>0, <1>1, HeadAndTail DEF ReadChunk, TypeOK, Chunk
  <2>2. TypeOK'
    <3>1. rchunk' \in [Loop -> 0..MaxChunks]
      BY <1>0, <1>1, <2>1 DEF ReadChunk, TypeOK, Chunk
    <3>2. rpc' \in [Loop -> {"off", "read", "push", "timer", "done"}]
      BY <1>0, <1>1 DEF ReadChunk, TypeOK
    <3> QED BY <1>0, <1>1, <2>1, <3>1, <3>2 DEF ReadChunk, TypeOK, Chunk
  <2>3. HandlerInv' /\ ChunkInv'
    BY <1>0, <1>1, <2>1 DEF ReadChunk, HandlerInv, ChunkInv, TypeOK, Loop
  <2>4. CountInv'
    <3>1. /\ Held(r)' = Held(r) + 1
          /\ \A q \in Loop \ {r} : Held(q)' = Held(q)
      BY <1>0, <1>1 DEF ReadChunk, Held, TypeOK
    <3> QED BY <1>0, <1>00, <1>1, <2>1, <3>1, HeldSmall DEF ReadChunk, CountInv, Loop
  <2> QED BY <2>2, <2>3, <2>4 DEF BaseInv
<1>2. CASE Push(r)
  <2>1. rchunk[r] \in Chunk
    BY <1>0, <1>2 DEF Push, ChunkInv
  <2>2. outbuf' \in Seq(Chunk) /\ Len(outbuf') = Len(outbuf) + 1
    BY <1>0, <1>2, <2>1, Appended DEF Push, TypeOK, Chunk
  <2>3. Len(outbuf') <= OutBufSize
    BY <1>00, <1>2, <2>2 DEF Push
  <2>4. TypeOK'
    <3>1. rchunk' \in [Loop -> 0..MaxChunks]
      BY <1>0, <1>2 DEF Push, TypeOK
    <3>2. rpc' \in [Loop -> {"off", "read", "push", "timer", "done"}]
      BY <1>0, <1>2 DEF Push, TypeOK
    <3> QED BY <1>0, <1>2, <2>2, <2>3, <3>1, <3>2 DEF Push, TypeOK, Chunk
  <2>5. HandlerInv' /\ ChunkInv'
    BY <1>0, <1>2 DEF Push, HandlerInv, ChunkInv, TypeOK, Loop
  <2>6. CountInv'
    <3>1. /\ Held(r)' = Held(r) - 1
          /\ \A q \in Loop \ {r} : Held(q)' = Held(q)
      BY <1>0, <1>2 DEF Push, Held, TypeOK
    <3> QED BY <1>0, <1>00, <1>2, <2>2, <3>1, HeldSmall DEF Push, CountInv, Loop
  <2> QED BY <2>4, <2>5, <2>6 DEF BaseInv
<1>3. CASE ReadFails(r) \/ ReadNothing(r)
  <2>1. /\ rpc[r] = "read" /\ rpc' = [rpc EXCEPT ![r] = "timer"]
        /\ UNCHANGED <<paneVars, cmdVars, rchunk, outbuf, sendVars, stored, chanVars, handVars,
                       restVars, rx, kpc>>
    BY <1>3 DEF ReadFails, ReadNothing
  <2>2. TypeOK'
    BY <1>0, <2>1 DEF TypeOK
  <2>3. HandlerInv' /\ ChunkInv'
    BY <1>0, <2>1 DEF HandlerInv, ChunkInv, TypeOK, Loop
  <2>4. CountInv'
    <3>1. \A q \in Loop : Held(q)' = Held(q)
      BY <1>0, <2>1 DEF Held, TypeOK
    <3> QED BY <1>0, <2>1, <3>1 DEF CountInv, Loop
  <2> QED BY <2>2, <2>3, <2>4 DEF BaseInv
<1>4. CASE TimerFires(r)
  <2>1. TypeOK'
    BY <1>0, <1>4 DEF TimerFires, TypeOK, Killer
  <2>2. HandlerInv' /\ ChunkInv'
    BY <1>0, <1>4 DEF TimerFires, HandlerInv, ChunkInv, TypeOK, Loop
  <2>3. CountInv'
    <3>1. \A q \in Loop : Held(q)' = Held(q)
      BY <1>0, <1>4 DEF TimerFires, Held, TypeOK
    <3> QED BY <1>0, <1>4, <3>1 DEF TimerFires, CountInv, Loop
  <2> QED BY <2>1, <2>2, <2>3 DEF BaseInv
<1> QED BY <1>1, <1>2, <1>3, <1>4 DEF ReadLoop

\* So do the senders.
LEMMA SenderBase ==
    ASSUME BaseInv, NEW r \in Loop, Sender(r)
    PROVE  BaseInv'
<1> USE DEF paneVars, cmdVars, readVars, sendVars, chanVars, handVars, restVars
<1>0. TypeOK /\ HandlerInv /\ ChunkInv /\ CountInv
  BY DEF BaseInv
<1>00. Len(tty) \in Nat /\ Len(outbuf) \in Nat /\ Len(stored) \in Nat
  BY <1>0 DEF TypeOK
<1>1. CASE SenderTakes(r)
  <2>1. /\ Head(outbuf) \in Chunk /\ outbuf' \in Seq(Chunk)
        /\ Len(outbuf') = Len(outbuf) - 1
    BY <1>0, <1>1, HeadAndTail DEF SenderTakes, TypeOK, Chunk
  <2>2. Len(outbuf') <= OutBufSize
    BY <1>0, <1>00, <2>1 DEF TypeOK
  <2>3. TypeOK'
    <3>1. smsg' \in [Loop -> 0..MaxChunks]
      BY <1>0, <1>1, <2>1 DEF SenderTakes, TypeOK, Chunk
    <3>2. scs' \in [Loop -> [DC -> 0..2]]
      BY <1>0, <1>1 DEF SenderTakes, TypeOK
    <3> QED BY <1>0, <1>1, <2>1, <2>2, <3>1, <3>2 DEF SenderTakes, TypeOK, Chunk
  <2>4. HandlerInv' /\ ChunkInv'
    BY <1>0, <1>1, <2>1 DEF SenderTakes, HandlerInv, ChunkInv, TypeOK, Loop
  <2>5. CountInv'
    <3>1. /\ Held(r)' = Held(r) + 1
          /\ \A q \in Loop \ {r} : Held(q)' = Held(q)
      BY <1>0, <1>1 DEF SenderTakes, Held, TypeOK
    <3> QED BY <1>0, <1>00, <1>1, <2>1, <3>1, HeldSmall DEF SenderTakes, CountInv, Loop
  <2> QED BY <2>3, <2>4, <2>5 DEF BaseInv
<1>2. CASE SenderSends(r)
  <2>1. smsg[r] \in Chunk /\ scs[r] \in [DC -> 0..2]
    BY <1>0, <1>2 DEF SenderSends, ChunkInv, TypeOK
  <2>2. Live(smsg[r]) \in Message
    BY <2>1 DEF Live, Message, Chunk
  <2>3. rx' \in [DC -> Seq(Message)]
    <3>1. ASSUME NEW d \in DC
          PROVE  rx[d] \o [n \in 1..scs[r][d] |-> Live(smsg[r])] \in Seq(Message)
      <4>1. rx[d] \in Seq(Message)
        BY <1>0 DEF TypeOK
      <4>2. scs[r][d] \in 0..2
        BY <2>1
      <4>3. scs[r][d] \in Nat
        BY <4>2
      <4> QED BY <2>2, <4>1, <4>3, Sent
    <3> QED BY <1>0, <1>2, <3>1 DEF SenderSends, TypeOK
  <2>4. cdb' \in [DC -> 0..2] /\ \A d \in DC : cdb'[d] <= cdb[d]
    <3>1. ASSUME NEW d \in DC PROVE Deleted(d, scs[r][d]) \in 0..cdb[d] /\ cdb[d] \in 0..2
      <4>1. scs[r][d] \in 0..2
        BY <2>1
      <4>2. scs[r][d] \in Nat
        BY <4>1
      <4>3. cdb[d] \in 0..2
        BY <1>0 DEF TypeOK
      <4> QED BY <1>0, <4>2, <4>3, DeletedFewer
    <3>2. cdb' = [d \in DC |-> IF dc[d] = "open" THEN cdb[d] ELSE Deleted(d, scs[r][d])]
      BY <1>2 DEF SenderSends
    <3> QED BY <3>1, <3>2
  <2>5. TypeOK'
    BY <1>0, <1>2, <2>3, <2>4 DEF SenderSends, TypeOK
  <2>6. HandlerInv' /\ ChunkInv'
    <3>1. /\ hpc' = hpc /\ rpc' = rpc /\ rchunk' = rchunk /\ smsg' = smsg
          /\ \A q \in Loop : (spc'[q] = "off") = (spc[q] = "off")
          /\ \A q \in Loop : spc'[q] \in {"send", "store"} => spc[q] \in {"send", "store"}
      BY <1>0, <1>2 DEF SenderSends, TypeOK
    <3>2. ASSUME NEW d \in DC
          PROVE  (cdb[d] = 0 => cdb'[d] = 0) /\ (cdb[d] <= 1 => cdb'[d] <= 1)
      <4>1. cdb[d] \in 0..2
        BY <1>0 DEF TypeOK
      <4>2. cdb'[d] \in 0..2 /\ cdb'[d] <= cdb[d]
        BY <2>4
      <4> QED BY <4>1, <4>2
    <3>3. HandlerInv'
      BY <1>0, <3>1, <3>2 DEF HandlerInv, Loop
    <3>4. ChunkInv'
      BY <1>0, <3>1 DEF ChunkInv
    <3> QED BY <3>3, <3>4
  <2>7. CountInv'
    <3>1. \A q \in Loop : Held(q)' = Held(q)
      BY <1>0, <1>2 DEF SenderSends, Held, TypeOK
    <3> QED BY <1>0, <1>2, <3>1 DEF SenderSends, CountInv, Loop
  <2> QED BY <2>5, <2>6, <2>7 DEF BaseInv
<1>3. CASE SenderStores(r)
  <2>1. smsg[r] \in Chunk
    BY <1>0, <1>3 DEF SenderStores, ChunkInv
  <2>2. stored' \in Seq(Chunk) /\ Len(stored') = Len(stored) + 1
    BY <1>0, <1>3, <2>1, Appended DEF SenderStores, TypeOK, Chunk
  <2>3. TypeOK'
    BY <1>0, <1>3, <2>2 DEF SenderStores, TypeOK, Chunk
  <2>4. HandlerInv' /\ ChunkInv'
    BY <1>0, <1>3 DEF SenderStores, HandlerInv, ChunkInv, TypeOK, Loop
  <2>5. CountInv'
    <3>1. /\ Held(r)' = Held(r) - 1
          /\ \A q \in Loop \ {r} : Held(q)' = Held(q)
      BY <1>0, <1>3 DEF SenderStores, Held, TypeOK
    <3> QED BY <1>0, <1>00, <1>3, <2>2, <3>1, HeldSmall DEF SenderStores, CountInv, Loop
  <2> QED BY <2>3, <2>4, <2>5 DEF BaseInv
<1>4. CASE SenderStops(r)
  <2>1. TypeOK'
    BY <1>0, <1>4 DEF SenderStops, TypeOK
  <2>2. HandlerInv' /\ ChunkInv'
    BY <1>0, <1>4 DEF SenderStops, HandlerInv, ChunkInv, TypeOK, Loop
  <2>3. CountInv'
    <3>1. \A q \in Loop : Held(q)' = Held(q)
      BY <1>0, <1>4 DEF SenderStops, Held, TypeOK
    <3> QED BY <1>0, <1>4, <3>1 DEF SenderStops, CountInv, Loop
  <2> QED BY <2>1, <2>2, <2>3 DEF BaseInv
<1> QED BY <1>1, <1>2, <1>3, <1>4 DEF Sender

\* So do the two halves of Kill.
LEMMA KillBase ==
    ASSUME BaseInv, NEW k \in Killer, Kill(k)
    PROVE  BaseInv'
<1> USE DEF paneVars, cmdVars, readVars, sendVars, chanVars, handVars, restVars
<1>0. TypeOK /\ HandlerInv /\ ChunkInv /\ CountInv
  BY DEF BaseInv
<1>1. ChunkInv' /\ CountInv'
  BY <1>0 DEF Kill, KillSweep, KillFinal, ChunkInv, CountInv, Held
<1>2. TypeOK'
  <2>1. CASE KillSweep(k)
    <3>1. /\ dc' \in [DC -> {"new", "open", "closed"}] /\ cdb' \in [DC -> 0..2]
          /\ kpc' \in [Killer -> {"off", "sweep", "final"}]
      BY <1>0, <2>1 DEF KillSweep, TypeOK
    <3>2. closing' \in [DC -> {"no", "coming", "heard", "missed"}]
      BY <1>0, <2>1 DEF KillSweep, TypeOK
    <3> QED BY <1>0, <2>1, <3>1, <3>2 DEF KillSweep, TypeOK
  <2>2. CASE KillFinal(k)
    <3>1. ctxDone' \in BOOLEAN /\ exited' \in BOOLEAN /\ running' \in BOOLEAN
      BY <2>2, Zenon DEF KillFinal
    <3> QED BY <1>0, <2>2, <3>1 DEF KillFinal, TypeOK
  <2> QED BY <2>1, <2>2 DEF Kill
<1>3. HandlerInv'
  BY <1>0 DEF Kill, KillSweep, KillFinal, HandlerInv, TypeOK
<1> QED BY <1>1, <1>2, <1>3 DEF BaseInv

\* So does every step.
LEMMA BaseStep ==
    ASSUME BaseInv, [Next]_vars
    PROVE  BaseInv'
<1>1. CASE UNCHANGED vars
  <2>1. TypeOK'
    BY <1>1 DEF vars, BaseInv, TypeOK
  <2>2. HandlerInv'
    BY <1>1 DEF vars, BaseInv, HandlerInv
  <2>3. ChunkInv' /\ CountInv'
    BY <1>1, OutputKept DEF vars, BaseInv
  <2> QED BY <2>1, <2>2, <2>3 DEF BaseInv
<1>2. CASE Next
  BY <1>2, EnvironmentBase, HandlerBase, ReadLoopBase, SenderBase, KillBase DEF Next
<1> QED BY <1>1, <1>2

\* The inductive invariant holds throughout.
LEMMA BaseCorrect == Spec => []BaseInv
BY BaseInit, BaseStep, PTL DEF Spec

\* The variables of a pane keep their types (pane.go, clients_db.go): a channel
\* never has more than two entries in the clients database, outbuf never holds
\* more than its capacity, and a marker never lies behind the output.
THEOREM TypeCorrect == Spec => []TypeOK
BY BaseCorrect, PTL DEF BaseInv

-----------------------------------------------------------------------------
(* Closed channels are forgotten *)

\* A channel that is registered once has at most one entry, and its OnClose is
\* set after that entry, when no other can follow: what makes the one Delete of
\* OnClose enough.
Heard(d) ==
    /\ handled[d] => hpc[d] = "done"
    /\ hpc[d] \in {"idle", "opening", "run", "loop2", "attach"} => cdb[d] = 0
    /\ cdb[d] <= 1
    /\ closing[d] = "heard" => handled[d] /\ cdb[d] = 0

HeardInv == \A d \in Reader : Heard(d)

\* Steps that change nothing of what Heard(d) is about.
LEMMA HeardKept ==
    ASSUME NEW d \in DC, Heard(d), hpc'[d] = hpc[d], cdb'[d] = cdb[d],
           handled'[d] = handled[d], closing'[d] = closing[d]
    PROVE  Heard(d)'
BY DEF Heard

\* Every step keeps what Heard says of each channel.
LEMMA HeardStep ==
    ASSUME BaseInv, HeardInv, [Next]_vars
    PROVE  HeardInv'
<1> USE DEF paneVars, cmdVars, readVars, sendVars, chanVars, handVars, restVars
<1>0. TypeOK /\ HandlerInv
  BY DEF BaseInv
<1> SUFFICES ASSUME NEW d \in DC, kind[d] # "relabel" PROVE Heard(d)'
  BY DEF HeardInv, Reader
<1>1. Heard(d) /\ cdb[d] \in 0..2
  BY <1>0 DEF HeardInv, Reader, TypeOK
<1>2. CASE UNCHANGED vars
  BY <1>1, <1>2, HeardKept DEF vars
<1>3. CASE Environment
  <2>1. CASE CommandWrites \/ CommandExits \/ Mark
    BY <1>1, <2>1, HeardKept DEF CommandWrites, CommandExits, Mark
  <2>2. ASSUME NEW e \in DC, HandleAddPane(e) PROVE Heard(d)'
    BY <1>0, <1>1, <2>2 DEF HandleAddPane, Heard, TypeOK
  <2>3. ASSUME NEW e \in DC, ClientCloses(e) PROVE Heard(d)'
    BY <1>0, <1>1, <2>3 DEF ClientCloses, Heard, TypeOK
  <2>4. ASSUME NEW e \in DC, OnMessage(e) PROVE Heard(d)'
    BY <1>1, <2>4, HeardKept DEF OnMessage
  <2> QED BY <1>3, <2>1, <2>2, <2>3, <2>4 DEF Environment
<1>4. ASSUME NEW e \in DC, e # d, Handler(e) PROVE Heard(d)'
  <2>1. hpc'[d] = hpc[d] /\ cdb'[d] = cdb[d] /\ handled'[d] = handled[d] /\ closing'[d] = closing[d]
    BY <1>0, <1>4 DEF Handler, OpenAndRun, RunRest, StartLoop, SecondLoop, Attach, SetHandlers,
       Reconnect, Reattach, Refuse, RestoreStarts, OnCloseFires, RestoreFires, TypeOK
  <2> QED BY <1>1, <2>1, HeardKept
<1>5. CASE Handler(d)
  <2>1. CASE OpenAndRun(d) \/ RunRest(d) \/ SecondLoop(d)
    <3>1. /\ hpc[d] # "done" /\ UNCHANGED <<cdb, handled, closing>> /\ hpc'[d] # "idle"
          /\ hpc[d] \in {"idle", "opening", "run", "loop2"}
      BY <1>0, <2>1 DEF OpenAndRun, RunRest, SecondLoop, StartLoop, TypeOK
    <3> QED BY <1>1, <3>1 DEF Heard
  <2>2. CASE Attach(d)
    BY <1>0, <1>1, <2>2 DEF Attach, Heard, TypeOK
  <2>3. CASE SetHandlers(d)
    BY <1>0, <1>1, <2>3 DEF SetHandlers, Heard, TypeOK
  <2>4. CASE Reconnect(d)
    <3>1. hpc[d] = "idle" /\ cdb[d] = 0 /\ ~handled[d] /\ closing[d] # "heard"
      BY <1>0, <1>1, <2>4 DEF Reconnect, Heard, TypeOK
    <3> QED BY <1>0, <1>1, <2>4, <3>1 DEF Reconnect, Reattach, Refuse, Heard, TypeOK
  <2>5. CASE RestoreStarts(d)
    BY <1>0, <1>1, <2>5 DEF RestoreStarts, Heard, TypeOK
  <2>6. CASE OnCloseFires(d)
    <3>1. CASE handled[d]
      <4>1. cdb'[d] = 0
        BY <1>0, <1>1, <2>6, <3>1 DEF OnCloseFires, Deleted, Heard, TypeOK
      <4> QED BY <1>0, <1>1, <2>6, <3>1, <4>1 DEF OnCloseFires, Heard, TypeOK
    <3>2. CASE ~handled[d]
      BY <1>0, <1>1, <2>6, <3>2 DEF OnCloseFires, Heard, TypeOK
    <3> QED BY <3>1, <3>2
  <2>7. CASE RestoreFires(d)
    BY <1>1, <2>7, HeardKept DEF RestoreFires
  <2> QED BY <1>5, <2>1, <2>2, <2>3, <2>4, <2>5, <2>6, <2>7 DEF Handler
<1>6. ASSUME NEW r \in Loop, ReadLoop(r) \/ ReadNothing(r) PROVE Heard(d)'
  BY <1>1, <1>6, HeardKept DEF ReadLoop, ReadChunk, ReadFails, Push, TimerFires, ReadNothing
<1>7. ASSUME NEW r \in Loop, Sender(r) PROVE Heard(d)'
  <2>1. CASE SenderSends(r)
    <3>1. cdb'[d] \in 0..cdb[d]
      <4>1. scs[r][d] \in 0..2
        BY <1>0 DEF TypeOK
      <4>2. Deleted(d, scs[r][d]) \in 0..cdb[d]
        BY <1>0, <4>1, DeletedFewer
      <4> QED BY <1>1, <2>1, <4>2 DEF SenderSends
    <3>2. hpc' = hpc /\ handled' = handled /\ closing' = closing
      BY <2>1 DEF SenderSends
    <3> QED BY <1>1, <3>1, <3>2 DEF Heard
  <2> QED BY <1>1, <1>7, <2>1, HeardKept DEF Sender, SenderTakes, SenderStores, SenderStops
<1>8. ASSUME NEW k \in Killer, Kill(k) PROVE Heard(d)'
  BY <1>0, <1>1, <1>8 DEF Kill, KillSweep, KillFinal, Heard, TypeOK
<1> QED BY <1>2, <1>3, <1>4, <1>5, <1>6, <1>7, <1>8 DEF Next

\* HeardCloseForgotten: whatever deletes entries of CDB first, OnClose, the
\* sender or Kill (handlers.go:192, peer.go:226, 363, pane.go:233, 254), and
\* wherever between CDB.Add and OnClose its channel is closed, no entry is left
\* or comes back once a close event was heard.
THEOREM ForgottenCorrect == Spec => []HeardCloseForgotten
<1>1. Init => HeardInv
  <2> SUFFICES ASSUME Init, NEW d \in DC PROVE Heard(d)
    BY DEF HeardInv, Reader
  <2>1. hpc[d] = "idle" /\ cdb[d] = 0 /\ handled[d] = FALSE /\ closing[d] = "no"
    BY DEF Init
  <2> QED BY <2>1 DEF Heard
<1>2. BaseInv /\ HeardInv /\ [Next]_vars => HeardInv'
  BY HeardStep
<1>3. HeardInv => HeardCloseForgotten
  BY DEF HeardInv, Heard, HeardCloseForgotten
<1> QED BY <1>1, <1>2, <1>3, BaseCorrect, PTL DEF Spec

-----------------------------------------------------------------------------
(* The output of a pane stays in order *)

\* Five stretches, one after the other.
Pipe(a, b, c, d, e) == a \o b \o c \o d \o e

\* A sequence behind another may be cut after its first element.
LEMMA HeadJoinsTail ==
    ASSUME NEW S, NEW a \in Seq(S), NEW s \in Seq(S), s # <<>>
    PROVE  (a \o <<Head(s)>>) \o Tail(s) = a \o s
<1>1. /\ Head(s) \in S /\ Tail(s) \in Seq(S) /\ <<Head(s)>> \in Seq(S)
  OBVIOUS
<1>2. (a \o <<Head(s)>>) \o Tail(s) = a \o (<<Head(s)>> \o Tail(s))
  BY <1>1, ConcatAssociative
<1>3. <<Head(s)>> \o Tail(s) = s
  BY <1>1
<1> QED BY <1>2, <1>3

\* An element appended to the second of two sequences follows both.
LEMMA AppendJoins ==
    ASSUME NEW S, NEW a \in Seq(S), NEW s \in Seq(S), NEW x \in S
    PROVE  a \o Append(s, x) = (a \o s) \o <<x>>
<1>1. <<x>> \in Seq(S) /\ Append(s, x) = s \o <<x>>
  BY AppendIsConcat
<1> QED BY <1>1, ConcatAssociative

\* The same, of sequences of numbers.
LEMMA NumberJoins ==
    ASSUME NEW a \in Seq(Nat), NEW s \in Seq(Nat), NEW x \in Nat
    PROVE  a \o Append(s, x) = (a \o s) \o <<x>>
<1>1. <<x>> \in Seq(Nat) /\ Append(s, x) = s \o <<x>>
  BY AppendIsConcat
<1>2. a \o (s \o <<x>>) = (a \o s) \o <<x>>
  BY <1>1, ConcatAssociative
<1> QED BY <1>1, <1>2

\* An empty sequence adds nothing.
LEMMA EmptyJoins ==
    ASSUME NEW S, NEW a \in Seq(S)
    PROVE  a \o <<>> = a
OBVIOUS

\* Each way a chunk moves on leaves the whole as it is: from the tty to the
\* ReadLoop.
LEMMA PipeReads ==
    ASSUME NEW a \in Seq(Chunk), NEW b \in Seq(Chunk), NEW c \in Seq(Chunk), NEW e \in Seq(Chunk),
           e # <<>>
    PROVE  Pipe(a, b, c, <<Head(e)>>, Tail(e)) = Pipe(a, b, c, <<>>, e)
<1> DEFINE abc == a \o b \o c
<1>1. abc \in Seq(Chunk)
  OBVIOUS
<1> HIDE DEF abc
<1>2. (abc \o <<Head(e)>>) \o Tail(e) = abc \o e
  BY <1>1, HeadJoinsTail
<1>3. abc \o <<>> = abc
  BY <1>1, EmptyJoins
<1> QED BY <1>2, <1>3 DEF Pipe, abc

\* A chunk goes from the ReadLoop to outbuf.
LEMMA PipePushes ==
    ASSUME NEW a \in Seq(Chunk), NEW b \in Seq(Chunk), NEW c \in Seq(Chunk), NEW e \in Seq(Chunk),
           NEW x \in Chunk
    PROVE  Pipe(a, b, Append(c, x), <<>>, e) = Pipe(a, b, c, <<x>>, e)
<1> DEFINE ab == a \o b
<1>1. ab \in Seq(Chunk)
  OBVIOUS
<1> HIDE DEF ab
<1>2. ab \o Append(c, x) = (ab \o c) \o <<x>>
  BY <1>1, AppendJoins
<1>3. ab \o Append(c, x) \in Seq(Chunk)
  BY <1>1
<1>4. (ab \o Append(c, x)) \o <<>> = ab \o Append(c, x)
  BY <1>3, EmptyJoins
<1> QED BY <1>2, <1>4 DEF Pipe, ab

\* A chunk goes from outbuf to the sender.
LEMMA PipeTakes ==
    ASSUME NEW a \in Seq(Chunk), NEW c \in Seq(Chunk), NEW d \in Seq(Chunk), NEW e \in Seq(Chunk),
           c # <<>>
    PROVE  Pipe(a, <<Head(c)>>, Tail(c), d, e) = Pipe(a, <<>>, c, d, e)
<1>1. (a \o <<Head(c)>>) \o Tail(c) = a \o c
  BY HeadJoinsTail
<1>2. a \o <<>> = a
  BY EmptyJoins
<1> QED BY <1>1, <1>2 DEF Pipe

\* A chunk goes from the sender to the buffer.
LEMMA PipeStores ==
    ASSUME NEW a \in Seq(Chunk), NEW c \in Seq(Chunk), NEW d \in Seq(Chunk), NEW e \in Seq(Chunk),
           NEW x \in Chunk
    PROVE  Pipe(Append(a, x), <<>>, c, d, e) = Pipe(a, <<x>>, c, d, e)
<1>1. Append(a, x) \in Seq(Chunk)
  OBVIOUS
<1>2. Append(a, x) \o <<>> = Append(a, x)
  BY <1>1, EmptyJoins
<1>3. Append(a, x) = a \o <<x>>
  BY AppendIsConcat
<1> QED BY <1>2, <1>3 DEF Pipe

\* One more chunk is written.
LEMMA PipeGrows ==
    ASSUME NEW p \in Nat, NEW s \in Seq(Nat), NEW e \in Seq(Nat),
           s \o e = [j \in 1..p |-> j]
    PROVE  s \o Append(e, p + 1) = [j \in 1..(p + 1) |-> j]
<1> DEFINE u == s \o e
<1>1. u \in Seq(Nat)
  OBVIOUS
<1>2. s \o Append(e, p + 1) = u \o <<p + 1>>
  <2>1. p + 1 \in Nat
    OBVIOUS
  <2> QED BY <2>1, NumberJoins
<1>3. u = [j \in 1..p |-> j]
  OBVIOUS
<1> HIDE DEF u
<1>4. Len(u) = p /\ \A j \in 1..p : u[j] = j
  BY <1>1, <1>3
<1>5. u \o <<p + 1>> = [j \in 1..(p + 1) |-> j]
  <2> DEFINE v == u \o <<p + 1>>
  <2>1. v \in Seq(Nat) /\ Len(v) = p + 1 /\ \A j \in 1..(p + 1) : v[j] = j
    BY <1>1, <1>4
  <2> HIDE DEF v
  <2>2. v = [j \in 1..(p + 1) |-> j]
    BY <2>1
  <2> QED BY <2>2 DEF v
<1> QED BY <1>2, <1>5

\* Chunks are numbers.
LEMMA ChunksAreNumbers == ASSUME NEW s \in Seq(Chunk) PROVE s \in Seq(Nat)
<1>1. Chunk \subseteq Nat
  BY DEF Chunk
<1> QED BY <1>1, SeqMonotonic

\* A pane of add_pane has one ReadLoop and one sender, and its output is in
\* order from the buffer back to the tty.
PipeInv ==
    kind[Creator] = "add_pane" =>
        /\ hpc[Creator] # "loop2" /\ rpc[2] = "off" /\ spc[2] = "off"
        /\ Pipeline = [j \in 1..produced |-> j]

\* What the parts of the pipeline are made of.
LEMMA PartTypes ==
    ASSUME BaseInv
    PROVE  /\ stored \in Seq(Chunk) /\ outbuf \in Seq(Chunk) /\ tty \in Seq(Chunk)
           /\ \A r \in Loop : InSender(r) \in Seq(Chunk) /\ InReader(r) \in Seq(Chunk)
<1>1. stored \in Seq(Chunk) /\ outbuf \in Seq(Chunk) /\ tty \in Seq(Chunk)
  BY DEF BaseInv, TypeOK, Chunk
<1>2. ASSUME NEW r \in Loop PROVE InSender(r) \in Seq(Chunk) /\ InReader(r) \in Seq(Chunk)
  BY DEF BaseInv, ChunkInv, InSender, InReader
<1> QED BY <1>1, <1>2

\* Every step keeps the output in order.
LEMMA PipeStep ==
    ASSUME BaseInv, PipeInv, [Next]_vars
    PROVE  PipeInv'
<1> USE DEF paneVars, cmdVars, readVars, sendVars, chanVars, handVars, restVars
<1> SUFFICES ASSUME kind[Creator] = "add_pane"
             PROVE  /\ (hpc[Creator] # "loop2" /\ rpc[2] = "off" /\ spc[2] = "off")'
                    /\ Pipeline' = [j \in 1..produced' |-> j]
  BY DEF PipeInv
<1>0. TypeOK /\ HandlerInv /\ ChunkInv
  BY DEF BaseInv
<1>1. /\ hpc[Creator] # "loop2" /\ rpc[2] = "off" /\ spc[2] = "off"
      /\ Pipe(stored, InSender(1), outbuf, InReader(1), tty) = [j \in 1..produced |-> j]
  BY DEF PipeInv, Pipeline, Pipe
<1>2. Pipeline' = Pipe(stored', InSender(1)', outbuf', InReader(1)', tty')
  BY DEF Pipeline, Pipe
<1>3. /\ stored \in Seq(Chunk) /\ outbuf \in Seq(Chunk) /\ tty \in Seq(Chunk)
      /\ InSender(1) \in Seq(Chunk) /\ InReader(1) \in Seq(Chunk)
  BY PartTypes DEF Loop
<1>4. ASSUME UNCHANGED <<hpc, rpc, spc, rchunk, smsg, stored, outbuf, tty, produced>>
      PROVE  /\ (hpc[Creator] # "loop2" /\ rpc[2] = "off" /\ spc[2] = "off")'
             /\ Pipeline' = [j \in 1..produced' |-> j]
  BY <1>1, <1>2, <1>4 DEF InSender, InReader
<1>5. CASE UNCHANGED vars
  BY <1>4, <1>5 DEF vars
<1>6. CASE Environment
  <2>1. CASE CommandWrites
    <3> DEFINE front == stored \o InSender(1) \o outbuf \o InReader(1)
    <3>1. front \in Seq(Chunk)
      BY <1>3
    <3>2. front \in Seq(Nat) /\ tty \in Seq(Nat) /\ produced \in Nat
      BY <1>0, <1>3, <3>1, ChunksAreNumbers DEF TypeOK
    <3>3. front \o tty = [j \in 1..produced |-> j]
      BY <1>1 DEF Pipe
    <3>4. Pipeline' = front \o Append(tty, produced + 1)
      BY <1>2, <2>1 DEF CommandWrites, Pipe, InSender, InReader
    <3> HIDE DEF front
    <3>5. Pipeline' = [j \in 1..(produced + 1) |-> j]
      BY <3>2, <3>3, <3>4, PipeGrows
    <3> QED BY <1>1, <2>1, <3>5 DEF CommandWrites
  <2>2. ASSUME NEW d \in DC, HandleAddPane(d)
        PROVE  /\ (hpc[Creator] # "loop2" /\ rpc[2] = "off" /\ spc[2] = "off")'
               /\ Pipeline' = [j \in 1..produced' |-> j]
    <3>1. hpc'[Creator] # "loop2"
      BY <1>0, <1>1, <2>2 DEF HandleAddPane, TypeOK
    <3> QED BY <1>1, <1>2, <2>2, <3>1 DEF HandleAddPane, InSender, InReader
  <2>3. CASE CommandExits \/ Mark \/ \E d \in DC : ClientCloses(d) \/ OnMessage(d)
    BY <1>4, <2>3 DEF CommandExits, Mark, ClientCloses, OnMessage
  <2> QED BY <1>6, <2>1, <2>2, <2>3 DEF Environment
<1>7. ASSUME NEW d \in DC, Handler(d)
      PROVE  /\ (hpc[Creator] # "loop2" /\ rpc[2] = "off" /\ spc[2] = "off")'
             /\ Pipeline' = [j \in 1..produced' |-> j]
  <2>1. CASE RunRest(d)
    <3>1. d = Creator /\ rpc[1] = "off" /\ spc[1] = "off"
      BY <1>0, <2>1 DEF RunRest, HandlerInv
    <3>2. /\ hpc'[Creator] = "attach" /\ rpc'[2] = "off" /\ spc'[2] = "off"
          /\ rpc'[1] = "read" /\ spc'[1] = "recv"
      BY <1>0, <1>1, <2>1, <3>1 DEF RunRest, StartLoop, TypeOK, Loop
    <3>3. InSender(1)' = InSender(1) /\ InReader(1)' = InReader(1)
      BY <3>1, <3>2 DEF InSender, InReader
    <3> QED BY <1>1, <1>2, <2>1, <3>2, <3>3 DEF RunRest
  <2>2. CASE SecondLoop(d)
    BY <1>0, <1>1, <2>2 DEF SecondLoop, HandlerInv
  <2>3. CASE ~RunRest(d) /\ ~SecondLoop(d)
    <3>1. /\ UNCHANGED <<rpc, spc, rchunk, smsg, stored, outbuf, tty, produced>>
          /\ hpc'[Creator] # "loop2"
      BY <1>0, <1>1, <1>7, <2>3 DEF Handler, OpenAndRun, Attach, SetHandlers, Reconnect,
         Reattach, Refuse, RestoreStarts, OnCloseFires, RestoreFires, TypeOK
    <3> QED BY <1>1, <1>2, <3>1 DEF InSender, InReader
  <2> QED BY <2>1, <2>2, <2>3
<1>8. ASSUME NEW r \in Loop, ReadLoop(r) \/ ReadNothing(r)
      PROVE  /\ (hpc[Creator] # "loop2" /\ rpc[2] = "off" /\ spc[2] = "off")'
             /\ Pipeline' = [j \in 1..produced' |-> j]
  <2>1. r = 1 /\ rpc[1] # "off"
    BY <1>1, <1>8 DEF ReadLoop, ReadChunk, ReadFails, ReadNothing, Push, TimerFires, Loop
  <2>2. rpc'[2] = "off" /\ UNCHANGED <<hpc, spc, smsg, stored, produced>>
    BY <1>0, <1>1, <1>8, <2>1
       DEF ReadLoop, ReadChunk, ReadFails, ReadNothing, Push, TimerFires, Loop, TypeOK
  <2>3. InSender(1)' = InSender(1)
    BY <2>2 DEF InSender
  <2>4. CASE ReadChunk(1)
    <3>1. InReader(1) = <<>> /\ InReader(1)' = <<Head(tty)>>
      BY <1>0, <2>4 DEF ReadChunk, InReader, TypeOK, Loop
    <3>2. tty # <<>> /\ tty' = Tail(tty) /\ outbuf' = outbuf
      BY <2>4 DEF ReadChunk
    <3>3. Pipe(stored, InSender(1), outbuf, <<Head(tty)>>, Tail(tty))
            = Pipe(stored, InSender(1), outbuf, <<>>, tty)
      BY <1>3, <3>2, PipeReads
    <3> QED BY <1>1, <1>2, <2>2, <2>3, <3>1, <3>2, <3>3
  <2>5. CASE Push(1)
    <3>1. InReader(1) = <<rchunk[1]>> /\ InReader(1)' = <<>> /\ rchunk[1] \in Chunk
      BY <1>0, <2>5 DEF Push, InReader, TypeOK, ChunkInv, Loop
    <3>2. tty' = tty /\ outbuf' = Append(outbuf, rchunk[1])
      BY <2>5 DEF Push
    <3>3. Pipe(stored, InSender(1), Append(outbuf, rchunk[1]), <<>>, tty)
            = Pipe(stored, InSender(1), outbuf, <<rchunk[1]>>, tty)
      BY <1>3, <3>1, PipePushes
    <3> QED BY <1>1, <1>2, <2>2, <2>3, <3>1, <3>2, <3>3
  <2>6. CASE ReadFails(1) \/ ReadNothing(1) \/ TimerFires(1)
    <3>1. InReader(1) = <<>> /\ InReader(1)' = <<>> /\ tty' = tty /\ outbuf' = outbuf
      BY <1>0, <2>6 DEF ReadFails, ReadNothing, TimerFires, InReader, TypeOK, Loop
    <3> QED BY <1>1, <1>2, <2>2, <2>3, <3>1
  <2> QED BY <1>8, <2>1, <2>4, <2>5, <2>6 DEF ReadLoop
<1>9. ASSUME NEW r \in Loop, Sender(r)
      PROVE  /\ (hpc[Creator] # "loop2" /\ rpc[2] = "off" /\ spc[2] = "off")'
             /\ Pipeline' = [j \in 1..produced' |-> j]
  <2>1. r = 1
    BY <1>1, <1>9 DEF Sender, SenderTakes, SenderSends, SenderStores, SenderStops, Loop
  <2>2. spc'[2] = "off" /\ UNCHANGED <<hpc, rpc, rchunk, tty, produced>>
    BY <1>0, <1>1, <1>9, <2>1
       DEF Sender, SenderTakes, SenderSends, SenderStores, SenderStops, Loop, TypeOK
  <2>3. InReader(1)' = InReader(1)
    BY <2>2 DEF InReader
  <2>4. CASE SenderTakes(1)
    <3>1. InSender(1) = <<>> /\ InSender(1)' = <<Head(outbuf)>>
      BY <1>0, <2>4 DEF SenderTakes, InSender, TypeOK, Loop
    <3>2. outbuf # <<>> /\ outbuf' = Tail(outbuf) /\ stored' = stored
      BY <2>4 DEF SenderTakes
    <3>3. Pipe(stored, <<Head(outbuf)>>, Tail(outbuf), InReader(1), tty)
            = Pipe(stored, <<>>, outbuf, InReader(1), tty)
      BY <1>3, <3>2, PipeTakes
    <3> QED BY <1>1, <1>2, <2>2, <2>3, <3>1, <3>2, <3>3
  <2>5. CASE SenderSends(1)
    <3>1. InSender(1)' = InSender(1) /\ outbuf' = outbuf /\ stored' = stored
      BY <1>0, <2>5 DEF SenderSends, InSender, TypeOK, Loop
    <3> QED BY <1>1, <1>2, <2>2, <2>3, <3>1
  <2>6. CASE SenderStores(1)
    <3>1. InSender(1) = <<smsg[1]>> /\ InSender(1)' = <<>> /\ smsg[1] \in Chunk
      BY <1>0, <2>6 DEF SenderStores, InSender, TypeOK, ChunkInv, Loop
    <3>2. outbuf' = outbuf /\ stored' = Append(stored, smsg[1])
      BY <2>6 DEF SenderStores
    <3>3. Pipe(Append(stored, smsg[1]), <<>>, outbuf, InReader(1), tty)
            = Pipe(stored, <<smsg[1]>>, outbuf, InReader(1), tty)
      BY <1>3, <3>1, PipeStores
    <3> QED BY <1>1, <1>2, <2>2, <2>3, <3>1, <3>2, <3>3
  <2>7. CASE SenderStops(1)
    <3>1. InSender(1) = <<>> /\ InSender(1)' = <<>> /\ outbuf' = outbuf /\ stored' = stored
      BY <1>0, <2>7 DEF SenderStops, InSender, TypeOK, Loop
    <3> QED BY <1>1, <1>2, <2>2, <2>3, <3>1
  <2> QED BY <1>9, <2>1, <2>4, <2>5, <2>6, <2>7 DEF Sender
<1>10. ASSUME NEW k \in Killer, Kill(k)
       PROVE  /\ (hpc[Creator] # "loop2" /\ rpc[2] = "off" /\ spc[2] = "off")'
              /\ Pipeline' = [j \in 1..produced' |-> j]
  BY <1>4, <1>10 DEF Kill, KillSweep, KillFinal
<1> QED BY <1>5, <1>6, <1>7, <1>8, <1>9, <1>10 DEF Next

\* The output is in order at any time.
LEMMA PipeCorrect == Spec => []PipeInv
<1>1. Init => PipeInv
  <2> SUFFICES ASSUME Init PROVE PipeInv
    OBVIOUS
  <2>1. Pipeline = <<>>
    BY DEF Init, Pipeline, InSender, InReader, Loop
  <2>2. [j \in 1..produced |-> j] = <<>>
    BY DEF Init
  <2> QED BY <2>1, <2>2 DEF Init, PipeInv, Loop
<1>2. BaseInv /\ PipeInv /\ [Next]_vars => PipeInv'
  BY PipeStep
<1> QED BY <1>1, <1>2, BaseCorrect, PTL DEF Spec

\* PipelineInOrder: what a pane of add_pane has stored, what its ReadLoop and
\* sender carry and what the tty still holds (pane.go:163-244) are together the
\* command's output, in order, through Kill and whatever the channels do.
THEOREM PipelineCorrect == Spec => []PipelineInOrder
<1>1. PipeInv => PipelineInOrder
  BY DEF PipeInv, PipelineInOrder
<1> QED BY <1>1, PipeCorrect, PTL

-----------------------------------------------------------------------------
(* Who waits for whom *)

\* A loop and its sender start together, and the sender is cancelled by the
\* timer after the loop's end only.
Paired(r) ==
    /\ rpc[r] = "off" => spc[r] = "off" /\ ~scancel[r]
    /\ rpc[r] \in {"read", "push", "timer"} => spc[r] \in {"recv", "send", "store"} /\ ~scancel[r]

\* A loop that waits for a place in outbuf has a sender that goes on to take
\* from it: what PushCompletes needs besides fairness.
PushHasSender ==
    \A r \in Loop : rpc[r] = "push" => spc[r] \in {"recv", "send", "store"} /\ ~scancel[r]

\* Every step keeps loops and senders in pairs.
LEMMA PairedStep ==
    ASSUME BaseInv, NEW q \in Loop, Paired(q), [Next]_vars
    PROVE  Paired(q)'
<1> USE DEF paneVars, cmdVars, readVars, sendVars, chanVars, handVars, restVars
<1>0. /\ rpc \in [Loop -> {"off", "read", "push", "timer", "done"}]
      /\ spc \in [Loop -> {"off", "recv", "send", "store", "done"}]
      /\ scancel \in [Loop -> BOOLEAN] /\ 1 \in Loop /\ 2 \in Loop
  BY DEF BaseInv, TypeOK, Loop
<1>1. CASE UNCHANGED <<rpc, spc, scancel>>
  BY <1>1 DEF Paired
<1>2. CASE Environment
  BY <1>1, <1>2 DEF Environment, CommandWrites, CommandExits, Mark, HandleAddPane,
                    ClientCloses, OnMessage
<1>3. ASSUME NEW e \in DC, Handler(e) PROVE Paired(q)'
  <2>1. CASE RunRest(e) \/ SecondLoop(e)
    <3>1. /\ RunRest(e) => rpc[1] = "off" /\ StartLoop(1)
          /\ SecondLoop(e) => rpc[2] = "off" /\ StartLoop(2)
      BY DEF RunRest, SecondLoop, BaseInv, HandlerInv
    <3>2. ASSUME NEW r \in Loop, rpc[r] = "off", StartLoop(r) PROVE Paired(q)'
      BY <1>0, <3>2 DEF StartLoop, Paired
    <3> QED BY <1>0, <2>1, <3>1, <3>2
  <2> QED BY <1>1, <1>3, <2>1 DEF Handler, OpenAndRun, Attach, SetHandlers, Reconnect,
                                  RestoreStarts, OnCloseFires, RestoreFires
<1>4. ASSUME NEW r \in Loop, ReadLoop(r) \/ ReadNothing(r) PROVE Paired(q)'
  BY <1>0, <1>4 DEF ReadLoop, ReadChunk, ReadFails, Push, TimerFires, ReadNothing, Paired
<1>5. ASSUME NEW r \in Loop, Sender(r) PROVE Paired(q)'
  BY <1>0, <1>5 DEF Sender, SenderTakes, SenderSends, SenderStores, SenderStops, Paired
<1>6. ASSUME NEW k \in Killer, Kill(k) PROVE Paired(q)'
  BY <1>1, <1>6 DEF Kill, KillSweep, KillFinal
<1>7. CASE UNCHANGED vars
  BY <1>1, <1>7 DEF vars
<1> QED BY <1>2, <1>3, <1>4, <1>5, <1>6, <1>7 DEF Next

\* ReadLoop blocked on a full outbuf (pane.go:199) is never left without a
\* sender, in a pane with one loop or two: its sender ends by a context that is
\* cancelled after the loop only.
THEOREM PushCorrect == Spec => []PushHasSender
<1> DEFINE AllPaired == \A r \in Loop : Paired(r)
<1>1. Init => AllPaired
  BY DEF Init, Paired
<1>2. BaseInv /\ AllPaired /\ [Next]_vars => AllPaired'
  BY PairedStep
<1>3. AllPaired => PushHasSender
  BY DEF Paired, PushHasSender
<1> HIDE DEF AllPaired
<1> QED BY <1>1, <1>2, <1>3, BaseCorrect, PTL DEF Spec

-----------------------------------------------------------------------------
(* What a channel sees of the output *)

\* The chunks that have been sent to the channels attached then.
SentUpTo == Len(stored) + (IF spc[1] = "store" THEN 1 ELSE 0)

\* A channel was sent output.
SawOutput(s) == \E i \in 1..Len(s) : s[i].kind = "live"

\* The last output in s is chunk c.
LastIs(s, c) ==
    \A i \in 1..Len(s) :
        s[i].kind = "live" /\ (\A n \in (i + 1)..Len(s) : s[n].kind # "live")
            => s[i].chunks[1] = c

\* Output in s is consecutive.
GapFree(s) ==
    \A i, j \in 1..Len(s) : Follows(s, i, j) => s[j].chunks[1] = s[i].chunks[1] + 1

\* A channel that is open and has been sent output is still in CDB and in the
\* sender's copy, and has everything that was sent: what deletes its entry,
\* OnClose, Kill or the sender, finds it closed or closes it.
Seeing(d) ==
    /\ GapFree(rx[d])
    /\ hpc[d] \in {"idle", "opening"} => dc[d] = "new"
    /\ dc[d] = "new" => ~SawOutput(rx[d])
    /\ closing[d] # "no" => dc[d] = "closed"
    /\ cdb[d] <= 1 /\ scs[1][d] <= 1
    /\ hpc[d] \in {"idle", "opening", "run", "attach"} => cdb[d] = 0 /\ scs[1][d] = 0
    /\ dc[d] = "open" /\ scs[1][d] = 1 => cdb[d] = 1
    /\ dc[d] = "open" /\ SawOutput(rx[d]) =>
        /\ cdb[d] = 1 /\ (spc[1] = "send" => scs[1][d] = 1)
        /\ LastIs(rx[d], SentUpTo)

SeeingInv ==
    kind[Creator] = "add_pane" => \A d \in DC : kind[d] # "relabel" => Seeing(d)

\* Something else than output is sent: the screen or the history.
LEMMA OtherSent ==
    ASSUME NEW s \in Seq(Message), NEW m \in Message, m.kind # "live",
           NEW t, t = Append(s, m), NEW c
    PROVE  /\ GapFree(s) => GapFree(t)
           /\ SawOutput(t) => SawOutput(s)
           /\ LastIs(s, c) => LastIs(t, c)
<1>1. /\ Len(s) \in Nat /\ Len(t) = Len(s) + 1 /\ t[Len(s) + 1] = m
      /\ \A i \in 1..Len(s) : t[i] = s[i]
  OBVIOUS
<1>2. \A i \in 1..Len(t) : t[i].kind = "live" => i \in 1..Len(s)
  BY <1>1
<1>3. ASSUME GapFree(s), NEW i \in 1..Len(t), NEW j \in 1..Len(t), Follows(t, i, j)
      PROVE t[j].chunks[1] = t[i].chunks[1] + 1
  <2>1. i \in 1..Len(s) /\ j \in 1..Len(s)
    BY <1>2, <1>3 DEF Follows
  <2>2. Follows(s, i, j)
    BY <1>1, <1>3, <2>1 DEF Follows
  <2> QED BY <1>1, <1>3, <2>1, <2>2 DEF GapFree
<1>4. SawOutput(t) => SawOutput(s)
  BY <1>1, <1>2 DEF SawOutput
<1>5. ASSUME LastIs(s, c), NEW i \in 1..Len(t), t[i].kind = "live",
             \A n \in (i + 1)..Len(t) : t[n].kind # "live"
      PROVE t[i].chunks[1] = c
  <2>1. i \in 1..Len(s) /\ s[i].kind = "live" /\ t[i] = s[i]
    BY <1>1, <1>2, <1>5
  <2>2. \A n \in (i + 1)..Len(s) : s[n].kind # "live"
    BY <1>1, <1>5
  <2> QED BY <1>5, <2>1, <2>2 DEF LastIs
<1> QED BY <1>3, <1>4, <1>5 DEF GapFree, LastIs

\* The chunk after the last one is sent.
LEMMA NextSent ==
    ASSUME NEW s \in Seq(Message), NEW c \in Nat, c + 1 \in Chunk,
           NEW t, t = Append(s, Live(c + 1)), GapFree(s), LastIs(s, c)
    PROVE  GapFree(t) /\ LastIs(t, c + 1)
<1> DEFINE m == Live(c + 1)
<1>0. m \in Message /\ m.kind = "live" /\ m.chunks[1] = c + 1
  BY DEF Live, Message, Chunk
<1> HIDE DEF m
<1>1. /\ Len(s) \in Nat /\ Len(t) = Len(s) + 1 /\ t[Len(s) + 1] = m
      /\ \A i \in 1..Len(s) : t[i] = s[i]
  BY <1>0 DEF m
<1>2. ASSUME NEW i \in 1..Len(t), NEW j \in 1..Len(t), Follows(t, i, j)
      PROVE t[j].chunks[1] = t[i].chunks[1] + 1
  <2>1. i < j /\ t[i].kind = "live" /\ \A n \in (i + 1)..(j - 1) : t[n].kind # "live"
    BY <1>2 DEF Follows
  <2>2. CASE j \in 1..Len(s)
    <3>1. i \in 1..Len(s) /\ Follows(s, i, j)
      BY <1>1, <1>2, <2>1, <2>2 DEF Follows
    <3> QED BY <1>1, <2>2, <3>1 DEF GapFree
  <2>3. CASE j = Len(s) + 1
    <3>1. i \in 1..Len(s) /\ s[i].kind = "live" /\ t[i] = s[i]
      BY <1>1, <2>1, <2>3
    <3>2. \A n \in (i + 1)..Len(s) : s[n].kind # "live"
      BY <1>1, <2>1, <2>3
    <3>3. s[i].chunks[1] = c
      BY <3>1, <3>2 DEF LastIs
    <3> QED BY <1>0, <1>1, <2>3, <3>1, <3>3
  <2> QED BY <1>1, <2>2, <2>3
<1>3. ASSUME NEW i \in 1..Len(t), t[i].kind = "live",
             \A n \in (i + 1)..Len(t) : t[n].kind # "live"
      PROVE t[i].chunks[1] = c + 1
  <2>1. i = Len(s) + 1
    <3>1. SUFFICES ASSUME i < Len(s) + 1 PROVE FALSE
      BY <1>1
    <3>2. Len(s) + 1 \in (i + 1)..Len(t)
      BY <1>1, <3>1
    <3> QED BY <1>0, <1>1, <1>3, <3>2
  <2> QED BY <1>0, <1>1, <2>1
<1> QED BY <1>2, <1>3 DEF GapFree, LastIs

\* What is in front stays there.
LEMMA FrontStays ==
    ASSUME NEW S, NEW s \in Seq(S), NEW t \in Seq(S), NEW n \in 1..Len(s)
    PROVE  /\ s \o t \in Seq(S) /\ (s \o t)[n] = s[n]
           /\ n \in 1..Len(s \o t)
OBVIOUS

\* What is put behind comes last.
LEMMA LastOfAppend ==
    ASSUME NEW S, NEW s \in Seq(S), NEW x \in S, NEW b, b = <<x>>
    PROVE  s \o b \in Seq(S) /\ Len(s) + 1 \in 1..Len(s \o b) /\ (s \o b)[Len(s) + 1] = x
OBVIOUS

\* The chunk the sender has in its hands is the one after those stored.
LEMMA SenderHasNext ==
    ASSUME BaseInv, PipeInv, kind[Creator] = "add_pane", spc[1] = "send"
    PROVE  smsg[1] = Len(stored) + 1 /\ Len(stored) \in Nat /\ Len(stored) + 1 \in Chunk
<1>1. /\ stored \in Seq(Chunk) /\ outbuf \in Seq(Chunk) /\ tty \in Seq(Chunk)
      /\ InReader(1) \in Seq(Chunk) /\ InSender(1) = <<smsg[1]>> /\ smsg[1] \in Chunk
  BY PartTypes DEF Loop, InSender, BaseInv, ChunkInv
<1>3. Len(stored) + 1 \in 1..Len(Pipeline) /\ Pipeline[Len(stored) + 1] = smsg[1]
  <2> DEFINE n == Len(stored) + 1
             front == stored \o InSender(1)
             mid == front \o outbuf
             most == mid \o InReader(1)
  <2>1. n \in 1..Len(front) /\ front \in Seq(Chunk) /\ front[n] = smsg[1]
    BY <1>1, LastOfAppend
  <2>2. Pipeline = most \o tty
    BY DEF Pipeline
  <2> HIDE DEF n, front
  <2>3. n \in 1..Len(mid) /\ mid \in Seq(Chunk) /\ mid[n] = smsg[1]
    BY <1>1, <2>1, FrontStays
  <2> HIDE DEF mid
  <2>4. n \in 1..Len(most) /\ most \in Seq(Chunk) /\ most[n] = smsg[1]
    BY <1>1, <2>3, FrontStays
  <2> HIDE DEF most
  <2>5. n \in 1..Len(most \o tty) /\ (most \o tty)[n] = smsg[1]
    BY <1>1, <2>4, FrontStays
  <2> QED BY <2>2, <2>5 DEF n
<1>4. Pipeline = [j \in 1..produced |-> j] /\ produced \in 0..MaxChunks
  BY DEF PipeInv, BaseInv, TypeOK
<1>5. Len(Pipeline) = produced
  <2> DEFINE u == [j \in 1..produced |-> j]
  <2>1. u \in Seq(Nat) /\ produced \in Nat
    BY <1>4
  <2>2. Len(u) = produced
    BY <2>1
  <2> QED BY <1>4, <2>2
<1> QED BY <1>1, <1>3, <1>4, <1>5 DEF Chunk

\* Steps that change nothing of what Seeing(d) is about.
LEMMA SeeingKept ==
    ASSUME NEW d \in DC, Seeing(d), UNCHANGED <<rx[d], hpc[d], dc[d], closing[d], cdb[d],
                                                scs[1][d], spc[1], Len(stored)>>
    PROVE  Seeing(d)'
BY DEF Seeing, SentUpTo

\* A chunk is sent to the channels of the sender's copy (pane.go:225-236).
LEMMA SeeingSends ==
    ASSUME BaseInv, PipeInv, kind[Creator] = "add_pane", NEW d \in DC, Seeing(d), SenderSends(1)
    PROVE  Seeing(d)'
<1> DEFINE c == Len(stored)
<1>0. /\ spc[1] = "send" /\ spc'[1] = "store" /\ UNCHANGED <<stored, dc, closing, hpc>>
      /\ smsg[1] = c + 1 /\ c \in Nat /\ c + 1 \in Chunk
      /\ scs[1][d] \in 0..2 /\ scs'[1][d] = 0 /\ cdb[d] \in 0..2 /\ rx[d] \in Seq(Message)
  <2>1. spc[1] = "send" /\ UNCHANGED <<stored, dc, closing, hpc>>
    BY DEF SenderSends, handVars
  <2>2. smsg[1] = c + 1 /\ c \in Nat /\ c + 1 \in Chunk
    BY <2>1, SenderHasNext
  <2>3. /\ scs \in [Loop -> [DC -> 0..2]] /\ cdb \in [DC -> 0..2] /\ 1 \in Loop
        /\ spc \in [Loop -> {"off", "recv", "send", "store", "done"}] /\ rx \in [DC -> Seq(Message)]
    BY DEF BaseInv, TypeOK, Loop
  <2>4. spc'[1] = "store" /\ scs'[1][d] = 0
    BY <2>3 DEF SenderSends
  <2> QED BY <2>1, <2>2, <2>3, <2>4
<1>1. SentUpTo = c /\ SentUpTo' = c + 1
  BY <1>0 DEF SentUpTo
<1> HIDE DEF c
<1>2. CASE dc[d] # "open"
  <2>1. rx'[d] = rx[d] /\ cdb'[d] \in 0..cdb[d]
    <3>1. Deleted(d, scs[1][d]) \in 0..cdb[d]
      <4>1. TypeOK /\ scs[1][d] \in Nat
        BY <1>0 DEF BaseInv
      <4> QED BY <4>1, DeletedFewer
    <3> QED BY <1>0, <1>2, <3>1 DEF SenderSends
  <2> QED BY <1>0, <1>2, <2>1 DEF Seeing
<1>3. CASE dc[d] = "open"
  <2>1. cdb'[d] = cdb[d] /\ rx'[d] = rx[d] \o [n \in 1..scs[1][d] |-> Live(c + 1)]
    BY <1>0, <1>3 DEF SenderSends
  <2>2. CASE scs[1][d] = 0
    <3>1. rx'[d] = rx[d]
      BY <1>0, <2>1, <2>2
    <3>2. ~SawOutput(rx[d])
      BY <1>0, <1>3, <2>2 DEF Seeing
    <3>3. ~SawOutput(rx'[d]) /\ GapFree(rx'[d])
      BY <3>1, <3>2 DEF Seeing
    <3>4. /\ UNCHANGED <<hpc[d], dc[d], closing[d], cdb[d]>> /\ scs'[1][d] = 0
      BY <1>0, <2>1
    <3> QED BY <1>3, <3>3, <3>4 DEF Seeing
  <2>3. CASE scs[1][d] = 1
    <3>1. Live(c + 1) \in Message
      BY <1>0 DEF Live, Message, Chunk
    <3>2. rx'[d] = Append(rx[d], Live(c + 1))
      BY <1>0, <2>1, <2>3, <3>1
    <3>3. GapFree(rx[d]) /\ cdb[d] = 1
      BY <1>3, <2>3 DEF Seeing
    <3>4. LastIs(rx[d], c)
      <4>1. CASE SawOutput(rx[d])
        BY <1>1, <1>3, <4>1 DEF Seeing
      <4>2. CASE ~SawOutput(rx[d])
        BY <4>2 DEF SawOutput, LastIs
      <4> QED BY <4>1, <4>2
    <3>5. GapFree(rx'[d]) /\ LastIs(rx'[d], c + 1)
      BY <1>0, <3>2, <3>3, <3>4, NextSent
    <3>6. hpc[d] \notin {"idle", "opening", "run", "attach"}
      BY <2>3 DEF Seeing
    <3> QED BY <1>0, <1>1, <1>3, <2>1, <3>3, <3>5, <3>6 DEF Seeing
  <2> QED BY <1>0, <2>2, <2>3 DEF Seeing
<1> QED BY <1>2, <1>3

\* Every step keeps what a channel sees consecutive.
LEMMA SeeingStep ==
    ASSUME BaseInv, PipeInv, SeeingInv, [Next]_vars
    PROVE  SeeingInv'
<1> USE DEF paneVars, cmdVars, readVars, sendVars, chanVars, handVars, restVars
<1> SUFFICES ASSUME kind[Creator] = "add_pane", NEW d \in DC, kind[d] # "relabel"
             PROVE  Seeing(d)'
  BY DEF SeeingInv
<1>0. TypeOK /\ HandlerInv /\ Seeing(d)
  BY DEF BaseInv, SeeingInv
<1>1. hpc[Creator] # "loop2" /\ spc[2] = "off" /\ rpc[2] = "off"
  BY DEF PipeInv
<1>2. /\ rx \in [DC -> Seq(Message)] /\ dc \in [DC -> {"new", "open", "closed"}]
      /\ hpc \in [DC -> {"idle", "opening", "run", "loop2", "attach", "handlers",
                    "reattached", "done"}]
      /\ closing \in [DC -> {"no", "coming", "heard", "missed"}] /\ cdb \in [DC -> 0..2] /\ scs \in [Loop -> [DC -> 0..2]]
      /\ spc \in [Loop -> {"off", "recv", "send", "store", "done"}]
      /\ stored \in Seq(Chunk) /\ 1 \in Loop
  BY <1>0 DEF TypeOK, Chunk, Loop
<1>3. CASE UNCHANGED vars
  BY <1>0, <1>3, SeeingKept DEF vars
<1>4. CASE Environment
  <2>1. CASE CommandWrites \/ CommandExits \/ Mark \/ \E e \in DC : OnMessage(e)
    BY <1>0, <2>1, SeeingKept DEF CommandWrites, CommandExits, Mark, OnMessage
  <2>2. ASSUME NEW e \in DC, HandleAddPane(e) PROVE Seeing(d)'
    BY <1>0, <1>2, <2>2 DEF HandleAddPane, Seeing, SentUpTo
  <2>3. ASSUME NEW e \in DC, ClientCloses(e) PROVE Seeing(d)'
    BY <1>0, <1>2, <2>3 DEF ClientCloses, Seeing, SentUpTo
  <2> QED BY <1>4, <2>1, <2>2, <2>3 DEF Environment
<1>5. ASSUME NEW e \in DC, Handler(e) PROVE Seeing(d)'
  <2>1. CASE OpenAndRun(e)
    BY <1>0, <1>2, <2>1 DEF OpenAndRun, Seeing, SentUpTo
  <2>2. CASE RunRest(e)
    BY <1>0, <1>1, <1>2, <2>2 DEF RunRest, StartLoop, Seeing, SentUpTo, HandlerInv
  <2>3. CASE SecondLoop(e)
    BY <1>0, <1>1, <2>3 DEF SecondLoop, HandlerInv
  <2>4. CASE Attach(e)
    BY <1>0, <1>2, <2>4 DEF Attach, Seeing, SentUpTo
  <2>5. CASE SetHandlers(e)
    BY <1>0, <1>2, <2>5 DEF SetHandlers, Seeing, SentUpTo
  <2>6. CASE Reconnect(e)
    BY <1>0, <1>2, <2>6 DEF Reconnect, Reattach, Refuse, Seeing, SentUpTo
  <2>7. CASE OnCloseFires(e)
    <3>1. Deleted(e, 1) \in 0..cdb[e]
      BY <1>0, DeletedFewer
    <3> QED BY <1>0, <1>2, <2>7, <3>1 DEF OnCloseFires, Seeing, SentUpTo
  <2>8. CASE RestoreFires(e)
    <3>1. /\ UNCHANGED <<hpc, dc, closing, cdb, scs, spc, stored>>
          /\ \/ rx'[d] = rx[d]
             \/ dc[d] = "open" /\ \E m \in Message : m.kind # "live" /\ rx'[d] = Append(rx[d], m)
      <4> DEFINE since == IF markPos = NoMarker THEN 0 ELSE markPos
                 msg == IF restore[e] = "screen" THEN Screen(stored)
                        ELSE History(SubSeq(stored, since + 1, Len(stored)))
      <4>1. since \in Nat /\ Len(stored) \in Nat
        BY <1>0, <1>2 DEF TypeOK
      <4>2. rx' = [rx EXCEPT ![e] = IF dc[e] = "open" THEN Append(@, msg) ELSE @]
        BY <2>8 DEF RestoreFires
      <4> HIDE DEF since
      <4>3. SubSeq(stored, since + 1, Len(stored)) \in Seq(Chunk)
        BY <1>2, <4>1
      <4>4. msg \in Message /\ msg.kind # "live"
        BY <1>2, <4>3 DEF Message, Screen, History, Chunk
      <4> HIDE DEF msg
      <4>5. UNCHANGED <<hpc, dc, closing, cdb, scs, spc, stored>>
        BY <2>8 DEF RestoreFires
      <4> QED BY <1>2, <4>2, <4>4, <4>5
    <3>2. CASE rx'[d] = rx[d]
      BY <1>0, <3>1, <3>2, SeeingKept
    <3>3. ASSUME dc[d] = "open", NEW m \in Message, m.kind # "live", rx'[d] = Append(rx[d], m)
          PROVE Seeing(d)'
      <4>1. rx[d] \in Seq(Message) /\ SentUpTo' = SentUpTo
        BY <1>2, <3>1 DEF SentUpTo
      <4>2. /\ GapFree(rx[d]) => GapFree(rx'[d])
            /\ SawOutput(rx'[d]) => SawOutput(rx[d])
            /\ LastIs(rx[d], SentUpTo) => LastIs(rx'[d], SentUpTo)
        BY <3>3, <4>1, OtherSent
      <4> QED BY <1>0, <3>1, <3>3, <4>1, <4>2 DEF Seeing
    <3> QED BY <3>1, <3>2, <3>3
  <2>9. CASE RestoreStarts(e)
    BY <1>0, <1>2, <2>9 DEF RestoreStarts, Seeing, SentUpTo
  <2> QED BY <1>5, <2>1, <2>2, <2>3, <2>4, <2>5, <2>6, <2>7, <2>8, <2>9 DEF Handler
<1>6. ASSUME NEW r \in Loop, ReadLoop(r) \/ ReadNothing(r) PROVE Seeing(d)'
  BY <1>0, <1>6, SeeingKept DEF ReadLoop, ReadChunk, ReadFails, Push, TimerFires, ReadNothing
<1>7. ASSUME NEW r \in Loop, Sender(r) PROVE Seeing(d)'
  <2>1. r = 1
    BY <1>1, <1>7 DEF Sender, SenderTakes, SenderSends, SenderStores, SenderStops, Loop
  <2>2. CASE SenderTakes(1)
    BY <1>0, <1>2, <2>2 DEF SenderTakes, Seeing, SentUpTo
  <2>3. CASE SenderSends(1)
    BY <1>0, <2>3, SeeingSends
  <2>4. CASE SenderStores(1)
    BY <1>0, <1>2, <2>4 DEF SenderStores, Seeing, SentUpTo
  <2>5. CASE SenderStops(1)
    BY <1>0, <1>2, <2>5 DEF SenderStops, Seeing, SentUpTo
  <2> QED BY <1>7, <2>1, <2>2, <2>3, <2>4, <2>5 DEF Sender
<1>8. ASSUME NEW k \in Killer, Kill(k) PROVE Seeing(d)'
  BY <1>0, <1>2, <1>8 DEF Kill, KillSweep, KillFinal, Seeing, SentUpTo
<1> QED BY <1>3, <1>4, <1>5, <1>6, <1>7, <1>8 DEF Next

\* What a channel sees is as Seeing says at any time.
LEMMA SeeingCorrect == Spec => []SeeingInv
<1>1. Init => SeeingInv
  BY DEF Init, SeeingInv, Seeing, GapFree, SawOutput, Loop
<1>2. BaseInv /\ PipeInv /\ SeeingInv /\ [Next]_vars => SeeingInv'
  BY SeeingStep
<1> QED BY <1>1, <1>2, BaseCorrect, PipeCorrect, PTL DEF Spec

\* NoGapNoRepeat: in a pane of add_pane, a channel that add_pane or
\* reconnect_pane attached is sent consecutive chunks, none twice, from its first
\* to its last (pane.go:222-236, clients_db.go).
THEOREM NoGapCorrect == Spec => []NoGapNoRepeat
<1>1. SeeingInv => NoGapNoRepeat
  BY DEF SeeingInv, Seeing, GapFree, NoGapNoRepeat
<1> QED BY <1>1, SeeingCorrect, PTL

-----------------------------------------------------------------------------
(* What a restore finds *)

\* A channel that waits for Restore's timer is attached as long as it is open.
Waiting(d) ==
    /\ hpc[d] \in {"idle", "opening"} => restore[d] = "none"
    /\ hpc[d] = "reattached" /\ dc[d] = "open" => cdb[d] > 0
    /\ restore[d] # "none" /\ dc[d] = "open" => cdb[d] > 0

\* The marker is a place in what is stored.
MarkerStored == markPos <= Len(stored)

RestInv ==
    /\ MarkerStored
    /\ kind[Creator] = "add_pane" => \A d \in Reader : Waiting(d)

\* Every step keeps the marker within what is stored.
LEMMA MarkerStep ==
    ASSUME BaseInv, MarkerStored, [Next]_vars
    PROVE  MarkerStored'
<1> USE DEF paneVars, cmdVars, readVars, sendVars, chanVars, handVars, restVars
<1>0. /\ stored \in Seq(Chunk) /\ Len(stored) \in Nat /\ markPos \in {NoMarker} \cup 0..MaxChunks
      /\ NoMarker = -1 /\ MaxChunks \in Nat
  BY BoundsAssumption DEF BaseInv, TypeOK, Chunk, NoMarker
<1>1. CASE UNCHANGED <<markPos, stored>>
  BY <1>1 DEF MarkerStored
<1>2. CASE Mark
  BY <1>0, <1>2 DEF Mark, MarkerStored
<1>3. ASSUME NEW d \in DC, RestoreFires(d) PROVE MarkerStored'
  <2>1. stored' = stored /\ markPos' \in {markPos, NoMarker}
    BY <1>3 DEF RestoreFires
  <2> QED BY <1>0, <2>1 DEF MarkerStored
<1>4. ASSUME NEW r \in Loop, SenderStores(r) PROVE MarkerStored'
  <2>1. markPos' = markPos /\ Len(stored') = Len(stored) + 1
    <3>1. markPos' = markPos /\ stored' = Append(stored, smsg[r])
      BY <1>4 DEF SenderStores
    <3> QED BY <1>0, <3>1
  <2> QED BY <1>0, <2>1 DEF MarkerStored
<1>5. CASE Environment
  BY <1>1, <1>2, <1>5
     DEF Environment, CommandWrites, CommandExits, HandleAddPane, ClientCloses, OnMessage
<1>6. ASSUME NEW d \in DC, Handler(d) PROVE MarkerStored'
  BY <1>1, <1>3, <1>6
     DEF Handler, OpenAndRun, RunRest, SecondLoop, Attach, SetHandlers, Reconnect,
         RestoreStarts, OnCloseFires
<1>7. ASSUME NEW r \in Loop, ReadLoop(r) \/ ReadNothing(r) PROVE MarkerStored'
  BY <1>1, <1>7 DEF ReadLoop, ReadChunk, ReadFails, Push, TimerFires, ReadNothing
<1>8. ASSUME NEW r \in Loop, Sender(r) PROVE MarkerStored'
  BY <1>1, <1>4, <1>8 DEF Sender, SenderTakes, SenderSends, SenderStops
<1>9. ASSUME NEW k \in Killer, Kill(k) PROVE MarkerStored'
  BY <1>1, <1>9 DEF Kill, KillSweep, KillFinal
<1>10. CASE UNCHANGED vars
  BY <1>1, <1>10 DEF vars
<1> QED BY <1>5, <1>6, <1>7, <1>8, <1>9, <1>10 DEF Next

\* Every step keeps a channel that waits attached.
LEMMA WaitingStep ==
    ASSUME BaseInv, kind[Creator] = "add_pane", NEW d \in DC, Seeing(d), Waiting(d), [Next]_vars
    PROVE  Waiting(d)'
<1> USE DEF paneVars, cmdVars, readVars, sendVars, chanVars, handVars, restVars
<1>0. /\ dc \in [DC -> {"new", "open", "closed"}]
      /\ hpc \in [DC -> {"idle", "opening", "run", "loop2", "attach", "handlers",
                    "reattached", "done"}]
      /\ restore \in [DC -> {"none", "screen", "history", "done"}]
      /\ closing \in [DC -> {"no", "coming", "heard", "missed"}] /\ cdb \in [DC -> 0..2]
  BY DEF BaseInv, TypeOK
<1>1. CASE UNCHANGED <<hpc, restore, dc, cdb>>
  BY <1>1 DEF Waiting
<1>2. CASE Environment
  BY <1>0, <1>1, <1>2 DEF Environment, CommandWrites, CommandExits, Mark, HandleAddPane,
                          ClientCloses, OnMessage, Waiting
<1>3. ASSUME NEW e \in DC, Handler(e) PROVE Waiting(d)'
  <2>1. CASE OpenAndRun(e)
    BY <1>0, <2>1 DEF OpenAndRun, Waiting
  <2>2. CASE RunRest(e) \/ SecondLoop(e) \/ SetHandlers(e)
    BY <1>0, <2>2 DEF RunRest, SecondLoop, SetHandlers, Waiting
  <2>3. CASE Attach(e)
    BY <1>0, <2>3 DEF Attach, Waiting
  <2>4. CASE Reconnect(e)
    BY <1>0, <2>4 DEF Reconnect, Reattach, Refuse, Waiting
  <2>5. CASE OnCloseFires(e)
    <3>1. e = d => dc[d] # "open"
      BY <2>5 DEF OnCloseFires, Seeing
    <3>2. UNCHANGED <<hpc, restore, dc>> /\ (e # d => cdb'[d] = cdb[d])
      BY <1>0, <2>5 DEF OnCloseFires
    <3> QED BY <3>1, <3>2 DEF Waiting
  <2>6. CASE RestoreFires(e)
    BY <1>0, <2>6 DEF RestoreFires, Waiting
  <2>7. CASE RestoreStarts(e)
    BY <1>0, <2>7 DEF RestoreStarts, Waiting
  <2> QED BY <1>3, <2>1, <2>2, <2>3, <2>4, <2>5, <2>6, <2>7 DEF Handler
<1>4. ASSUME NEW r \in Loop, ReadLoop(r) \/ ReadNothing(r) PROVE Waiting(d)'
  BY <1>1, <1>4 DEF ReadLoop, ReadChunk, ReadFails, Push, TimerFires, ReadNothing
<1>5. ASSUME NEW r \in Loop, Sender(r) PROVE Waiting(d)'
  <2>1. CASE SenderSends(r)
    BY <1>0, <2>1 DEF SenderSends, Waiting
  <2> QED BY <1>1, <1>5, <2>1 DEF Sender, SenderTakes, SenderStores, SenderStops
<1>6. ASSUME NEW k \in Killer, Kill(k) PROVE Waiting(d)'
  BY <1>0, <1>6 DEF Kill, KillSweep, KillFinal, Waiting
<1>7. CASE UNCHANGED vars
  BY <1>1, <1>7 DEF vars
<1> QED BY <1>2, <1>3, <1>4, <1>5, <1>6, <1>7 DEF Next

\* What a restore needs holds at any time.
LEMMA RestCorrect == Spec => []RestInv
<1>1. Init => RestInv
  BY DEF Init, RestInv, MarkerStored, NoMarker, Waiting, Reader
<1>2. BaseInv /\ SeeingInv /\ RestInv /\ [Next]_vars => RestInv'
  BY MarkerStep, WaitingStep DEF RestInv, SeeingInv, Reader
<1> QED BY <1>1, <1>2, BaseCorrect, SeeingCorrect, PTL DEF Spec

-----------------------------------------------------------------------------
(* Refinement *)

\* What is stored is the first of the output, and a chunk in outbuf is not in it.
LEMMA StoredFirst ==
    ASSUME BaseInv, PipeInv, kind[Creator] = "add_pane"
    PROVE  /\ Len(stored) \in Nat /\ DOMAIN stored = 1..Len(stored)
           /\ \A i \in 1..Len(stored) : stored[i] = i
           /\ outbuf # <<>> => Len(stored) < produced
<1>1. /\ stored \in Seq(Chunk) /\ outbuf \in Seq(Chunk) /\ tty \in Seq(Chunk)
      /\ InReader(1) \in Seq(Chunk) /\ InSender(1) \in Seq(Chunk)
  BY PartTypes DEF Loop
<1>2. ASSUME NEW n \in 1..Len(stored) PROVE n \in 1..Len(Pipeline) /\ Pipeline[n] = stored[n]
  <2> DEFINE front == stored \o InSender(1)
             mid == front \o outbuf
             most == mid \o InReader(1)
  <2>1. n \in 1..Len(front) /\ front \in Seq(Chunk) /\ front[n] = stored[n]
    BY <1>1, FrontStays
  <2>2. Pipeline = most \o tty
    BY DEF Pipeline
  <2> HIDE DEF front
  <2>3. n \in 1..Len(mid) /\ mid \in Seq(Chunk) /\ mid[n] = stored[n]
    BY <1>1, <2>1, FrontStays
  <2> HIDE DEF mid
  <2>4. n \in 1..Len(most) /\ most \in Seq(Chunk) /\ most[n] = stored[n]
    BY <1>1, <2>3, FrontStays
  <2> HIDE DEF most
  <2>5. n \in 1..Len(most \o tty) /\ (most \o tty)[n] = stored[n]
    BY <1>1, <2>4, FrontStays
  <2> QED BY <2>2, <2>5
<1>3. Pipeline = [j \in 1..produced |-> j] /\ produced \in 0..MaxChunks
  BY DEF PipeInv, BaseInv, TypeOK
<1>4. Len(Pipeline) = produced
  <2> DEFINE u == [j \in 1..produced |-> j]
  <2>1. u \in Seq(Nat) /\ produced \in Nat
    BY <1>3
  <2>2. Len(u) = produced
    BY <2>1
  <2> QED BY <1>3, <2>2
<1>5. \A i \in 1..Len(stored) : stored[i] = i
  BY <1>2, <1>3, <1>4
<1>6. outbuf # <<>> => Len(stored) < produced
  <2>1. Held(1) \in Nat /\ Held(2) \in Nat
    BY HeldSmall DEF Loop
  <2>2. Len(stored) \in Nat /\ Len(tty) \in Nat /\ (outbuf # <<>> => Len(outbuf) \in Nat \ {0})
    BY <1>1
  <2>3. Len(stored) + Len(outbuf) + Len(tty) + Held(1) + Held(2) = produced
    BY DEF BaseInv, CountInv
  <2> QED BY <2>1, <2>2, <2>3
<1> QED BY <1>1, <1>5, <1>6

\* A channel is in the sender's copy of the chunk's readers.
Listed(d) == dc[d] = "open" /\ scs[1][d] > 0

\* Steps that only close channels, or change nothing of the feed.
LEMMA FeedLeaves ==
    ASSUME UNCHANGED <<produced, stored, FeedStep, rx>>,
           \A d \in Reader : /\ Phase(d)' = Phase(d) \/ Phase(d)' = "left"
                             /\ Listed(d)' <=> Listed(d) /\ Phase(d)' # "left"
    PROVE  Promise!Leave
<1> DEFINE gone == {d \in Reader : Phase(d)' = "left"}
           phase == [d \in Reader |-> Phase(d)]
           phaseNext == [d \in Reader |-> Phase(d)']
           Left == [d \in Reader |-> IF d \in gone THEN "left" ELSE phase[d]]
<1>1. gone \in SUBSET Reader
  OBVIOUS
<1>2. phaseNext = Left
  OBVIOUS
<1>3. FeedTo' = FeedTo \ gone
  BY DEF FeedTo, Listed, Phase
<1>4. Reader' = Reader
  BY DEF Reader
<1> QED BY <1>1, <1>2, <1>3, <1>4 DEF Promise!Leave

\* A channel is attached: it is sent nothing before the next chunk is taken.
LEMMA FeedAttaches ==
    ASSUME UNCHANGED <<produced, stored, FeedStep, rx>>, NEW e \in Reader,
           Phase(e) = "out", Phase(e)' = "attached",
           \A d \in Reader : /\ d # e => Phase(d)' = Phase(d)
                             /\ Listed(d)' <=> Listed(d)
    PROVE  Promise!Attach(e)
<1> DEFINE phase == [d \in Reader |-> Phase(d)]
           phaseNext == [d \in Reader |-> Phase(d)']
<1>1. phaseNext = [phase EXCEPT ![e] = "attached"] /\ phase[e] = "out"
  OBVIOUS
<1>2. FeedTo' = FeedTo
  BY DEF FeedTo, Listed
<1>3. Reader' = Reader
  BY DEF Reader
<1> QED BY <1>1, <1>2, <1>3 DEF Promise!Attach

\* The steps of clients, handlers and Kill that a channel attaches or leaves by,
\* or that the feed does not see.
LEMMA FeedChannels ==
    ASSUME BaseInv, PipeInv, kind[Creator] = "add_pane", \A d \in Reader : Seeing(d),
           \/ CommandExits \/ Mark
           \/ \E e \in DC : HandleAddPane(e) \/ ClientCloses(e) \/ OnMessage(e)
           \/ \E e \in DC : OpenAndRun(e) \/ RunRest(e) \/ SecondLoop(e) \/ SetHandlers(e)
           \/ \E e \in DC : Attach(e) \/ Reconnect(e) \/ RestoreStarts(e) \/ OnCloseFires(e)
           \/ \E k \in Killer : Kill(k)
    PROVE  Promise!Leave \/ \E e \in Reader : Promise!Attach(e)
<1> USE DEF paneVars, cmdVars, readVars, sendVars, chanVars, handVars, restVars
<1>1. /\ dc \in [DC -> {"new", "open", "closed"}] /\ cdb \in [DC -> 0..2]
      /\ scs \in [Loop -> [DC -> 0..2]] /\ 1 \in Loop
      /\ spc \in [Loop -> {"off", "recv", "send", "store", "done"}]
  BY DEF BaseInv, TypeOK, Loop
<1>2. hpc[Creator] # "loop2" /\ Reader \subseteq DC
  BY DEF PipeInv, Reader
<1>3. CASE \/ CommandExits \/ Mark
           \/ \E e \in DC : HandleAddPane(e) \/ OnMessage(e) \/ SetHandlers(e) \/ RestoreStarts(e)
  <2>1. UNCHANGED <<produced, stored, spc, scs, rx, dc, cdb>>
    BY <1>3 DEF CommandExits, Mark, HandleAddPane, OnMessage, SetHandlers, RestoreStarts
  <2> QED BY <2>1, FeedLeaves DEF Phase, Listed, FeedStep
<1>4. ASSUME NEW e \in DC, ClientCloses(e) PROVE Promise!Leave
  <2>1. UNCHANGED <<produced, stored, spc, scs, rx, cdb>>
    BY <1>4 DEF ClientCloses
  <2>2. \A d \in Reader : dc'[d] \in {dc[d], "closed"}
    BY <1>1, <1>2, <1>4 DEF ClientCloses
  <2> QED BY <2>1, <2>2, FeedLeaves DEF Phase, Listed, FeedStep
<1>5. ASSUME NEW e \in DC, OpenAndRun(e) PROVE Promise!Leave
  <2>1. UNCHANGED <<produced, stored, spc, scs, rx, cdb>>
    BY <1>5 DEF OpenAndRun
  <2>2. ASSUME NEW d \in Reader
        PROVE  dc'[d] = dc[d] \/ (dc[d] = "new" /\ dc'[d] = "open" /\ cdb[d] = 0 /\ scs[1][d] = 0)
    BY <1>1, <1>2, <1>5 DEF OpenAndRun, Seeing
  <2> QED BY <2>1, <2>2, FeedLeaves DEF Phase, Listed, FeedStep
<1>6. ASSUME NEW e \in DC, RunRest(e) PROVE Promise!Leave
  <2>1. UNCHANGED <<produced, stored, scs, rx, cdb, dc>>
    BY <1>6 DEF RunRest, StartLoop
  <2>2. hpc[Creator] = "run"
    BY <1>6 DEF RunRest, BaseInv, HandlerInv
  <2>3. spc[1] = "off" /\ spc'[1] = "recv"
    BY <1>1, <1>6, <2>2 DEF RunRest, StartLoop, BaseInv, HandlerInv
  <2>4. FeedStep' = FeedStep
    BY <2>3 DEF FeedStep
  <2> QED BY <2>1, <2>4, FeedLeaves DEF Phase, Listed
<1>7. ASSUME NEW e \in DC, SecondLoop(e) PROVE FALSE
  BY <1>2, <1>7 DEF SecondLoop, BaseInv, HandlerInv
<1>8. ASSUME NEW e \in DC, Attach(e)
      PROVE  Promise!Leave \/ \E d \in Reader : Promise!Attach(d)
  <2>1. UNCHANGED <<produced, stored, spc, scs, rx, dc>> /\ cdb' = [cdb EXCEPT ![e] = @ + 1]
    BY <1>8 DEF Attach
  <2>2. CASE e \in Reader /\ dc[e] = "open"
    <3>1. cdb[e] = 0 /\ cdb'[e] = 1
      BY <1>1, <1>8, <2>1, <2>2 DEF Attach, Seeing
    <3>2. Phase(e) = "out" /\ Phase(e)' = "attached"
      BY <2>1, <2>2, <3>1 DEF Phase
    <3>3. \A d \in Reader : d # e => Phase(d)' = Phase(d)
      BY <1>1, <1>2, <2>1 DEF Phase
    <3> QED BY <2>1, <2>2, <3>2, <3>3, FeedAttaches DEF Listed, FeedStep
  <2>3. CASE ~(e \in Reader /\ dc[e] = "open")
    <3>1. \A d \in Reader : Phase(d)' = Phase(d)
      BY <1>1, <1>2, <2>1, <2>3 DEF Phase
    <3>2. \A d \in Reader : Listed(d) => Phase(d) # "left"
      BY DEF Listed, Phase
    <3>3. \A d \in Reader : Listed(d)' <=> Listed(d)
      BY <2>1 DEF Listed
    <3> QED BY <2>1, <3>1, <3>2, <3>3, FeedLeaves DEF FeedStep
  <2> QED BY <2>2, <2>3
<1>9. ASSUME NEW e \in DC, Reconnect(e)
      PROVE  Promise!Leave \/ \E d \in Reader : Promise!Attach(d)
  <2>1. UNCHANGED <<produced, stored, spc, scs, rx>> /\ (\A d \in DC : d # e => UNCHANGED <<dc[d], cdb[d]>>)
    BY <1>1, <1>9 DEF Reconnect, Reattach, Refuse
  <2>2. e \in Reader => dc[e] = "new" /\ cdb[e] = 0 /\ scs[1][e] = 0
    BY <1>9 DEF Reconnect, Seeing
  <2>3. \A d \in Reader : d # e => Phase(d)' = Phase(d)
    BY <1>2, <2>1 DEF Phase
  <2>4. CASE e \in Reader /\ Reattach(e)
    <3>1. dc'[e] = "open" /\ cdb'[e] = 1
      BY <1>1, <2>2, <2>4 DEF Reattach
    <3>2. Phase(e) = "out" /\ Phase(e)' = "attached"
      BY <2>2, <2>4, <3>1 DEF Phase
    <3>3. \A d \in Reader : Listed(d)' <=> Listed(d)
      BY <1>2, <2>1, <2>2, <2>4 DEF Listed
    <3> QED BY <2>1, <2>3, <2>4, <3>2, <3>3, FeedAttaches DEF FeedStep
  <2>5. CASE e \in Reader /\ Refuse(e)
    <3>1. dc'[e] \in {"open", "closed"} /\ cdb'[e] = 0
      BY <1>1, <2>2, <2>5 DEF Refuse
    <3>2. \A d \in Reader : Phase(d)' = Phase(d) \/ Phase(d)' = "left"
      BY <2>2, <2>3, <2>5, <3>1 DEF Phase
    <3>3. \A d \in Reader : Listed(d)' <=> Listed(d) /\ Phase(d)' # "left"
      BY <1>2, <2>1, <2>2, <2>5 DEF Listed, Phase
    <3> QED BY <2>1, <3>2, <3>3, FeedLeaves DEF FeedStep
  <2>6. CASE e \notin Reader
    <3>1. \A d \in Reader : UNCHANGED <<dc[d], cdb[d]>>
      BY <1>2, <2>1, <2>6
    <3> QED BY <2>1, <3>1, FeedLeaves DEF Phase, Listed, FeedStep
  <2> QED BY <1>9, <2>4, <2>5, <2>6 DEF Reconnect
<1>10. ASSUME NEW e \in DC, OnCloseFires(e) PROVE Promise!Leave
  <2>1. UNCHANGED <<produced, stored, spc, scs, rx, dc>>
    BY <1>10 DEF OnCloseFires
  <2>2. \A d \in Reader : dc[d] = "closed" \/ cdb'[d] = cdb[d]
    BY <1>1, <1>2, <1>10 DEF OnCloseFires, Seeing
  <2> QED BY <2>1, <2>2, FeedLeaves DEF Phase, Listed, FeedStep
<1>11. ASSUME NEW k \in Killer, Kill(k) PROVE Promise!Leave
  <2>1. UNCHANGED <<produced, stored, spc, scs, rx>>
    BY <1>11 DEF Kill, KillSweep, KillFinal
  <2>2. \A d \in Reader : dc'[d] = "closed" \/ UNCHANGED <<dc[d], cdb[d]>>
    BY <1>1, <1>2, <1>11 DEF Kill, KillSweep, KillFinal
  <2> QED BY <2>1, <2>2, FeedLeaves DEF Phase, Listed, FeedStep
<1> QED BY <1>3, <1>4, <1>5, <1>6, <1>7, <1>8, <1>9, <1>10, <1>11

\* The sender's steps take, send and keep a chunk.
LEMMA FeedSender ==
    ASSUME BaseInv, PipeInv, kind[Creator] = "add_pane", \A d \in Reader : Seeing(d), Sender(1)
    PROVE  Promise!Take \/ Promise!Send \/ Promise!Keep \/ Promise!Leave
<1> USE DEF paneVars, cmdVars, readVars, sendVars, chanVars, handVars, restVars
<1>1. /\ dc \in [DC -> {"new", "open", "closed"}] /\ cdb \in [DC -> 0..2]
      /\ scs \in [Loop -> [DC -> 0..2]] /\ 1 \in Loop
      /\ spc \in [Loop -> {"off", "recv", "send", "store", "done"}]
      /\ rx \in [DC -> Seq(Message)] /\ stored \in Seq(Chunk)
  BY DEF BaseInv, TypeOK, Loop, Chunk
<1>2. Reader \subseteq DC /\ Reader' = Reader
  BY DEF Reader
<1> DEFINE phase == [d \in Reader |-> Phase(d)]
           seen == [d \in Reader |-> rx[d]]
<1>3. CASE SenderTakes(1)
  <2>1. /\ spc[1] = "recv" /\ spc'[1] = "send" /\ outbuf # <<>> /\ scs'[1] = cdb
        /\ UNCHANGED <<produced, stored, dc, cdb, rx>>
    BY <1>1, <1>3 DEF SenderTakes
  <2>2. FeedStep = "none" /\ FeedStep' = "taken"
    BY <2>1 DEF FeedStep
  <2>3. Len(stored) < produced
    BY <2>1, StoredFirst
  <2>4. FeedTo' = {d \in Reader : phase[d] = "attached"}
    BY <1>2, <2>1 DEF FeedTo, Phase
  <2>5. phase' = phase /\ seen' = seen
    BY <1>2, <2>1 DEF Phase
  <2> QED BY <2>1, <2>2, <2>3, <2>4, <2>5 DEF Promise!Take
<1>4. CASE SenderSends(1)
  <2>1. /\ spc[1] = "send" /\ spc'[1] = "store" /\ UNCHANGED <<produced, stored, dc>>
        /\ \A d \in DC : scs'[1][d] = 0 /\ (dc[d] = "open" => cdb'[d] = cdb[d])
    BY <1>1, <1>4 DEF SenderSends
  <2>2. FeedStep = "taken" /\ FeedStep' = "sent"
    BY <2>1 DEF FeedStep
  <2>3. FeedTo' = {}
    BY <1>2, <2>1 DEF FeedTo
  <2>4. phase' = phase
    <3>1. \A d \in Reader : Phase(d)' = Phase(d)
      BY <1>2, <2>1 DEF Phase
    <3> QED BY <1>2, <3>1
  <2>5. smsg[1] = Len(stored) + 1 /\ Len(stored) + 1 \in Chunk
    BY <2>1, SenderHasNext
  <2>6. Promise!Output(Len(stored) + 1) = Live(smsg[1]) /\ Live(smsg[1]) \in Message
    BY <2>5 DEF Promise!Output, Live, Message, Chunk
  <2>7. ASSUME NEW d \in Reader
        PROVE  rx'[d] = IF d \in FeedTo THEN Append(rx[d], Live(smsg[1])) ELSE rx[d]
    <3>1. CASE dc[d] # "open"
      BY <1>2, <1>4, <3>1 DEF SenderSends, FeedTo
    <3>2. CASE dc[d] = "open"
      <4>1. scs[1][d] \in {0, 1} /\ (d \in FeedTo <=> scs[1][d] = 1)
        BY <1>1, <1>2, <3>2 DEF Seeing, FeedTo
      <4>2. rx'[d] = rx[d] \o [n \in 1..scs[1][d] |-> Live(smsg[1])] /\ rx[d] \in Seq(Message)
        BY <1>1, <1>2, <1>4, <3>2 DEF SenderSends
      <4>3. CASE scs[1][d] = 0
        BY <4>1, <4>2, <4>3
      <4>4. CASE scs[1][d] = 1
        <5>1. rx[d] \o [n \in 1..1 |-> Live(smsg[1])] = Append(rx[d], Live(smsg[1]))
          BY <2>6, <4>2
        <5> QED BY <4>1, <4>2, <4>4, <5>1
      <4> QED BY <4>1, <4>3, <4>4
    <3> QED BY <3>1, <3>2
  <2>8. seen' = [d \in Reader |-> IF d \in FeedTo
                                 THEN Append(seen[d], Promise!Output(Len(stored) + 1)) ELSE seen[d]]
    BY <1>2, <2>6, <2>7
  <2> QED BY <2>1, <2>2, <2>3, <2>4, <2>8 DEF Promise!Send
<1>5. CASE SenderStores(1)
  <2>1. /\ spc[1] = "store" /\ spc'[1] = "recv" /\ UNCHANGED <<produced, dc, cdb, rx, scs>>
        /\ stored' = Append(stored, smsg[1])
    BY <1>1, <1>5 DEF SenderStores
  <2>2. FeedStep = "sent" /\ FeedStep' = "none"
    BY <2>1 DEF FeedStep
  <2>3. Len(stored') = Len(stored) + 1
    BY <1>1, <2>1
  <2>4. FeedTo' = FeedTo
    BY <1>2, <2>1 DEF FeedTo
  <2>5. phase' = phase /\ seen' = seen
    BY <1>2, <2>1 DEF Phase
  <2> QED BY <2>1, <2>2, <2>3, <2>4, <2>5 DEF Promise!Keep
<1>6. CASE SenderStops(1)
  <2>1. /\ spc[1] = "recv" /\ spc'[1] = "done" /\ UNCHANGED <<produced, dc, cdb, rx, scs, stored>>
    BY <1>1, <1>6 DEF SenderStops
  <2>2. FeedStep' = FeedStep
    BY <2>1 DEF FeedStep
  <2> QED BY <2>1, <2>2, FeedLeaves DEF Phase, Listed
<1> QED BY <1>3, <1>4, <1>5, <1>6 DEF Sender

\* Restore's timer sends a tail of what is kept, or is not seen by the feed.
LEMMA FeedRestores ==
    ASSUME BaseInv, PipeInv, RestInv, kind[Creator] = "add_pane", NEW e \in DC, RestoreFires(e)
    PROVE  UNCHANGED Promise!vars \/ \E d \in Reader : Promise!Restore(d)
<1> USE DEF paneVars, cmdVars, readVars, sendVars, chanVars, handVars, restVars
<1> DEFINE since == IF markPos = NoMarker THEN 0 ELSE markPos
           msg == IF restore[e] = "screen" THEN Screen(stored)
                  ELSE History(SubSeq(stored, since + 1, Len(stored)))
           phase == [d \in Reader |-> Phase(d)]
           seen == [d \in Reader |-> rx[d]]
           n == Len(stored)
<1>1. /\ rx' = [rx EXCEPT ![e] = IF dc[e] = "open" THEN Append(@, msg) ELSE @]
      /\ UNCHANGED <<produced, stored, spc, scs, dc, cdb>>
      /\ restore[e] \in {"screen", "history"}
  BY DEF RestoreFires
<1>2. /\ Reader \subseteq DC /\ Reader' = Reader /\ rx \in [DC -> Seq(Message)]
      /\ markPos \in {NoMarker} \cup 0..MaxChunks /\ stored \in Seq(Chunk)
  BY DEF Reader, BaseInv, TypeOK, Chunk
<1>3. n \in Nat /\ DOMAIN stored = 1..n /\ \A i \in 1..n : stored[i] = i
  BY StoredFirst
<1>4. since \in 0..n
  BY <1>2, <1>3 DEF RestInv, MarkerStored, NoMarker
<1>5. stored = [i \in 1..(n - 0) |-> 0 + i]
  <2>1. stored = [i \in 1..n |-> stored[i]]
    BY <1>2, <1>3
  <2> QED BY <1>3, <2>1
<1>6. SubSeq(stored, since + 1, n) = [i \in 1..(n - since) |-> since + i]
  <2> HIDE DEF since, n
  <2>1. SubSeq(stored, since + 1, n) = [i \in 1..(n - (since + 1) + 1) |-> stored[since + 1 + i - 1]]
    BY <1>2, <1>3, <1>4
  <2>2. n - (since + 1) + 1 = n - since
    BY <1>3, <1>4
  <2>3. \A i \in 1..(n - since) : stored[since + 1 + i - 1] = since + i
    BY <1>3, <1>4
  <2> QED BY <2>1, <2>2, <2>3
<1>7. /\ restore[e] = "screen" => msg = Promise!Past("screen", 0)
      /\ restore[e] = "history" => msg = Promise!Past("history", since)
  <2> HIDE DEF since
  <2> QED BY <1>5, <1>6 DEF Screen, History, Promise!Past
<1>8. UNCHANGED <<FeedStep, FeedTo, phase>>
  BY <1>1, <1>2 DEF FeedStep, FeedTo, Phase
<1> HIDE DEF msg, since
<1>9. CASE e \in Reader /\ dc[e] = "open"
  <2>1. phase[e] = "attached"
    BY <1>1, <1>9 DEF RestInv, Waiting, Phase
  <2>2. seen' = [seen EXCEPT ![e] = Append(@, msg)]
    BY <1>1, <1>2, <1>9
  <2>3. \/ seen' = [seen EXCEPT ![e] = Append(@, Promise!Past("screen", 0))]
        \/ \E j \in 0..n : seen' = [seen EXCEPT ![e] = Append(@, Promise!Past("history", j))]
    BY <1>1, <1>4, <1>7, <2>2
  <2> QED BY <1>1, <1>8, <1>9, <2>1, <2>3 DEF Promise!Restore
<1>10. CASE ~(e \in Reader /\ dc[e] = "open")
  <2>1. seen' = seen
    BY <1>1, <1>2, <1>10
  <2> QED BY <1>1, <1>8, <2>1 DEF Promise!vars
<1> QED BY <1>9, <1>10

\* Every step of the pane is a step of the feed or is not seen by it.
LEMMA FeedSteps ==
    ASSUME BaseInv, PipeInv, SeeingInv, RestInv, kind[Creator] = "add_pane", [Next]_vars
    PROVE  [Promise!Next]_(Promise!vars)
<1> USE DEF paneVars, cmdVars, readVars, sendVars, chanVars, handVars, restVars
<1>1. \A d \in Reader : Seeing(d)
  BY DEF SeeingInv, Reader
<1>2. CASE UNCHANGED <<produced, stored, spc, scs, dc, cdb, rx>>
  BY <1>2, FeedLeaves DEF Phase, Listed, FeedStep, Promise!Next
<1>3. CASE CommandWrites
  <2>1. produced' = produced + 1 /\ UNCHANGED <<stored, spc, scs, dc, cdb, rx>>
    BY <1>3 DEF CommandWrites
  <2>2. UNCHANGED <<FeedStep, FeedTo, [d \in Reader |-> Phase(d)], [d \in Reader |-> rx[d]]>>
    BY <2>1 DEF FeedStep, FeedTo, Phase, Reader
  <2> QED BY <2>1, <2>2 DEF Promise!Write, Promise!Next
<1>4. CASE Environment
  BY <1>1, <1>3, <1>4, FeedChannels DEF Environment, Promise!Next
<1>5. ASSUME NEW e \in DC, Handler(e) PROVE [Promise!Next]_(Promise!vars)
  <2>1. CASE RestoreFires(e)
    BY <2>1, FeedRestores DEF Promise!Next
  <2>2. CASE ~RestoreFires(e)
    BY <1>1, <1>5, <2>2, FeedChannels DEF Handler, Promise!Next
  <2> QED BY <2>1, <2>2
<1>6. ASSUME NEW r \in Loop, ReadLoop(r) \/ ReadNothing(r) PROVE [Promise!Next]_(Promise!vars)
  BY <1>2, <1>6 DEF ReadLoop, ReadChunk, ReadFails, Push, TimerFires, ReadNothing
<1>7. ASSUME NEW r \in Loop, Sender(r) PROVE [Promise!Next]_(Promise!vars)
  <2>1. spc[2] = "off"
    BY DEF PipeInv
  <2>2. r = 1
    BY <1>7, <2>1 DEF Sender, SenderTakes, SenderSends, SenderStores, SenderStops, Loop
  <2> QED BY <1>1, <1>7, <2>2, FeedSender DEF Promise!Next
<1>8. ASSUME NEW k \in Killer, Kill(k) PROVE [Promise!Next]_(Promise!vars)
  BY <1>1, <1>8, FeedChannels DEF Promise!Next
<1>9. CASE UNCHANGED vars
  BY <1>2, <1>9 DEF vars
<1> QED BY <1>4, <1>5, <1>6, <1>7, <1>8, <1>9 DEF Next

\* FeedSpec: a pane of add_pane implements the feed (pane.go:163-273,
\* clients_db.go, peer.go:349-372).  Every chunk goes once, and in order, to each
\* channel that is attached when the sender takes it and open when it is sent,
\* whatever attaches, closes or kills in between, and a restore answers with
\* the chunks kept by then, without a gap.
THEOREM ImplementsFeed ==
    ASSUME kind[Creator] = "add_pane"
    PROVE  Spec => FeedSpec
<1>1. Init => Promise!Init
  BY DEF Init, Promise!Init, FeedStep, FeedTo, Phase, Reader, Loop
<1>2. BaseInv /\ PipeInv /\ SeeingInv /\ RestInv /\ [Next]_vars => [Promise!Next]_(Promise!vars)
  BY FeedSteps
<1> QED BY <1>1, <1>2, BaseCorrect, PipeCorrect, SeeingCorrect, RestCorrect, PTL
        DEF Spec, FeedSpec, Promise!Spec
=============================================================================
