--------------------------------- MODULE Pane ---------------------------------
(***************************************************************************)
(* One pane: the goroutines that carry a command's output from its tty to  *)
(* the data channels attached to it, the ways a channel is attached        *)
(* (add_pane, a label that names a command, reconnect_pane, a label        *)
(* ">id"), mark and restore, and how a pane is killed.                     *)
(* Sources: src/peers/pane.go, src/peers/clients_db.go, OnChannelReq,      *)
(* GetOrCreatePane and Reconnect of src/peers/peer.go, handleMark,         *)
(* handleRestore, handleReconnectPane and handleAddPane of src/handlers.go.*)
(*                                                                         *)
(* Chunks of output are numbered in the order the command writes them.     *)
(* The ring buffer of the pane is the sequence of the chunks stored in it: *)
(* that it answers a live marker with exactly the bytes since the mark is  *)
(* proved of Buffer.  Locks are not variables: each step below is one      *)
(* locked section or the code between two of them.                         *)
(***************************************************************************)
EXTENDS Integers, Sequences

CONSTANTS DC,         \* the data channels the clients open
          Creator,    \* the one whose request makes the pane
          kind,       \* how each channel is opened
          OutBufSize, \* capacity of pane.outbuf
          MaxChunks,  \* bound: how many chunks the command writes
          MaxMark     \* bound: marks are set while less than this is stored

ASSUME OutBufAssumption == OutBufSize \in Nat \ {0}
ASSUME BoundsAssumption == MaxChunks \in Nat /\ MaxMark \in Nat

\* ReadLoop 1 is started by Run, ReadLoop 2 by GetOrCreatePane; each starts
\* a sender of its own.
Loop == {1, 2}
\* Who calls Kill: the timer of a ReadLoop, or OnMessage of some channel.
\* Concurrent calls of OnMessage count as one: a second sweep finds nothing.
Client == 3
Killer == Loop \cup {Client}

CreatorKind == {"add_pane", "label"}
VisitorKind == {"reconnect_pane", "relabel"}

ASSUME KindAssumption ==
    /\ Creator \in DC
    /\ kind \in [DC -> CreatorKind \cup VisitorKind]
    /\ \A d \in DC : kind[d] \in CreatorKind <=> d = Creator

NoMarker == -1

VARIABLES
    exists,    \* the pane is in Panes
    running,   \* pane.IsRunning
    ctxDone,   \* pane.ctx is cancelled
    ttyState,  \* pane.TTY: "nil", "open" or "closed"
    tty,       \* chunks written by the command and not read yet
    produced,  \* how many chunks the command wrote
    exited,    \* the command is over
    rpc,       \* where each ReadLoop is
    rchunk,    \* the chunk it has read
    outbuf,    \* pane.outbuf
    scancel,   \* each sender's context is cancelled
    spc,       \* where each sender is
    smsg,      \* the chunk it is sending
    scs,       \* its cs: the entries of CDB it is sending the chunk to
    stored,    \* the chunks in pane.Buffer and on pane.vt
    cdb,       \* how many entries CDB has for the channel and this pane
    dc,        \* the channel: "new", "open" or "closed"
    closing,   \* its close event: "no", "coming", then "heard" or "missed"
    hpc,       \* where the channel's OnOpen handler is
    handled,   \* its OnMessage and OnClose handlers are set
    restore,   \* its timer of Restore: "none", "screen", "history" or "done"
    rx,        \* what was sent over it
    markPos,   \* the marker in pane.Buffer: Len(stored) then, NoMarker if none
    kpc        \* where each caller of Kill is

paneVars == <<exists, running, ctxDone, ttyState>>
cmdVars  == <<tty, produced, exited>>
readVars == <<rpc, rchunk>>
sendVars == <<scancel, spc, smsg, scs>>
chanVars == <<cdb, dc, closing>>
handVars == <<hpc, handled>>
restVars == <<restore, markPos>>
vars == <<exists, running, ctxDone, ttyState, tty, produced, exited, rpc, rchunk,
          outbuf, scancel, spc, smsg, scs, stored, cdb, dc, closing, hpc, handled,
          restore, rx, markPos, kpc>>

Init ==
    /\ exists = FALSE /\ running = FALSE /\ ctxDone = FALSE /\ ttyState = "nil"
    /\ tty = <<>> /\ produced = 0 /\ exited = FALSE
    /\ rpc = [r \in Loop |-> "off"] /\ rchunk = [r \in Loop |-> 0]
    /\ outbuf = <<>>
    /\ scancel = [r \in Loop |-> FALSE] /\ spc = [r \in Loop |-> "off"]
    /\ smsg = [r \in Loop |-> 0] /\ scs = [r \in Loop |-> [d \in DC |-> 0]]
    /\ stored = <<>>
    /\ cdb = [d \in DC |-> 0] /\ dc = [d \in DC |-> "new"]
    /\ closing = [d \in DC |-> "no"]
    /\ hpc = [d \in DC |-> "idle"]
    /\ handled = [d \in DC |-> FALSE]
    /\ restore = [d \in DC |-> "none"] /\ rx = [d \in DC |-> <<>>]
    /\ markPos = NoMarker
    /\ kpc = [k \in Killer |-> "off"]

Live(c) == [kind |-> "live", chunks |-> <<c>>]
History(s) == [kind |-> "history", chunks |-> s]
Screen(s) == [kind |-> "screen", chunks |-> s]

-----------------------------------------------------------------------------
(* The command *)

CommandWrites ==
    /\ ttyState = "open" /\ ~exited /\ produced < MaxChunks
    /\ produced' = produced + 1
    /\ tty' = Append(tty, produced')
    /\ UNCHANGED <<paneVars, exited, readVars, outbuf, sendVars, stored, chanVars,
                   handVars, restVars, rx, kpc>>

\* The command, and whatever else has the tty open, is over.
CommandExits ==
    /\ ttyState = "open" /\ ~exited
    /\ exited' = TRUE
    /\ UNCHANGED <<paneVars, tty, produced, readVars, outbuf, sendVars, stored,
                   chanVars, handVars, restVars, rx, kpc>>

-----------------------------------------------------------------------------
(* Opening channels *)

\* handleAddPane up to the creation of the channel: the pane exists.
HandleAddPane(d) ==
    /\ hpc[d] = "idle" /\ kind[d] = "add_pane"
    /\ exists' = TRUE
    /\ hpc' = [hpc EXCEPT ![d] = "opening"]
    /\ UNCHANGED <<running, ctxDone, ttyState, cmdVars, readVars, outbuf, sendVars,
                   stored, chanVars, handled, restVars, rx, kpc>>

\* OnOpen of a channel that brings its own command, up to the point where Run
\* has a process and says the pane is running.  Run may fail: handleAddPane
\* goes on as if it had not, a label channel gets the error and nothing else.
OpenAndRun(d) ==
    /\ <<kind[d], hpc[d]>> \in {<<"add_pane", "opening">>, <<"label", "idle">>}
    /\ dc' = [dc EXCEPT ![d] = "open"]
    /\ exists' = TRUE
    /\ \/ /\ running' = TRUE
          /\ hpc' = [hpc EXCEPT ![d] = "run"]
       \/ /\ running' = running
          /\ hpc' = [hpc EXCEPT ![d] = IF kind[d] = "add_pane" THEN "attach" ELSE "done"]
    /\ UNCHANGED <<ctxDone, ttyState, cmdVars, readVars, outbuf, sendVars, stored, cdb,
                   closing, handled, restVars, rx, kpc>>

\* ReadLoop(r) is started; the first thing it does is to start its sender.
StartLoop(r) ==
    /\ rpc' = [rpc EXCEPT ![r] = "read"]
    /\ spc' = [spc EXCEPT ![r] = "recv"]
    /\ UNCHANGED <<rchunk, scancel, smsg, scs>>

\* The rest of Run.
RunRest(d) ==
    /\ hpc[d] = "run"
    /\ ttyState' = "open"
    /\ StartLoop(1)
    /\ hpc' = [hpc EXCEPT ![d] = IF kind[d] = "add_pane" THEN "attach" ELSE "loop2"]
    /\ UNCHANGED <<exists, running, ctxDone, cmdVars, outbuf, stored, chanVars,
                   handled, restVars, rx, kpc>>

\* GetOrCreatePane starts a ReadLoop although Run already has.
SecondLoop(d) ==
    /\ hpc[d] = "loop2"
    /\ StartLoop(2)
    /\ hpc' = [hpc EXCEPT ![d] = "attach"]
    /\ UNCHANGED <<paneVars, cmdVars, outbuf, stored, chanVars, handled,
                   restVars, rx, kpc>>

\* CDB.Add of handleAddPane and of OnChannelReq.
Attach(d) ==
    /\ hpc[d] = "attach"
    /\ cdb' = [cdb EXCEPT ![d] = @ + 1]
    /\ hpc' = [hpc EXCEPT ![d] = "handlers"]
    /\ UNCHANGED <<paneVars, cmdVars, readVars, outbuf, sendVars, stored, dc, closing,
                   handled, restVars, rx, kpc>>

\* ... and what follows it: the ack, OnMessage and OnClose.
SetHandlers(d) ==
    /\ hpc[d] = "handlers"
    /\ handled' = [handled EXCEPT ![d] = TRUE]
    /\ hpc' = [hpc EXCEPT ![d] = "done"]
    /\ UNCHANGED <<paneVars, cmdVars, readVars, outbuf, sendVars, stored, chanVars,
                   restVars, rx, kpc>>

\* Slip: OnClose is set before the entry is there.
ReattachHeardFirst(d) ==
    /\ running
    /\ dc' = [dc EXCEPT ![d] = "open"]
    /\ handled' = [handled EXCEPT ![d] = TRUE]
    /\ hpc' = [hpc EXCEPT ![d] = "attach"]
    /\ UNCHANGED <<cdb, closing>>

\* Reconnect attaches the channel.
Reattach(d) ==
    /\ running
    /\ dc' = [dc EXCEPT ![d] = "open"]
    /\ cdb' = [cdb EXCEPT ![d] = @ + 1]
    /\ hpc' = [hpc EXCEPT ![d] = "reattached"]
    /\ UNCHANGED <<closing, handled>>

\* Reconnect refuses: there is no such pane, or it is not running and the
\* channel is closed.
Refuse(d) ==
    /\ ~running
    /\ dc' = [dc EXCEPT ![d] = IF exists THEN "closed" ELSE "open"]
    /\ closing' = [closing EXCEPT ![d] = IF exists THEN "coming" ELSE @]
    /\ hpc' = [hpc EXCEPT ![d] = "done"]
    /\ UNCHANGED <<cdb, handled>>

\* No Reconnect is between its two steps: it holds the pane's lock there.
Unlocked == \A d \in DC : hpc[d] # "reattached"

\* OnOpen of a channel that reconnects.
Reconnect(d) ==
    /\ hpc[d] = "idle" /\ kind[d] \in VisitorKind /\ Unlocked
    /\ Reattach(d) \/ Refuse(d)
    /\ UNCHANGED <<paneVars, cmdVars, readVars, outbuf, sendVars, stored, restVars,
                   rx, kpc>>

\* Slip: the caller registers the channel again, whatever its label.
RestoreStartsTwice(d) ==
    /\ hpc[d] = "reattached"
    /\ handled' = [handled EXCEPT ![d] = TRUE]
    /\ \E what \in {"screen", "history"} : restore' = [restore EXCEPT ![d] = what]
    /\ hpc' = [hpc EXCEPT ![d] = "attach"]
    /\ UNCHANGED <<paneVars, cmdVars, readVars, outbuf, sendVars, stored, chanVars,
                   markPos, rx, kpc>>

\* ... then it sets OnMessage and OnClose and starts the timer of Restore.
\* Whether peer.Marker is set then is up to the client: a new peer has none,
\* mark and restore messages set it (handleMark, handleRestore).
RestoreStarts(d) ==
    /\ hpc[d] = "reattached"
    /\ handled' = [handled EXCEPT ![d] = TRUE]
    /\ \E what \in {"screen", "history"} : restore' = [restore EXCEPT ![d] = what]
    /\ hpc' = [hpc EXCEPT ![d] = IF kind[d] = "relabel" THEN "attach" ELSE "done"]
    /\ UNCHANGED <<paneVars, cmdVars, readVars, outbuf, sendVars, stored, chanVars,
                   markPos, rx, kpc>>

-----------------------------------------------------------------------------
(* The channels' own events *)

ClientCloses(d) ==
    /\ dc[d] = "open"
    /\ dc' = [dc EXCEPT ![d] = "closed"]
    /\ closing' = [closing EXCEPT ![d] = "coming"]
    /\ UNCHANGED <<paneVars, cmdVars, readVars, outbuf, sendVars, stored, cdb,
                   handVars, restVars, rx, kpc>>

\* Slip: an entry is taken for granted.
DeletedUnseen(d, n) == cdb[d] - n

\* What n calls of ClientsDB.Delete leave: each removes one entry of the
\* channel, if there is one (dc.ID() is a pointer, so equal for one channel
\* only).
Deleted(d, n) == IF n < cdb[d] THEN cdb[d] - n ELSE 0

\* The close event is delivered, to the handler if one is set by then: one
\* that is set later never hears of it.
OnCloseFires(d) ==
    /\ closing[d] = "coming"
    /\ closing' = [closing EXCEPT ![d] = IF handled[d] THEN "heard" ELSE "missed"]
    /\ cdb' = IF handled[d] THEN [cdb EXCEPT ![d] = Deleted(d, 1)] ELSE cdb
    /\ UNCHANGED <<paneVars, cmdVars, readVars, outbuf, sendVars, stored, dc,
                   handVars, restVars, rx, kpc>>

\* Pane.OnMessage writes to the tty.  A closed tty is an error that the code
\* may recognise, and kill the pane, or only log (os.ErrClosed comes wrapped
\* from a file): then nothing changes.  With no tty at all the write is a nil
\* dereference, which ends the agent and with it the pane.
OnMessage(d) ==
    /\ dc[d] = "open" /\ handled[d] /\ kpc[Client] = "off"
    /\ ttyState = "closed"
    /\ kpc' = [kpc EXCEPT ![Client] = "sweep"]
    /\ UNCHANGED <<paneVars, cmdVars, readVars, outbuf, sendVars, stored, chanVars,
                   handVars, restVars, rx>>

-----------------------------------------------------------------------------
(* ReadLoop *)

ReadChunk(r) ==
    /\ rpc[r] = "read" /\ ttyState = "open" /\ tty # <<>>
    /\ rchunk' = [rchunk EXCEPT ![r] = Head(tty)]
    /\ tty' = Tail(tty)
    /\ rpc' = [rpc EXCEPT ![r] = "push"]
    /\ UNCHANGED <<paneVars, produced, exited, outbuf, sendVars, stored, chanVars,
                   handVars, restVars, rx, kpc>>

\* Reads of no bytes and no error: fewer than four in a row change nothing,
\* the fourth ends the loop.
ReadNothing(r) ==
    /\ rpc[r] = "read" /\ ttyState = "open"
    /\ rpc' = [rpc EXCEPT ![r] = "timer"]
    /\ UNCHANGED <<paneVars, cmdVars, rchunk, outbuf, sendVars, stored, chanVars,
                   handVars, restVars, rx, kpc>>

\* EOF or an error: the command is over and its output read, or Kill has
\* closed the tty (and cancelled the context the top of the loop looks at).
ReadFails(r) ==
    /\ rpc[r] = "read"
    /\ ttyState = "closed" \/ (exited /\ tty = <<>>)
    /\ rpc' = [rpc EXCEPT ![r] = "timer"]
    /\ UNCHANGED <<paneVars, cmdVars, rchunk, outbuf, sendVars, stored,
                   chanVars, handVars, restVars, rx, kpc>>

Push(r) ==
    /\ rpc[r] = "push" /\ Len(outbuf) < OutBufSize
    /\ outbuf' = Append(outbuf, rchunk[r])
    /\ rchunk' = [rchunk EXCEPT ![r] = 0]
    /\ rpc' = [rpc EXCEPT ![r] = "read"]
    /\ UNCHANGED <<paneVars, cmdVars, sendVars, stored, chanVars,
                   handVars, restVars, rx, kpc>>

\* Slips: the pane is not killed; one context is shared by the senders.
TimerFiresNoKill(r) ==
    /\ rpc[r] = "timer"
    /\ rpc' = [rpc EXCEPT ![r] = "done"]
    /\ scancel' = [scancel EXCEPT ![r] = TRUE]
    /\ UNCHANGED <<paneVars, cmdVars, rchunk, outbuf, spc, smsg, scs, stored,
                   chanVars, handVars, restVars, rx, kpc>>
TimerFiresSharedContext(r) ==
    /\ rpc[r] = "timer"
    /\ rpc' = [rpc EXCEPT ![r] = "done"]
    /\ scancel' = [q \in Loop |-> TRUE]
    /\ kpc' = [kpc EXCEPT ![r] = "sweep"]
    /\ UNCHANGED <<paneVars, cmdVars, rchunk, outbuf, spc, smsg, scs, stored,
                   chanVars, handVars, restVars, rx>>

\* 100ms after the loop ended: stop its sender, whatever outbuf still holds,
\* and kill the pane.
TimerFires(r) ==
    /\ rpc[r] = "timer"
    /\ rpc' = [rpc EXCEPT ![r] = "done"]
    /\ scancel' = [scancel EXCEPT ![r] = TRUE]
    /\ kpc' = [kpc EXCEPT ![r] = "sweep"]
    /\ UNCHANGED <<paneVars, cmdVars, rchunk, outbuf, spc, smsg, scs, stored,
                   chanVars, handVars, restVars, rx>>

-----------------------------------------------------------------------------
(* The sender *)

\* A chunk is taken, and with All4Pane a copy of the pane's entries.
SenderTakes(r) ==
    /\ spc[r] = "recv" /\ outbuf # <<>>
    /\ smsg' = [smsg EXCEPT ![r] = Head(outbuf)]
    /\ scs' = [scs EXCEPT ![r] = cdb]
    /\ outbuf' = Tail(outbuf)
    /\ spc' = [spc EXCEPT ![r] = "send"]
    /\ UNCHANGED <<paneVars, cmdVars, readVars, scancel, stored, chanVars, handVars,
                   restVars, rx, kpc>>

\* Slip: the first entry whose channel is not open ends the loop over cs.
SenderSendsUntilClosed(r) ==
    /\ spc[r] = "send"
    /\ rx' = [d \in DC |-> IF \A e \in DC : scs[r][e] > 0 => dc[e] = "open"
                           THEN rx[d] \o [n \in 1..scs[r][d] |-> Live(smsg[r])]
                           ELSE rx[d]]
    /\ cdb' = [d \in DC |-> IF dc[d] = "open" THEN cdb[d] ELSE Deleted(d, scs[r][d])]
    /\ scs' = [scs EXCEPT ![r] = [d \in DC |-> 0]]
    /\ spc' = [spc EXCEPT ![r] = "store"]
    /\ UNCHANGED <<paneVars, cmdVars, readVars, outbuf, scancel, smsg, stored, dc,
                   closing, handVars, restVars, kpc>>

\* The chunk goes to every entry of the copy: once per entry, so twice to a
\* channel that is there twice.  Entries of a channel that is not open are
\* deleted, if CDB still has them.  The loop is one step: what it does to one
\* channel touches no other, and a Send that fails on an open channel, which the
\* code only logs, is that of a channel closed just before.
SenderSends(r) ==
    /\ spc[r] = "send"
    /\ rx' = [d \in DC |-> IF dc[d] = "open"
                           THEN rx[d] \o [n \in 1..scs[r][d] |-> Live(smsg[r])]
                           ELSE rx[d]]
    /\ cdb' = [d \in DC |-> IF dc[d] = "open" THEN cdb[d] ELSE Deleted(d, scs[r][d])]
    /\ scs' = [scs EXCEPT ![r] = [d \in DC |-> 0]]
    /\ spc' = [spc EXCEPT ![r] = "store"]
    /\ UNCHANGED <<paneVars, cmdVars, readVars, outbuf, scancel, smsg, stored, dc,
                   closing, handVars, restVars, kpc>>

\* vt.Write and Buffer.Add.
SenderStores(r) ==
    /\ spc[r] = "store"
    /\ stored' = Append(stored, smsg[r])
    /\ smsg' = [smsg EXCEPT ![r] = 0]
    /\ spc' = [spc EXCEPT ![r] = "recv"]
    /\ UNCHANGED <<paneVars, cmdVars, readVars, outbuf, scancel, scs, chanVars,
                   handVars, restVars, rx, kpc>>

\* Slip: the context is looked at between taking a chunk and sending it.
SenderStopsWithChunk(r) ==
    /\ spc[r] \in {"recv", "send"} /\ scancel[r]
    /\ spc' = [spc EXCEPT ![r] = "done"]
    /\ UNCHANGED <<paneVars, cmdVars, readVars, outbuf, scancel, smsg, scs, stored,
                   chanVars, handVars, restVars, rx, kpc>>

SenderStops(r) ==
    /\ spc[r] = "recv" /\ scancel[r]
    /\ spc' = [spc EXCEPT ![r] = "done"]
    /\ UNCHANGED <<paneVars, cmdVars, readVars, outbuf, scancel, smsg, scs, stored,
                   chanVars, handVars, restVars, rx, kpc>>

-----------------------------------------------------------------------------
(* Kill *)

\* The first half, without the pane's lock: close and forget the channels CDB
\* holds for the pane.
KillSweep(k) ==
    /\ kpc[k] = "sweep"
    /\ dc' = [d \in DC |-> IF cdb[d] > 0 THEN "closed" ELSE dc[d]]
    /\ closing' = [d \in DC |-> IF cdb[d] > 0 /\ dc[d] = "open" THEN "coming" ELSE closing[d]]
    /\ cdb' = [d \in DC |-> 0]
    /\ kpc' = [kpc EXCEPT ![k] = "final"]
    /\ UNCHANGED <<paneVars, cmdVars, readVars, outbuf, sendVars, stored, handVars,
                   restVars, rx>>

\* The second half, under the lock.
KillFinal(k) ==
    /\ kpc[k] = "final" /\ Unlocked
    /\ ctxDone' = (ctxDone \/ running)
    /\ exited' = (exited \/ running)
    /\ running' = FALSE
    /\ ttyState' = IF ttyState = "nil" THEN "nil" ELSE "closed"
    /\ kpc' = [kpc EXCEPT ![k] = "off"]
    /\ UNCHANGED <<exists, tty, produced, readVars, outbuf, sendVars, stored,
                   chanVars, handVars, restVars, rx>>

-----------------------------------------------------------------------------
(* Mark and restore *)

\* handleMark: the buffer is marked; the output goes on.  Bound: one marker is
\* out at a time.
Mark ==
    /\ exists /\ markPos = NoMarker /\ Len(stored) < MaxMark
    /\ markPos' = Len(stored)
    /\ UNCHANGED <<paneVars, cmdVars, readVars, outbuf, sendVars, stored, chanVars,
                   handVars, restore, rx, kpc>>

\* Restore's timer, 100ms after the channel was attached: send the screen, or
\* what the buffer holds since the marker.  A marker is used once: after that
\* the buffer answers from its slot 0.
RestoreFires(d) ==
    /\ restore[d] \in {"screen", "history"}
    /\ LET since == IF markPos = NoMarker THEN 0 ELSE markPos
           msg == IF restore[d] = "screen" THEN Screen(stored)
                  ELSE History(SubSeq(stored, since + 1, Len(stored)))
       IN  rx' = [rx EXCEPT ![d] = IF dc[d] = "open" THEN Append(@, msg) ELSE @]
    /\ markPos' = IF restore[d] = "history" THEN NoMarker ELSE markPos
    /\ restore' = [restore EXCEPT ![d] = "done"]
    /\ UNCHANGED <<paneVars, cmdVars, readVars, outbuf, sendVars, stored, chanVars,
                   handVars, kpc>>

-----------------------------------------------------------------------------

Environment ==
    \/ CommandWrites
    \/ CommandExits
    \/ Mark
    \/ \E d \in DC : HandleAddPane(d) \/ ClientCloses(d) \/ OnMessage(d)

Handler(d) == \/ OpenAndRun(d)
              \/ RunRest(d)
              \/ SecondLoop(d)
              \/ Attach(d)
              \/ SetHandlers(d)
              \/ Reconnect(d)
              \/ RestoreStarts(d)
              \/ OnCloseFires(d)
              \/ RestoreFires(d)

ReadLoop(r) == \/ ReadChunk(r)
               \/ ReadFails(r)
               \/ Push(r)
               \/ TimerFires(r)

Sender(r) == \/ SenderTakes(r)
             \/ SenderSends(r)
             \/ SenderStores(r)
             \/ SenderStops(r)

Kill(k) == KillSweep(k) \/ KillFinal(k)

Next == \/ Environment
        \/ \E d \in DC : Handler(d)
        \/ \E r \in Loop : ReadLoop(r) \/ ReadNothing(r) \/ Sender(r)
        \/ \E k \in Killer : Kill(k)

Spec == Init /\ [][Next]_vars

\* Goroutines that can run do run, and timers fire.  What the command and the
\* clients do is up to them.
Fairness == /\ \A d \in DC : WF_vars(Handler(d))
            /\ \A r \in Loop : WF_vars(ReadLoop(r)) /\ WF_vars(Sender(r))
            /\ \A k \in Killer : WF_vars(Kill(k))

FairSpec == Spec /\ Fairness

-----------------------------------------------------------------------------
(* Properties *)

Message == [kind : {"live", "history", "screen"}, chunks : Seq(1..MaxChunks)]

TypeOK ==
    /\ exists \in BOOLEAN /\ running \in BOOLEAN /\ ctxDone \in BOOLEAN
    /\ ttyState \in {"nil", "open", "closed"}
    /\ tty \in Seq(1..MaxChunks) /\ produced \in 0..MaxChunks /\ exited \in BOOLEAN
    /\ rpc \in [Loop -> {"off", "read", "push", "timer", "done"}]
    /\ rchunk \in [Loop -> 0..MaxChunks]
    /\ outbuf \in Seq(1..MaxChunks) /\ Len(outbuf) <= OutBufSize
    /\ scancel \in [Loop -> BOOLEAN]
    /\ spc \in [Loop -> {"off", "recv", "send", "store", "done"}]
    /\ smsg \in [Loop -> 0..MaxChunks] /\ scs \in [Loop -> [DC -> 0..2]]
    /\ stored \in Seq(1..MaxChunks)
    /\ cdb \in [DC -> 0..2] /\ dc \in [DC -> {"new", "open", "closed"}]
    /\ closing \in [DC -> {"no", "coming", "heard", "missed"}]
    /\ hpc \in [DC -> {"idle", "opening", "run", "loop2", "attach", "handlers",
                       "reattached", "done"}]
    /\ handled \in [DC -> BOOLEAN]
    /\ restore \in [DC -> {"none", "screen", "history", "done"}]
    /\ rx \in [DC -> Seq(Message)]
    /\ markPos \in {NoMarker} \cup 0..MaxChunks
    /\ kpc \in [Killer -> {"off", "sweep", "final"}]

\* The chunk a sender, and a ReadLoop, has in its hands.
InSender(r) == IF spc[r] \in {"send", "store"} THEN <<smsg[r]>> ELSE <<>>
InReader(r) == IF rpc[r] = "push" THEN <<rchunk[r]>> ELSE <<>>

\* Every chunk the command wrote, from the oldest on, wherever it is.
Pipeline == stored \o InSender(1) \o outbuf \o InReader(1) \o tty

\* ReadLoop and sender (pane.go:163-244) of a pane opened by add_pane: at any
\* moment, and through Kill, what was stored, what is in flight and what is
\* unread are together the command's output, in order, none lost or repeated.
PipelineInOrder ==
    kind[Creator] = "add_pane" => Pipeline = [j \in 1..produced |-> j]

\* Message j of s is the first chunk of output that was sent after message i.
Follows(s, i, j) ==
    /\ i < j /\ s[i].kind = "live" /\ s[j].kind = "live"
    /\ \A n \in (i + 1)..(j - 1) : s[n].kind # "live"

\* sender and ClientsDB (pane.go:222-236, clients_db.go): a channel attached
\* by add_pane or reconnect_pane sees consecutive chunks from the first it
\* sees to the last, whatever attaches, detaches and closes meanwhile.
NoGapNoRepeat ==
    kind[Creator] = "add_pane" =>
        \A d \in DC : kind[d] # "relabel" =>
            \A i, j \in 1..Len(rx[d]) :
                Follows(rx[d], i, j) => rx[d][j].chunks[1] = rx[d][i].chunks[1] + 1

\* What a pane opened by add_pane promises its channels, except one with the
\* label ">id", which is registered twice: the feed's variables, read off the
\* pane's.
Reader == {d \in DC : kind[d] # "relabel"}
FeedStep == CASE spc[1] = "send" -> "taken" [] spc[1] = "store" -> "sent" [] OTHER -> "none"
FeedTo == {d \in Reader : dc[d] = "open" /\ scs[1][d] > 0}
Phase(d) == IF dc[d] = "closed" THEN "left"
            ELSE IF dc[d] = "open" /\ cdb[d] > 0 THEN "attached"
            ELSE "out"
Promise == INSTANCE Feed WITH
    written <- produced, kept <- Len(stored), step <- FeedStep, to <- FeedTo,
    phase <- [d \in Reader |-> Phase(d)], seen <- [d \in Reader |-> rx[d]]

\* sender, Restore, Kill and ClientsDB (pane.go:210-273, clients_db.go,
\* peer.go:349-372): the pane implements the feed.  No channel that is open and
\* attached when a chunk is taken misses it, whatever is closed, attached or
\* killed before it is sent, and a restore sends the chunks kept by then
\* without a gap.  That goes for the channels of a client that has sent mark
\* too, where docs/api.md:113-114 says its output stops (see Feed).
FeedSpec == Promise!Spec

\* OnClose, Kill's sweep and the sender's clean-up all delete entries of CDB
\* (handlers.go:192, peer.go:226, 363, pane.go:233, 254), while a Reconnect or an
\* add_pane is still between CDB.Add and OnClose: whoever comes first, a close
\* event that OnClose hears leaves no entry of the channel behind, then or
\* later.  An event that comes before OnClose is set does (see README).
HeardCloseForgotten == \A d \in Reader : closing[d] = "heard" => cdb[d] = 0

\* ReadLoop's end, its timer and Kill (pane.go:178-207, 247-272): once the
\* command is over the pane stops running and its tty is closed, also when
\* outbuf is full and when two loops and a client kill it at once.
ExitEndsPane == exited ~> (~running /\ ttyState = "closed")

\* ReadLoop blocked on a full outbuf (pane.go:199) is always released: its
\* sender outlives it.
PushCompletes == \A r \in Loop : rpc[r] = "push" ~> rpc[r] # "push"

-----------------------------------------------------------------------------
(* What the documents say and the code does not do *)

\* docs/api.md:123-124: "new channels the client reconnects to will first be
\* send all ithe output since the marker was received".  A channel that waits
\* for the history since a marker the buffer holds has been sent nothing.
HistoryComesFirst ==
    \A d \in DC : restore[d] = "history" /\ markPos # NoMarker => rx[d] = <<>>
=============================================================================
