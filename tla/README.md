# A TLA+ verification of webexec

webexec is an agent that runs commands on a host, each in a pseudo terminal (a
*pane*), and carries their input and output over WebRTC data channels. Clients
come and go: a channel may be attached to a pane, lost and attached again, and
what was written meanwhile is kept in a ring buffer. Clients get their connection
through a unix socket (and ssh), an HTTP server or the peerbook service. This
project models the parts of the code that carry state from one event to the
next, checks them with TLC on small instances and proves their safety with
TLAPS for every value of the constants.

## 1. The system

| Component | Sources | State | Operations | Works with |
|---|---|---|---|---|
| Output buffer | `peers/buffer.go` | ring, end, markers, a lock | `Add`, `Mark`, `GetSinceMarker` | the pane's sender adds, the control channel marks, Restore's timer reads |
| Pane | `peers/pane.go` | command, tty, `IsRunning`, `outbuf`, screen, context | `NewPane`, `Run`, `ReadLoop`, `sender`, `Kill`, `OnMessage`, `Resize`, `Restore` | sends to the channels the clients database holds for it |
| Clients database | `peers/clients_db.go` | entries (channel, pane, peer) | `Add`, `All4Pane`, `All4Peer`, `Delete` | shared by every handler, sender and Kill |
| Panes database | `peers/panes_db.go` | id to pane | `Add`, `All`, `Get`, `Delete` | |
| Peer | `peers/peer.go` | peer connection, control channel, `acks`, `LastRef`, `Marker`, pending candidates | `NewPeer`, `Listen`, `OnChannelReq`, `GetOrCreatePane`, `Reconnect`, `SendControlMessageAndWait`, `handleAck`, `handleNack`, `AddCandidate`, `Broadcast`, `Close` | one per client connection, in the global `Peers` |
| Command handlers | `handlers.go` | last marker, payload | add_pane, reconnect_pane, resize, restore, mark, get/set_payload | called by the control channel's reader |
| Agent life cycle | `webexec.go`, `pidfile/` | the pid file, the process, the socket | start, stop, restart, status, accept | several processes share one file |
| Socket server | `sock.go`, `accept` in `webexec.go` | live offers and their candidates | offer (POST, PUT, GET and a timer), layout, clipboard, status | peers; the clipboard requests wait on a peer's control channel |
| HTTP server | `httpserver/http.go` | sessions | connect, offer, candidates (PATCH, DELETE), a timer per session | authorisation, peers |
| Authorisation | `auth.go`, `clients.go` | a file of tokens and fingerprints | `IsAuthorized`, client add, remove | commands write it, the agent reads it |
| Peerbook client | `peerbook.go` | a websocket, an outgoing queue | reader, writer, redial, candidate callbacks | peers |
| Shared state | `handlers.go`, `peers/peer.go`, `sock.go` | `Payload`, `mostRecentPeer`, `lastReceived` | set, get, broadcast; copy and paste | all clients at once |
| Configuration, keys, pty, installers | `conf.go`, `key.go`, `peers/pty.go`, `*.sh` | none that changes at run time | | |

Hard behaviours: a pane has at least four goroutines (ReadLoop, its sender, two
timers) and any number of channel callbacks, with a lock around only some of
what they share; the control channel routes answers by number between
callers that time out; commands share a pid file and a socket with no lock and may
crash between any two steps; candidates go through small queues whose readers
end with timers; three maps (live offers, sessions, peers) and the authorised
clients' file are used at once by goroutines or processes that do not lock
them; a peer's connection is looked at, and used after somebody else may have
closed it; the peerbook reader and writer share a websocket and wait for each
other. What makes each part correct:

* buffer: a reconnecting client gets exactly what it missed, or all that is kept;
* pane: output is delivered in order, with no gap and no repeat, and a command's
  end ends the pane and lets go of every channel;
* control channel: every call returns, with the answer to that call;
* agent: there is one, the pid file names it, the socket is its own, a signal ends it;
* offers: each candidate gets across once and in order, nobody waits for good on
  a full queue, and an answered offer is forgotten;
* signalling: no client loses its authorisation by the way, nothing panics unless a
  peer or the websocket goes away in the middle of its use, no request and no answer
  is left waiting;
* shared state: a broadcast reaches everybody who is there, clients agree on the
  payload, and the clipboard is that of whoever is typing.

`PROJECT.json` lists the places where each could go wrong ("hazards").

## 2. The modules

| Module | Models |
|---|---|
| `MarkedLog` | what the buffer promises: an append-only log with bookmarks |
| `Buffer` | `buffer.go`, one step per byte of each loop, the lock as a variable |
| `Feed` | what a pane promises its channels: every chunk once and in order to whoever is attached, and restores without a gap |
| `Pane` | the goroutines around one pane, the channels attached to it, `clients_db.go`, Reconnect, add_pane, reconnect_pane, mark, restore |
| `Control` | requests, acks, nacks, commands and timeouts of one control channel |
| `Agent` | agent processes, the commands that start, stop, restart and look for them, accept up to its first request, the pid file and the socket |
| `Offers` | the socket server's live offers: POST, PUT, GET, the timer, `handleIncoming`, `OnCandidate`, and accept's `TrickleCandidates` and `getAgentCandidates` |
| `Authorized` | the authorised clients' file, `IsAuthorized`, client add and remove |
| `Connections` | `NewPeer`, `AddCandidate`, `Close` and the connection state handler: the peers HTTP server and peerbook client share |
| `Sessions` | the HTTP server; extends `Connections` and `Authorized` |
| `Peerbook` | the peerbook client's reader, writer and callbacks; extends `Connections` |
| `Signalling` | the composition of `Sessions` and `Peerbook` over the same peers and file |
| `Payload` | set_payload, get_payload, resize, layout and `Broadcast` over the clients' control channels |
| `Clipboard` | `SetLastPeer`, `GetActivePeer` and the clipboard requests; extends `Payload` for its clients |
| `Shared` | the composition of `Payload` and `Clipboard` |
| `BufferProofs`, `PaneProofs`, `ControlProofs`, `AgentProofs`, `OffersProofs`, `AuthorizedProofs`, `SignallingProofs`, `SharedProofs` | the theorems about each |
| `MCBuffer`, `MCPane`, `MCControl`, `MCAgent`, `MCOffers`, `MCSignalling`, `MCShared` | instances for TLC |

Definitions keep the names of the code where they can; `PROJECT.json` maps each to
its lines. An operator whose comment begins with "Slip" is a wrong variant of the
definition after it: no specification uses it, and each property is shown to
be able to fail by putting a slip in the place of its original.

**Buffer.** `data`, `end`, `markers` are the fields, `mx` the holder of the
lock, `todo` what `Add` has still to copy, `gid`, `i`, `stop`, `r` the locals of
`GetSinceMarker`. `hist` and `markPos` are history variables: all bytes ever
added and where each mark was set. Reading an id the map does not hold yields 0,
as in Go.

**Pane.** Chunks are numbered in the order the command writes them. `rpc`/`spc`
are the places of the ReadLoops and senders (two of each, since a pane opened by
a label gets a second ReadLoop), `cdb` counts the entries a channel has in the
clients database, `scs` is the sender's copy of them, `rx` is what was sent over
a channel (welcome and first messages left out), `hpc` where its OnOpen
callback is, `kpc` where each caller of Kill is. Every handler adds its channel to
the database in one step and sets OnClose in a later one (`Reattach`, then
`RestoreStarts`; `Unlocked` is the pane's lock, which Reconnect holds from one to the
other and Kill needs for its second half); `closing` tells a close event that OnClose
heard from one that was missed because it came in between. The sender's loop over its
copy is one step: what it does to one channel touches no other, and a `Send` that fails
on an open channel is only logged, as if the channel had been closed just before. The
buffer is the sequence of
the chunks stored in it; what the ring makes of that is `Buffer`'s matter.
`kind` says how a channel is opened. Left out: input to the command, resizing,
stderr, and the crash a write to a nil tty causes. `FeedStep`, `FeedTo`, `Phase` and
`rx` are what `Feed` sees of a pane: where the chunk after those stored is, who is
still to be sent it, and who has been attached and closed.

**Control.** Clients answer a request once, with an ack or a nack that has a
message id of its own, and send commands in between. `ch[ref]` is the
one-place Go channel of a call, `reader` what the reading goroutine is
delivering, which blocks it while that channel is full.

**Agent.** Each read, truncation, write and removal of the pid file is a step, as
are the removal of a socket found and listening on a new one; `Crash` ends a
process at any of them and `Terminate` is a signal from outside. Process ids are
not used twice. `OneByOne` says whether a command may be given while an earlier
one, or what it started, is still under way.

**Offers.** `live` is the map, `mx` its mutex, `post` where the POST handler and
then its timer is, `cs` and `incoming` the two queues of `LiveOffer`, `calling` the
candidate OnCandidate is blocked with, `hold` the PUTs that are blocked, `hin`
the goroutine `handleIncoming`, `gt` accept's loop of GETs. `Made` is
how many offers there are, which the bounds on candidates depend on. `crashed` is set by
what ends the agent: a map operation the runtime finds racing (`LookupRaces`)
and a nil peer connection (`IncomingAdds`).

**Connections, Sessions, Peerbook, Authorized.** Peers are numbered in the order
they are made; `pc` is `Peer.PC`, `reg` the map `Peers`, `pend` the length of
`pendingCandidates`, `drain` the state handlers that empty it. `rq` is where a
request is and, for an offer that was answered, its session's timer. `rd`, `wr` and
`cb` are the peerbook reader, writer and callbacks, `ws` their websocket. The
file of authorised clients is a sequence of lines that a removal reads, empties
and writes again line by line, at its own offset, while others append.
`agent` says what ended the agent: a "race" on a map that the runtime finds, a
"message" of peerbook that it cannot handle, or a "panic" at a nil connection or
websocket. `met` (history) records the steps that take something away from a goroutine
in the middle of its work (`Overlap`): a peer closed between the look at `PC` and its
use, the websocket given up while the writer has a message, a message handed to the
writer while there is no websocket. There is one `client remove` at a time. The
writer's end after a close error (peerbook.go:184) is kept as the code has it,
though gorilla's `WriteMessage` hardly ever returns one.

**Payload, Clipboard.** `hd` is where the handler of each control channel is, `todo`
the entries `Broadcast` has still to visit, `must` (history) the clients there all
through that have not been told. A slice is assigned in several stores, so an
unlocked read or a second assignment during one may yield a mixture (`Torn`).
`active` and `near` (history) say who really typed within two seconds.

## 3. The runs

| Run | Bounds | Shows |
|---|---|---|
| `buffer` | Size 3, 2 byte values, 2 markers, slices of up to 2 bytes, 6 bytes added | the ring invariants, what live markers are answered with, that the loop ends off slot 0, and that `Buffer` implements `MarkedLog` |
| `buffer_hang` | the same, 5 bytes | violated: GetSinceMarker returns |
| `buffer_lost` | the same, 5 bytes | violated: a lost marker is answered with all the buffer's data |
| `pane` | a channel of add_pane and one of reconnect_pane, outbuf of 1, 2 chunks | order, no gap or repeat, channels whose close was heard are forgotten, and `Pane` implements `Feed` |
| `pane_label` | one channel opened by a label, two ReadLoops, outbuf of 1, 2 chunks | the command's end ends the pane; a blocked ReadLoop is released |
| `pane_history` | as `pane` | violated: history comes first |
| `control` | 2 callers, 4 refs, 4 client messages | acks reach their call, no stray entries, acks do not hold up the reader, every call returns |
| `control_nack` | the same | violated: nacks reach their call |
| `agent` | 3 commands, 3 processes, one by one | at most one agent, its pid file and its socket are there, signals end it |
| `offers` | 1 offer with 3 candidates gathered and 2 PUT, or 2 offers at once without any; queues of 1, 1 line typed | candidates in order, the map and its mutex, blocked callbacks and PUTs are released, the offer is forgotten |
| `signalling` | 2 tokens, 1 of them a fingerprint, 2 requests, 2 peers, a pending queue of 1, 1 candidate per peer, 3 events | the clients' file, no panic without an overlap, PATCHes return, the reader gets rid of its answer |
| `shared` | 3 clients, two of them the same fingerprint, 2 payloads, 3 events | broadcasts are complete, clients agree, the clipboard is an active client's |

Why the bounds are enough: 6 bytes are two laps of a ring of 3, so every marker
can be overtaken and every relation of start, end and wrap occurs; two
chunks and an outbuf of one make a full outbuf with a reader blocked behind it, or with
a sender at work, possible (all three at once would take three chunks, which is out of
`pane_label`'s reach and left to `PushCorrect`); two callers and four messages allow one answer to
be late for its call while the other waits; three commands allow a crash,
a recovery and one more command. In `control` the answers' refs and the client's
own ids run over the same numbers, which is what makes misrouting visible. In
`offers` a queue of one with three candidates has one printed, one queued and one
blocked at once; two PUTs fill the queue and block; two offers have their POSTs,
GETs, timers and failures in every order, so that each waits for the mutex the other
holds and a GET meets the other's change of the map; candidates and PUTs of several
offers at once touch nothing in common, and the proofs are for any set of offers. In `signalling` an event is whatever
comes from outside (a command, a request, a message, a broken websocket): three
of them are an offer, a candidate for it and its rejection, or a removal
while a client is added; one place in the pending queue makes the second
candidate block. Its invariants also hold with four events (2.6 million states).
In `shared` the third client is the first one connected again, so an entry of
`Peers` is replaced under a broadcast, and three events are two sets that overlap
and a message, or a message, a clipboard request and another message. Payloads
are only compared, so permuting them is a symmetry.

A deadlock check is off where the system may stop: a pane whose command is
over, a client that says no more, an agent nobody starts or that has ended.

Fairness: `Buffer` assumes that a goroutine that holds the lock goes on; `Pane`
that callbacks, loops, senders, kills and timers that can run do run, and
nothing of the command or the clients; `Control` that callers and the reader run and
timers fire, and nothing of the client; `Agent` that processes and commands
that can run do run, and nothing about crashes or new commands; `Offers` that
handlers, timers and loops run (weak fairness is enough for the mutex too, which each
offer takes twice at most), and nothing of who types, PUTs or connects; `Signalling` that goroutines run, and
neither that a client ever sends the body of its request, nor that a dial
succeeds or a connection comes about. The Go scheduler and the operating system
give no less. `Shared` is checked for safety only.

### What the violated properties show

1. `GetSinceMarker` does not end when its stop is slot 0 and it starts
   elsewhere: `i` is compared before the wrap and leaves the wrapped slot as 1.
   The lock stays taken and the pane's sender with it (buffer.go:70).
2. A lost marker, or none, is answered without the newest byte unless `end` is 0
   (buffer.go:64), where the comment promises all the data (49-50). `MarkedLog`
   allows it, so that the refinement can show the rest; `LostMarkerCorrect` proves
   exactly which byte is missing.
3. A channel that reconnects is attached before its history is sent, 100 ms
   later (pane.go:384): new output comes first, and once more in the history. It was
   read after the mark, when docs/api.md:113-114 says no output is sent any more.
4. A nack is routed by its own message id (peer.go:398).

### Also seen

Behaviours of the models about which no run is stated. These disagree with a
document of the repository:

* mark does not stop the output to the client (docs/api.md:113-114: "webexec will stop
  sending output to the client"): handleMark (handlers.go:89-101) only marks, and `Feed`,
  which `Pane` implements, sends on to the client's channels;
* add_pane registers and acknowledges a pane whose command failed to start
  (handlers.go:184; docs/api.md:67-68: "webexec will create the pseudo tty, start the
  commend and open a data channel"), and the first input to it writes to a nil tty;
* a layout set through the socket is not broadcast (`PostLayout`; CHANGELOG.md:86:
  "broadcasting layout changes to all connected peers");
* accept never PUTs a candidate, since the text it parses is never cleared
  (webexec.go:487; CHANGELOG.md:181-182: "ready to accept offers and candidates").

These no document was found to exclude:

* a close event that comes after `CDB.Add` and before OnClose is set (peer.go:358 and 363,
  and the same in add_pane and for a label) is heard by nobody: the entry stays until the
  sender's next chunk or Kill;
* a pane opened by a label has two ReadLoops (peer.go:340), and TLC finds its
  output stored as chunk 2, chunk 1; no chunk is lost by it (`PaneProofs`);
* a channel with the label `>id` is registered twice (peer.go:358 and 221), is sent
  everything twice and leaves an entry behind (kind "relabel"; the other
  invariants of `pane` hold for it, over 4.4 million states);
* a channel reconnected while a chunk is being sent is not among its readers
  (pane.go:222); were the sender held up for the 100 ms of Restore's timer, the restore
  would come before the chunk is kept and the channel would never be sent it;
* a channel reconnected between the two halves of Kill is attached to a pane that
  is then dead;
* with `OneByOne = FALSE` two starts, or a start and a status, lead to two agents or
  to one without its file; a crash between truncation and write leaves a file no
  later start accepts;
* accept exits when no candidate comes for five seconds although the offer is still
  connecting, and uses a nil client when the agent it started has
  no socket after 100 ms;
* a POST that fails after it registered its offer leaves the entry for good;
* `client remove` with a bare fingerprint leaves the lines that also have a name;
  of two removals at once (which `Authorized` leaves out) one is undone, and if one
  reads while the other rewrites the file, clients nobody named are lost for good;
* a peer_update without "verified", and an offer with a wrong fingerprint from a client
  without a peer, end the agent (peerbook.go:282, 298); once the writer has ended
  the reader waits for good;
* a Close between the look at a peer's `PC` and its use, or a websocket given up while
  the writer has a message, panics (`PanicNeedsOverlap` says that nothing else does);
* after two sets that overlap clients may go on with different payloads.

## 4. The proofs

Each module of proofs extends a component and holds for every value of its
constants that the named assumptions allow.

`BufferProofs` (`Size >= 1`, any set of bytes and of marker ids):

* `TypeCorrect`: `TypeOK` is inductive;
* `RingCorrect`, `MarkersCorrect`: `RingHoldsLatest /\ MarkersNamePositions`, inductive
  with `TypeOK`. Slot k holds byte `Base + k + 1` of the current lap if it is before
  `end`, else the one of the lap before, where `Base = Len(hist) - end`;
* `LoopCorrect`: `LoopCopiesInOrder`, the loop's invariant. What the answer is
  says nothing about the loop on its way there, so the strengthening relates
  `r`, `i`, the start and the stop: either the loop is going up from the
  start, or it has wrapped and is below the stop. Lemma `SlotHoldsNext` takes
  the slot read to a byte of the history by `RingHoldsLatest`;
* `LiveMarkerCorrect`, `LostMarkerCorrect` (the exact answers): at the end of the loop the invariant
  is the answer (lemmas `LoopEnd`, `SliceIsStretch`);
* `ImplementsMarkedLog`: every step of `Buffer` is a step of `MarkedLog` or a
  stutter, with `log <- hist`, `pos <- markPos`.

`PaneProofs` (any set of channels opened in any way, any outbuf, any amount of output):

* `TypeCorrect`: `TypeOK`, inductive with `HandlerInv` (what the place of a callback
  says: Run starts a ReadLoop that is not there yet, and a channel that is about to
  be added has one entry at most), `ChunkInv` and `CountInv` (the chunks stored,
  queued, unread and in hand are as many as were written, with two ReadLoops too);
* `ForgottenCorrect`: `HeardCloseForgotten`, from `Heard`: a channel registered once has
  one entry at most, and its OnClose is set after that entry, when no other can follow;
* `PipelineCorrect`: `PipelineInOrder`, inductive with the fact that a pane of add_pane
  never gets its second loop. The lemmas `PipeReads`, `PipePushes`, `PipeTakes`, `PipeStores`
  say that each move of a chunk leaves the concatenation as it is;
* `PushCorrect`: a ReadLoop that waits for a place in `outbuf` has a sender that is not
  cancelled, from `Paired`: the part of `PushCompletes` that is not fairness;
* `NoGapCorrect`: `NoGapNoRepeat`, from `Seeing`. What a channel was sent is consecutive as
  long as it is in the sender's copy of every chunk after its first, which is
  about three places at once: an open channel that was sent output is still in
  `cdb`, and in `scs` while a chunk is being sent, and its last chunk is the last one
  sent. `SenderHasNext` takes the sender's chunk to its number by `PipelineInOrder`;
* `ImplementsFeed` (of a pane of add_pane): every step is a step of `Feed` or not seen
  by it. `FeedLeaves` and `FeedAttaches` say which changes of `cdb`, `dc` and `scs` the feed
  sees as a channel leaving or coming; the sender's steps are `Take`, `Send` and `Keep` by
  `Seeing` and `StoredFirst`; a restore sends a tail of what is kept since a channel that
  waits for one is attached (`Waiting`) and the marker is within it (`MarkerStored`).

`ControlProofs` (any set of callers, any bounds):

* `TypeCorrect`: `TypeOK`, inductive with `CallsHaveRefs` (a call that is not
  idle has a ref: without it the channel it waits on would not exist);
* `EntriesCorrect`: `NoStrayEntry`, inductive with `RefsDistinct`. That refs are
  distinct is what makes a call's delete remove its own entry and no other's;
* `AckCorrect`: `AckAnswersOwnRequest`. An ack is followed on its way: the reader
  holds it for the ref it answers, that ref's channel holds it (`AcksInPlace`),
  and a call has no result before its select (`NoEarlyResult`);
* `AckHandedOver`: `AckNeverBlocks`, from `OnePlace` (a request is answered in one place
  at a time: asked, sent, held by the reader or queued) and `AnswersOnly`.

`AgentProofs` (any commands and processes; the last three assume `OneByOne`):

* `TypeCorrect`; `OneAgentCorrect`, `PidfileCorrect`, `SocketCorrect` from `AgentInv`, which
  says that one command is under way at most, that no agent is starting while a
  command is before its fork, that none is there while a file found stale is being
  removed, and that file and socket are the agent's once it has made them.

`OffersProofs` (any set of offers, capacity and number of candidates):

* `TypeCorrect`; `RegisteredCorrect`: `RegisteredUntilExpiry` is inductive, its first part
  (who holds the mutex) being what the second needs;
* `CandidatesCorrect`: `CandidatesInOrder`, by the lemmas `MoveHead`, `Regroup`, `OneMore` on
  what each step does to the concatenation.

`SharedProofs` (any clients, fingerprints and payloads, any number of events):

* `TypeCorrect`; `BroadcastCorrect`: `AckMeansToldAll`, from `MustInv`: whoever must still
  be told has an entry still to be visited;
* `AgreementCorrect`: `ClientsAgree`, from `ViewInv` and `AgreeInv`, which say what a client
  may know while a lone set is being assigned, broadcast and acknowledged;
* `ClipboardCorrect`: `ClipboardOfActive`, from `ActiveInv`: as long as any client is active,
  and so while `lastReceived` is recent, `mostRecentPeer` is one of them.

`AuthorizedProofs` (any tokens, any first content of the file, any removals) holds the
lemmas about the file that `SignallingProofs` cites:

* `PostKeeps`: what `removeClients` keeps of a file is that file without the argument.
  `Post` is a recursive function; `SetInduction` gives induction over the natural
  numbers for a set of them, by the least number outside it, and with it both that
  the recursion defines a function (`PostExists`) and what it computes;
* `AuthKeeps`, `AuthShows`: `AuthInv` is inductive and implies the two properties. It says
  what a removal has read and how far it has written it (`Rewriting`), that a client
  no removal named is in the file or in what is still to be written (`Unnamed`),
  and that the argument is in neither unless it was added meanwhile (`Gone`).

`SignallingProofs` (any requests, peers, fingerprints and events):

* `TypeCorrect`: `TypeOK`, from the types of peers, HTTP server and peerbook client
  (`NetTypeCorrect`) and `AuthInv` (`FileInvariant`);
* `UnnamedCorrect`, `RemovedCorrect`: `UnnamedClientsStay` and `RemovedIsGone`, from `AuthInv`,
  which no step of the others disturbs (`FileSteps`);
* `PanicCorrect`: `PanicNeedsOverlap`, from `PanicInv`: before the first overlap a
  candidate or callback past its look at `PC` has a connection, and a message in the
  writer's hands has a websocket; always, a candidate that is handled has a peer, and the
  reader handles messages only while it has a websocket.

Assumptions: the sizes and capacities are positive (the code uses 100000, 5 and 8
for buffer, queues and pending candidates), bounds are natural numbers, the
values that stand for "none" are no proper values, one channel makes the pane,
fingerprints are tokens.

Only model-checked: liveness (`GetEndsOffSlotZero`, `CallReturns`, `ExitEndsPane`,
`PushCompletes`, `SignalledAgentEnds`, `CallbackReleased`, `PutReturns`,
`AnsweredOfferForgotten`, `PatchReturns`, `AnswerTaken`), which is beyond the
prover. Every invariant that a run checks, and both refinements, are proved.

## 5. Not modelled

* configuration parsing and key storage (`conf.go`, `key.go`): values that do not
  change afterwards; the pty wrapper; the installers and the service script;
* `client list`, status's statistics, `verifyPeer` and `GetICEServers`: single reads
  or single requests that keep no state; `init` and `upgrade`, which run programs and
  write files once; `--debug`, which is start without the fork;
* formatting: `dumpVT`'s escape sequences, messages, log lines; `stderrLoop`, which
  only logs; the sizes of ttys (`Resize` of `Payload` is its broadcast and ack);
* the host's clipboard programs;
* `Shutdown` of peers, which nothing calls;
* WebRTC itself (its channels are taken as reliable and ordered, as they are
  opened), the websocket's ping, HTTP parsing.

Abstractions a reader should know: an HTTP handler that panics is recovered by
`net/http` and counts as a request that ended; lines of the authorised clients'
file that stand alone have one length, as fingerprints do; time is left out
except for which of two timers of one goroutine comes first, so whatever may
happen before a timer fires may also happen after it.

## 6. Plan

1. (done) `MarkedLog`, `Buffer`, `Pane`, `Control`, `Agent`, and their proofs.
2. (done) `Offers` with accept; `Authorized`, `Connections`, `Sessions`, `Peerbook` and their
   composition `Signalling`; `Payload`, `Clipboard` and their composition `Shared`; their proofs.
3. (done) `Feed` and its refinement by `Pane`; proofs of `NoGapNoRepeat`, of the clients' file
   and of `Signalling`'s types.
4. Left: the safety part of the other liveness properties, as `PushCorrect` is that of
   `PushCompletes`; an abstract specification of the calls of `Control`; several
   panes at once; the refinement of the chunks stored in `Pane` by `Buffer`.
