------------------------------- MODULE Clipboard ------------------------------
(***************************************************************************)
(* The clipboard of the active client: "webexec copy" and "paste" ask the  *)
(* agent, which turns to the client that typed last, if that was within    *)
(* two seconds, and otherwise to the host's own clipboard.  Who typed last *)
(* and when are two variables that callbacks assign one after the other    *)
(* and requests read one after the other, without a lock.                  *)
(* Sources: src/sock.go 95-148, src/peers/peer.go 240-248 and 633-637,     *)
(* src/webexec.go 698-754.                                                 *)
(***************************************************************************)
EXTENDS Payload

VARIABLES
    recent, \* mostRecentPeer
    fresh,  \* lastReceived is less than keepAliveInterval ago
    stamp,  \* clients between the two assignments of SetLastPeer
    cp,     \* where a clipboard request is: "idle", "time", "peer" or "send"
    to,     \* the client it goes to, NoClient for the host
    active, \* clients that typed within the last two seconds
    near    \* clients that were active since the request began

clipVars == <<recent, fresh, stamp, cp, to, active, near>>

ClipInit == /\ recent = NoClient /\ fresh = FALSE /\ stamp = {}
            /\ cp = "idle" /\ to = NoClient /\ active = {} /\ near = {}

\* A message over a pane's channel: SetLastPeer is called, and returns.
Enters(c) == /\ cdc[c] \in {"none", "open"} /\ c \notin stamp
             /\ stamp' = stamp \cup {c} /\ active' = active \cup {c}
             /\ near' = IF cp = "idle" THEN {} ELSE near \cup {c}
             /\ UNCHANGED <<cp, to>>
Leaves(c) == /\ c \in stamp
             /\ stamp' = stamp \ {c}
             /\ UNCHANGED <<cp, to, active, near>>

\* Slip: the time is set before the peer.
SetLastTimeFirst(c) == \/ Enters(c) /\ fresh' = TRUE /\ UNCHANGED recent
                       \/ Leaves(c) /\ recent' = c /\ UNCHANGED fresh

SetLastPeer(c) == \/ Enters(c) /\ recent' = c /\ UNCHANGED fresh
                  \/ Leaves(c) /\ fresh' = TRUE /\ UNCHANGED recent

\* Two seconds pass; two assignments take less.
TimePasses ==
    /\ stamp = {} /\ active # {}
    /\ fresh' = FALSE /\ active' = {}
    /\ UNCHANGED <<recent, stamp, cp, to, near>>

\* handleClipboard calls GetActivePeer, which reads the peer, the time, and
\* the peer again.
LooksForPeer ==
    /\ cp = "idle"
    /\ near' = active
    /\ to' = NoClient /\ cp' = IF recent = NoClient THEN "send" ELSE "time"
    /\ UNCHANGED <<recent, fresh, stamp, active>>

LooksAtTime ==
    /\ cp = "time"
    /\ cp' = IF fresh THEN "peer" ELSE "send"
    /\ UNCHANGED <<recent, fresh, stamp, to, active, near>>

TakesPeer ==
    /\ cp = "peer"
    /\ to' = recent /\ cp' = "send"
    /\ UNCHANGED <<recent, fresh, stamp, active, near>>

\* The message is sent, or fails to be for want of a control channel, or the
\* host's clipboard is used; the command is told.
Replies ==
    /\ cp = "send"
    /\ cp' = "idle" /\ to' = NoClient /\ near' = {}
    /\ UNCHANGED <<recent, fresh, stamp, active>>

ClipEvent == LooksForPeer \/ \E c \in Client \ stamp : SetLastPeer(c)

ClipStep == \/ \E c \in stamp : SetLastPeer(c)
            \/ TimePasses
            \/ LooksAtTime
            \/ TakesPeer
            \/ Replies

-----------------------------------------------------------------------------
(* Properties *)

ClipTypeOK ==
    /\ recent \in Client \cup {NoClient} /\ to \in Client \cup {NoClient}
    /\ fresh \in BOOLEAN /\ cp \in {"idle", "time", "peer", "send"}
    /\ stamp \subseteq Client /\ active \subseteq Client /\ near \subseteq Client

\* mostRecentPeer and lastReceived "go together" (peer.go:39-41) but are
\* assigned and read apart: copied data goes to, and pasted data comes from, a
\* client that typed at most two seconds before the request, or after it.
ClipboardOfActive == cp = "send" /\ to # NoClient => to \in near
=============================================================================
