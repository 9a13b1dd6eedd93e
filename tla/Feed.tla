--------------------------------- MODULE Feed ---------------------------------
(***************************************************************************)
(* What a pane promises to the data channels attached to it                *)
(* (src/peers/pane.go, src/peers/clients_db.go): each chunk of the         *)
(* command's output, in order and once, goes to every channel that was     *)
(* attached when it was taken and has not left since.  In between, a       *)
(* channel may be sent the past: chunks the pane keeps, without a gap up   *)
(* to the last one kept.                                                   *)
(*                                                                         *)
(* This is the promise the code keeps.  docs/api.md:113-114 describes      *)
(* another one for a client that sends mark: "webexec will stop sending    *)
(* output to the client".  handleMark (handlers.go:89-101) stops nothing,  *)
(* so here such a client's channels are sent every chunk like any other.   *)
(***************************************************************************)
EXTENDS Integers, Sequences

CONSTANT Reader   \* the channels

VARIABLES written,  \* how many chunks the command wrote
          kept,     \* how many of them the pane keeps
          step,     \* the next one: "none", "taken" or "sent"
          to,       \* who is to be sent it
          phase,    \* each channel: "out", "attached" or "left"
          seen      \* what it was sent

vars == <<written, kept, step, to, phase, seen>>

Output(c) == [kind |-> "live", chunks |-> <<c>>]

\* The chunks after chunk j up to the last one kept.
Past(what, j) == [kind |-> what, chunks |-> [i \in 1..(kept - j) |-> j + i]]

Init == /\ written = 0 /\ kept = 0 /\ step = "none" /\ to = {}
        /\ phase = [r \in Reader |-> "out"]
        /\ seen = [r \in Reader |-> <<>>]

Write == /\ written' = written + 1
         /\ UNCHANGED <<kept, step, to, phase, seen>>

Attach(r) == /\ phase[r] = "out"
             /\ phase' = [phase EXCEPT ![r] = "attached"]
             /\ UNCHANGED <<written, kept, step, to, seen>>

\* Channels are closed, by their clients or all at once.  None comes back.
Leave == \E gone \in SUBSET Reader :
            /\ phase' = [r \in Reader |-> IF r \in gone THEN "left" ELSE phase[r]]
            /\ to' = to \ gone
            /\ UNCHANGED <<written, kept, step, seen>>

Take == /\ step = "none" /\ kept < written
        /\ step' = "taken"
        /\ to' = {r \in Reader : phase[r] = "attached"}
        /\ UNCHANGED <<written, kept, phase, seen>>

Send == /\ step = "taken"
        /\ step' = "sent"
        /\ seen' = [r \in Reader |-> IF r \in to THEN Append(seen[r], Output(kept + 1))
                                     ELSE seen[r]]
        /\ to' = {}
        /\ UNCHANGED <<written, kept, phase>>

Keep == /\ step = "sent"
        /\ step' = "none"
        /\ kept' = kept + 1
        /\ UNCHANGED <<written, to, phase, seen>>

\* An attached channel is sent the screen, which all of the output went to, or
\* the output since some chunk.
Restore(r) == /\ phase[r] = "attached"
              /\ \/ seen' = [seen EXCEPT ![r] = Append(@, Past("screen", 0))]
                 \/ \E j \in 0..kept :
                        seen' = [seen EXCEPT ![r] = Append(@, Past("history", j))]
              /\ UNCHANGED <<written, kept, step, to, phase>>

Next == \/ Write
        \/ Leave
        \/ Take
        \/ Send
        \/ Keep
        \/ \E r \in Reader : Attach(r) \/ Restore(r)

Spec == Init /\ [][Next]_vars
=============================================================================
