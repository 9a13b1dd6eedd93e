------------------------------ MODULE MarkedLog ------------------------------
(***************************************************************************)
(* What a pane's output buffer promises to the code that uses it           *)
(* (src/peers/pane.go): an append-only log of the output, bookmarks in it, *)
(* and reads that answer with what was written since a bookmark.  Only the *)
(* last Size bytes are kept: a bookmark that fell out of them is answered  *)
(* with the kept bytes, oldest first, of which the newest may be missing.  *)
(***************************************************************************)
EXTENDS Integers, Sequences

CONSTANTS Size,     \* how many bytes are kept
          Byte,     \* the values of a byte
          Zero,     \* the byte a fresh buffer is filled with
          MarkerId  \* the names of bookmarks

NoMark == -1
Nobody == -2

VARIABLES log,      \* every byte ever appended
          pos,      \* pos[id]: Len(log) when id was set, NoMark when unset
          pending,  \* the bookmark being read, Nobody when none is
          reply     \* the last answer

vars == <<log, pos, pending, reply>>

\* The j-th byte of the log, preceded by the zeroes of a fresh buffer.
At(j) == IF j <= 0 THEN Zero ELSE log[j]

\* The bytes after position p up to position q.
Stretch(p, q) == [j \in 1..(q - p) |-> At(p + j)]

\* The answers allowed for bookmark id.  For one that was overrun the comment
\* of GetSinceMarker (buffer.go:49-50) says more, "all the buffer's data"; the
\* code leaves the newest byte out, and the log promises what the code keeps
\* (Buffer's LostMarkerGetsAll is the comment's form).  A bookmark that is not set (it was
\* never, or was used) is answered with some tail of the log.
Answers(id) ==
    LET n == Len(log)
    IN  IF id = -1 \/ (id \in MarkerId /\ pos[id] # NoMark /\ n - pos[id] >= Size)
        THEN {Stretch(n - Size, n), Stretch(n - Size, n - 1)}
        ELSE IF pos[id] = NoMark
             THEN {Stretch(n - k, n) : k \in 0..Size}
             ELSE {Stretch(pos[id], n)}

Init == /\ log = <<>>
        /\ pos = [id \in MarkerId |-> NoMark]
        /\ pending = Nobody
        /\ reply = <<>>

Put(b) == /\ log' = Append(log, b)
          /\ UNCHANGED <<pos, pending, reply>>

Bookmark(id) == /\ pos' = [pos EXCEPT ![id] = Len(log)]
                /\ UNCHANGED <<log, pending, reply>>

Ask(id) == /\ pending' = id
           /\ reply' = <<>>
           /\ UNCHANGED <<log, pos>>

Answer(id) ==
    /\ pending = id
    /\ reply' \in Answers(id)
    /\ pending' = Nobody
    /\ pos' = IF id \in MarkerId THEN [pos EXCEPT ![id] = NoMark] ELSE pos
    /\ UNCHANGED log

Next == \/ \E b \in Byte : Put(b)
        \/ \E id \in MarkerId : Bookmark(id)
        \/ \E id \in MarkerId \cup {-1} : Ask(id) \/ Answer(id)

Spec == Init /\ [][Next]_vars
=============================================================================
