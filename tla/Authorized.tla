------------------------------ MODULE Authorized ------------------------------
(***************************************************************************)
(* The file of authorised fingerprints and tokens: "webexec client add"    *)
(* and "remove" change it, the agent reads it for every offer, and nobody  *)
(* locks it.  Sources: src/clients.go, src/auth.go.                        *)
(*                                                                         *)
(* The file is a sequence of lines.  A line is a token alone, a token and  *)
(* a name, or a comment.  Lines that stand alone have one length, as       *)
(* fingerprints do.                                                        *)
(***************************************************************************)
EXTENDS Integers, SequencesExt

CONSTANTS Token,   \* fingerprints and bearer tokens
          NoToken, \* what a garbled line reads as
          NoLine,  \* no removal is finished or under way
          First,   \* the lines the file starts with
          Arg      \* bound: the arguments removals are given

Line == [tok : Token, kind : {"bare", "named", "comment"}]
Garbled == [tok |-> NoToken, kind |-> "bare"]

ASSUME TokenAssumption == NoToken \notin Token
ASSUME LineAssumption == NoLine \notin Line \cup {Garbled}
ASSUME FirstAssumption == First \in Seq(Line) /\ Arg \subseteq Line

VARIABLES
    lines,   \* the file
    rm,      \* where removeClients is: "idle", "truncate" or "write"
    arg,     \* the argument of the last removal that was not cut short
    rest,    \* post: the lines it keeps
    at,      \* how many of them it has written
    newer,   \* lines added since that one read the file
    named,   \* tokens named by a removal so far
    damaged  \* a removal was cut short after its truncation

fileVars == <<lines, rm, arg, rest, at, newer, named, damaged>>

AuthInit == /\ lines = First
            /\ rm = "idle" /\ arg = NoLine /\ rest = <<>> /\ at = 0
            /\ newer = {} /\ named = {} /\ damaged = FALSE

\* IsAuthorized: comments are skipped, names are cut off.
Authorised(t) == \E l \in ToSet(lines) : l.tok = t /\ l.kind # "comment"

\* addClients appends a line with one write.
AddClient(t) ==
    /\ lines' = Append(lines, [tok |-> t, kind |-> "bare"])
    /\ newer' = IF arg = NoLine THEN {} ELSE newer \cup {[tok |-> t, kind |-> "bare"]}
    /\ UNCHANGED <<rm, arg, rest, at, named, damaged>>

\* What removeClients keeps of the lines it read: those that differ from its
\* argument (of several, each is looked for in the same pass).  P[i] is post
\* after i lines.
Post(fps, l) ==
    LET P[i \in 0..Len(fps)] == IF i = 0 THEN <<>>
                                ELSE IF fps[i] = l THEN P[i - 1]
                                ELSE Append(P[i - 1], fps[i])
    IN  P[Len(fps)]

\* removeClients reads the file.
RemoveReads(l) ==
    /\ rm = "idle"
    /\ arg' = l
    /\ rest' = Post(lines, l)
    /\ newer' = {}
    /\ named' = named \cup {l.tok}
    /\ at' = 0 /\ rm' = "truncate"
    /\ UNCHANGED <<lines, damaged>>

\* Slips: the file is not truncated; the offset stays where reading ended.
RemoveOverwrites ==
    /\ rm = "truncate"
    /\ rm' = IF rest = <<>> THEN "idle" ELSE "write"
    /\ UNCHANGED <<lines, at, arg, rest, newer, named, damaged>>
RemoveTruncatesOnly ==
    /\ rm = "truncate"
    /\ lines' = <<>>
    /\ rest' = IF rest = <<>> THEN rest ELSE [rest EXCEPT ![1] = Garbled]
    /\ rm' = IF rest = <<>> THEN "idle" ELSE "write"
    /\ UNCHANGED <<at, arg, newer, named, damaged>>

\* Truncate and Seek.
RemoveTruncates ==
    /\ rm = "truncate"
    /\ lines' = <<>>
    /\ rm' = IF rest = <<>> THEN "idle" ELSE "write"
    /\ UNCHANGED <<at, arg, rest, newer, named, damaged>>

\* Line k is written at its own offset, over a line appended meanwhile.  Behind
\* a named line the two no longer fall together and the next one loses its
\* beginning.
Overwritten(f, k, l) ==
    [j \in 1..(IF k > Len(f) THEN k ELSE Len(f)) |->
        IF j = k THEN l
        ELSE IF j = k + 1 /\ \E n \in 1..k : rest[n].kind = "named" THEN Garbled
        ELSE f[j]]

RemoveWrites ==
    /\ rm = "write"
    /\ lines' = Overwritten(lines, at + 1, rest[at + 1])
    /\ IF at + 1 = Len(rest)
       THEN rm' = "idle" /\ rest' = <<>> /\ at' = 0
       ELSE at' = at + 1 /\ UNCHANGED <<rm, rest>>
    /\ UNCHANGED <<arg, newer, named, damaged>>

\* removeClients is interrupted, or a call of it fails.
RemoveCut ==
    /\ rm # "idle"
    /\ damaged' = (damaged \/ rm = "write")
    /\ rm' = "idle" /\ arg' = NoLine /\ rest' = <<>> /\ at' = 0 /\ newer' = {}
    /\ UNCHANGED <<lines, named>>

AuthEvent == \/ \E t \in Token : AddClient(t)
             \/ \E l \in Arg : RemoveReads(l)
AuthStep == RemoveTruncates \/ RemoveWrites \/ RemoveCut

-----------------------------------------------------------------------------
(* Properties *)

AuthTypeOK ==
    /\ lines \in Seq(Line \cup {Garbled})
    /\ rm \in {"idle", "truncate", "write"} /\ arg \in Line \cup {NoLine}
    /\ rest \in Seq(Line \cup {Garbled}) /\ at \in 0..Len(rest)
    /\ newer \subseteq Line /\ named \subseteq Token /\ damaged \in BOOLEAN

\* removeClients empties the file and writes it again (clients.go:72-82) while
\* clients are added: a client that no removal named is authorised whenever no
\* removal is between the two, unless one was cut short there.
UnnamedClientsStay ==
    \A t \in Token \ named :
        (\E l \in ToSet(First) : l.tok = t /\ l.kind # "comment")
            => rm = "write" \/ damaged \/ Authorised(t)

\* removeClients (clients.go:57-82): once it is finished no line equal to its
\* argument is left, other than one that was added after it read the file.
RemovedIsGone ==
    rm = "idle" /\ arg \in ToSet(lines) => arg \in newer
=============================================================================
