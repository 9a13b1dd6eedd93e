--------------------------- MODULE AuthorizedProofs ---------------------------
(***************************************************************************)
(* Proofs about Authorized, for any tokens, any first content of the file  *)
(* and any arguments of removals: what removeClients keeps of a file, and  *)
(* the invariant of the file while it is changed and rewritten unlocked.   *)
(***************************************************************************)
EXTENDS Authorized, WellFoundedInduction, TLAPS

-----------------------------------------------------------------------------
(* Induction *)

\* Induction over the natural numbers for a set of them: were there numbers
\* outside T, the least of them would have its predecessor in T.
LEMMA SetInduction ==
    ASSUME NEW T, T \subseteq Nat, 0 \in T, \A n \in T : n + 1 \in T
    PROVE  T = Nat
<1>1. SUFFICES ASSUME Nat \ T # {} PROVE FALSE
  OBVIOUS
<1> DEFINE R == OpToRel(<, Nat)
<1>2. \A i, j \in Nat : i < j => <<i, j>> \in R
  BY DEF OpToRel
<1>3. IsWellFoundedOn(R, Nat)
  BY NatLessThanWellFounded DEF R
<1> HIDE DEF R
<1>4. PICK x \in Nat \ T : \A y \in Nat \ T : ~ (<<y, x>> \in R)
  BY <1>1, <1>3, WFMin
<1>5. x # 0 /\ x - 1 \in Nat
  OBVIOUS
<1>6. x - 1 \in T
  <2>1. SUFFICES ASSUME x - 1 \in Nat \ T PROVE FALSE
    BY <1>5
  <2>2. x - 1 < x
    BY <1>5
  <2>3. <<x - 1, x>> \in R
    BY <1>2, <2>1, <2>2
  <2> QED BY <1>4, <2>1, <2>3
<1> QED BY <1>5, <1>6

-----------------------------------------------------------------------------
(* What removeClients keeps *)

\* A line is appended to a file.
LEMMA AppendToSet ==
    ASSUME NEW S, NEW s \in Seq(S), NEW x
    PROVE  ToSet(Append(s, x)) = ToSet(s) \cup {x}
<1> DEFINE t == Append(s, x)
<1>1. /\ DOMAIN t = (DOMAIN s) \cup {Len(s) + 1}
      /\ \A i \in DOMAIN s : t[i] = s[i]
      /\ t[Len(s) + 1] = x
  OBVIOUS
<1> HIDE DEF t
<1>2. {t[i] : i \in DOMAIN t} = {s[i] : i \in DOMAIN s} \cup {x}
  BY <1>1
<1> QED BY <1>2 DEF ToSet, t

\* The function that Post computes, on the first n lines.
IsPost(f, n, fps, l) ==
    f = [i \in 0..n |-> IF i = 0 THEN <<>>
                        ELSE IF fps[i] = l THEN f[i - 1]
                        ELSE Append(f[i - 1], fps[i])]

\* The recursion of Post (clients.go:58-70) defines a function.
LEMMA PostExists ==
    ASSUME NEW fps, NEW l, NEW n \in Nat
    PROVE  \E f : IsPost(f, n, fps, l)
<1> DEFINE T == {k \in Nat : \E f : IsPost(f, k, fps, l)}
<1>1. 0 \in T
  <2> DEFINE f == [i \in 0..0 |-> <<>>]
  <2>1. IsPost(f, 0, fps, l)
    BY DEF IsPost
  <2> QED BY <2>1
<1>2. ASSUME NEW k \in T PROVE k + 1 \in T
  <2>1. PICK f : IsPost(f, k, fps, l)
    OBVIOUS
  <2> DEFINE g == [i \in 0..(k + 1) |->
                     IF i <= k THEN f[i]
                     ELSE IF fps[i] = l THEN f[k] ELSE Append(f[k], fps[i])]
  <2>2. \A i \in 0..k : g[i] = f[i]
    OBVIOUS
  <2>3. ASSUME NEW i \in 0..(k + 1)
        PROVE g[i] = IF i = 0 THEN <<>>
                     ELSE IF fps[i] = l THEN g[i - 1] ELSE Append(g[i - 1], fps[i])
    <3>1. CASE i = k + 1
      BY <2>2, <3>1
    <3>2. CASE i # k + 1
      <4>1. i \in 0..k /\ (i # 0 => i - 1 \in 0..k)
        BY <3>2
      <4> QED BY <2>1, <2>2, <4>1 DEF IsPost
    <3> QED BY <3>1, <3>2
  <2>4. IsPost(g, k + 1, fps, l)
    <3> HIDE DEF g
    <3>1. g = [i \in 0..(k + 1) |-> g[i]]
      BY DEF g
    <3> QED BY <2>3, <3>1 DEF IsPost
  <2> QED BY <2>4
<1>3. T = Nat
  <2> HIDE DEF T
  <2>1. T \subseteq Nat
    BY DEF T
  <2> QED BY <1>1, <1>2, <2>1, SetInduction
<1> QED BY <1>3

\* What removeClients keeps is a file without its argument, with every other
\* line, and with no line that was not there (clients.go:57-70).
LEMMA PostKeeps ==
    ASSUME NEW S, NEW fps \in Seq(S), NEW l
    PROVE  /\ Post(fps, l) \in Seq(S)
           /\ ToSet(Post(fps, l)) = ToSet(fps) \ {l}
<1>1. Len(fps) \in Nat /\ DOMAIN fps = 1..Len(fps)
  OBVIOUS
<1>2. PICK f : IsPost(f, Len(fps), fps, l) /\ Post(fps, l) = f[Len(fps)]
  <2> DEFINE g == CHOOSE f : IsPost(f, Len(fps), fps, l)
  <2>1. IsPost(g, Len(fps), fps, l)
    BY <1>1, PostExists, Zenon
  <2>2. Post(fps, l) = g[Len(fps)]
    BY DEF Post, IsPost
  <2> QED BY <2>1, <2>2
<1>3. /\ f[0] = <<>>
      /\ \A i \in 1..Len(fps) :
            f[i] = IF fps[i] = l THEN f[i - 1] ELSE Append(f[i - 1], fps[i])
  <2>1. ASSUME NEW i \in 0..Len(fps)
        PROVE f[i] = IF i = 0 THEN <<>>
                     ELSE IF fps[i] = l THEN f[i - 1] ELSE Append(f[i - 1], fps[i])
    BY <1>2, Zenon DEF IsPost
  <2>2. 0 \in 0..Len(fps) /\ \A i \in 1..Len(fps) : i \in 0..Len(fps) /\ i # 0
    BY <1>1
  <2> QED BY <2>1, <2>2, Zenon
<1> DEFINE Kept(k) == {fps[i] : i \in 1..k} \ {l}
           T == {k \in Nat : k <= Len(fps) => f[k] \in Seq(S) /\ ToSet(f[k]) = Kept(k)}
<1>4. 0 \in T
  <2>1. f[0] \in Seq(S) /\ DOMAIN f[0] = {} /\ 1..0 = {}
    BY <1>3
  <2>2. ToSet(f[0]) = {} /\ Kept(0) = {}
    BY <2>1, Zenon DEF ToSet
  <2> QED BY <2>1, <2>2
<1>5. ASSUME NEW k \in T PROVE k + 1 \in T
  <2> SUFFICES ASSUME k + 1 <= Len(fps)
               PROVE  f[k + 1] \in Seq(S) /\ ToSet(f[k + 1]) = Kept(k + 1)
    OBVIOUS
  <2>1. k + 1 \in 1..Len(fps) /\ fps[k + 1] \in S /\ f[k] \in Seq(S) /\ ToSet(f[k]) = Kept(k)
    BY <1>1
  <2>2. f[k + 1] = IF fps[k + 1] = l THEN f[k] ELSE Append(f[k], fps[k + 1])
    BY <1>3, <2>1
  <2>3. Kept(k + 1) = IF fps[k + 1] = l THEN Kept(k) ELSE Kept(k) \cup {fps[k + 1]}
    <3>1. 1..(k + 1) = (1..k) \cup {k + 1}
      OBVIOUS
    <3> QED BY <3>1
  <2>4. ToSet(Append(f[k], fps[k + 1])) = ToSet(f[k]) \cup {fps[k + 1]}
    BY <2>1, AppendToSet
  <2> QED BY <2>1, <2>2, <2>3, <2>4
<1>6. Len(fps) \in T
  <2> HIDE DEF T
  <2>1. T \subseteq Nat
    BY DEF T
  <2> QED BY <1>1, <1>4, <1>5, <2>1, SetInduction
<1>7. f[Len(fps)] \in Seq(S) /\ ToSet(f[Len(fps)]) = Kept(Len(fps))
  BY <1>1, <1>6
<1>8. Kept(Len(fps)) = ToSet(fps) \ {l}
  BY <1>1, Zenon DEF ToSet
<1> QED BY <1>2, <1>7, <1>8

-----------------------------------------------------------------------------
(* The invariant *)

USE TokenAssumption, LineAssumption, FirstAssumption

\* What of the file's lines makes t an authorised client.
Admits(s, t) == \E i \in 1..Len(s) : s[i].tok = t /\ s[i].kind # "comment"

\* Where a removal stands: it has something to write as long as it writes, and
\* what it has written is there.
Rewriting ==
    /\ rm # "write" => at = 0
    /\ rm = "idle" => rest = <<>>
    /\ rm = "write" => at < Len(rest) /\ at <= Len(lines)
    /\ rm = "write" => \A n \in 1..at : lines[n] = rest[n]

\* A client that no removal named is in the file until it is emptied, and in
\* what the removal writes from the moment the file was read.
Unnamed ==
    \A t \in Token \ named : Admits(First, t) /\ ~damaged =>
        /\ rm # "write" => Admits(lines, t)
        /\ rm # "idle" => Admits(rest, t)

\* The argument of a removal is not in what it writes, and in the emptied file
\* only if it was added since.
Gone ==
    /\ rm # "idle" => arg \in Line /\ \A i \in 1..Len(rest) : rest[i] # arg
    /\ rm # "truncate" => \A i \in 1..Len(lines) : lines[i] = arg => arg \in newer

AuthInv == AuthTypeOK /\ Rewriting /\ Unnamed /\ Gone

\* A file that admits t has it in its set of lines, and the reverse.
LEMMA AdmitsToSet ==
    ASSUME NEW S, NEW s \in Seq(S), NEW t
    PROVE  Admits(s, t) <=> \E l \in ToSet(s) : l.tok = t /\ l.kind # "comment"
<1>1. DOMAIN s = 1..Len(s)
  OBVIOUS
<1>2. ToSet(s) = {s[i] : i \in 1..Len(s)}
  BY <1>1 DEF ToSet
<1> QED BY <1>2 DEF Admits

\* The invariant holds of the file that is there at the start.
LEMMA AuthStarts ==
    ASSUME AuthInit
    PROVE  AuthInv
<1>1. AuthTypeOK
  <2>1. First \in Seq(Line \cup {Garbled})
    OBVIOUS
  <2>2. lines = First /\ rest = <<>> /\ at = 0 /\ newer = {} /\ named = {} /\ rm = "idle" /\ arg = NoLine
    BY DEF AuthInit
  <2>3. damaged \in BOOLEAN
    BY DEF AuthInit
  <2> QED BY <2>1, <2>2, <2>3 DEF AuthTypeOK
<1>2. Rewriting
  BY DEF AuthInit, Rewriting
<1>3. Unnamed
  BY DEF AuthInit, Unnamed
<1>4. Gone
  <2>1. \A i \in 1..Len(First) : First[i] \in Line
    OBVIOUS
  <2> QED BY <2>1 DEF AuthInit, Gone
<1> QED BY <1>1, <1>2, <1>3, <1>4 DEF AuthInv

\* client add (clients.go:29-41), at whatever point of a removal it comes.
LEMMA AddKeeps ==
    ASSUME AuthInv, NEW t \in Token, AddClient(t)
    PROVE  AuthInv'
<1> DEFINE l == [tok |-> t, kind |-> "bare"]
<1>1. l \in Line
  BY DEF Line
<1> HIDE DEF l
<1>2. /\ lines \in Seq(Line \cup {Garbled}) /\ lines' = Append(lines, l)
      /\ newer' = (IF arg = NoLine THEN {} ELSE newer \cup {l})
      /\ UNCHANGED <<rm, arg, rest, at, named, damaged>>
  BY DEF AddClient, AuthInv, AuthTypeOK, l
<1>3. /\ Len(lines') = Len(lines) + 1 /\ Len(lines) \in Nat /\ lines'[Len(lines) + 1] = l
      /\ \A i \in 1..Len(lines) : lines'[i] = lines[i]
      /\ lines' \in Seq(Line \cup {Garbled})
  BY <1>1, <1>2
<1>4. AuthTypeOK'
  BY <1>1, <1>2, <1>3 DEF AuthInv, AuthTypeOK
<1>5. Rewriting'
  BY <1>2, <1>3 DEF AuthInv, AuthTypeOK, Rewriting
<1>6. Unnamed'
  <2>1. ASSUME NEW u, Admits(lines, u) PROVE Admits(lines', u)
    BY <1>3, <2>1 DEF Admits
  <2> QED BY <1>2, <2>1 DEF AuthInv, Unnamed
<1>7. Gone'
  <2>1. (rm # "idle" => arg \in Line /\ \A i \in 1..Len(rest) : rest[i] # arg)'
    BY <1>2 DEF AuthInv, Gone
  <2>2. ASSUME rm' # "truncate", NEW i \in 1..Len(lines'), lines'[i] = arg' PROVE arg' \in newer'
    <3>1. arg # NoLine
      BY <1>2, <1>3, <2>2
    <3>2. CASE i = Len(lines) + 1
      BY <1>2, <1>3, <2>2, <3>1, <3>2
    <3>3. CASE i \in 1..Len(lines)
      BY <1>2, <1>3, <2>2, <3>1, <3>3 DEF AuthInv, Gone
    <3> QED BY <1>3, <3>2, <3>3
  <2> QED BY <2>1, <2>2 DEF Gone
<1> QED BY <1>4, <1>5, <1>6, <1>7 DEF AuthInv

\* removeClients reads the file (clients.go:42-70).
LEMMA ReadKeeps ==
    ASSUME AuthInv, NEW l \in Arg, RemoveReads(l)
    PROVE  AuthInv'
<1>1. /\ rm = "idle" /\ rm' = "truncate" /\ arg' = l /\ rest' = Post(lines, l) /\ newer' = {}
      /\ named' = named \cup {l.tok} /\ at' = 0 /\ UNCHANGED <<lines, damaged>>
  BY DEF RemoveReads
<1>2. l \in Line /\ l.tok \in Token
  BY DEF Line
<1>3. lines \in Seq(Line \cup {Garbled})
  BY DEF AuthInv, AuthTypeOK
<1>4. rest' \in Seq(Line \cup {Garbled}) /\ ToSet(rest') = ToSet(lines) \ {l}
  BY <1>1, <1>3, PostKeeps
<1>5. AuthTypeOK'
  BY <1>1, <1>2, <1>3, <1>4 DEF AuthInv, AuthTypeOK
<1>6. Rewriting'
  BY <1>1 DEF Rewriting
<1>7. Unnamed'
  <2>1. SUFFICES ASSUME NEW t \in Token \ named', Admits(First, t), ~damaged'
                 PROVE  Admits(lines', t) /\ Admits(rest', t)
    BY <1>1 DEF Unnamed
  <2>2. Admits(lines, t) /\ t # l.tok
    BY <1>1, <2>1 DEF AuthInv, Unnamed
  <2>3. PICK k \in ToSet(lines) : k.tok = t /\ k.kind # "comment"
    BY <1>3, <2>2, AdmitsToSet
  <2>4. k \in ToSet(rest')
    BY <1>4, <2>2, <2>3
  <2>5. Admits(rest', t)
    BY <1>4, <2>3, <2>4, AdmitsToSet
  <2> QED BY <1>1, <2>2, <2>5
<1>8. Gone'
  <2>1. l \notin ToSet(rest') /\ DOMAIN rest' = 1..Len(rest')
    BY <1>4
  <2>2. \A i \in 1..Len(rest') : rest'[i] # l
    BY <2>1 DEF ToSet
  <2> QED BY <1>1, <1>2, <2>2 DEF Gone
<1> QED BY <1>5, <1>6, <1>7, <1>8 DEF AuthInv

\* removeClients empties the file (clients.go:72-77).
LEMMA TruncateKeeps ==
    ASSUME AuthInv, RemoveTruncates
    PROVE  AuthInv'
<1>1. /\ rm = "truncate" /\ rm' = (IF rest = <<>> THEN "idle" ELSE "write") /\ lines' = <<>>
      /\ at = 0 /\ UNCHANGED <<at, arg, rest, newer, named, damaged>>
  BY DEF RemoveTruncates, AuthInv, Rewriting
<1>2. rest \in Seq(Line \cup {Garbled})
  BY DEF AuthInv, AuthTypeOK
<1>3. AuthTypeOK'
  BY <1>1 DEF AuthInv, AuthTypeOK
<1>4. Rewriting'
  BY <1>1, <1>2 DEF Rewriting
<1>5. Unnamed'
  <2>1. ASSUME NEW t, Admits(rest, t) PROVE rest # <<>>
    BY <2>1 DEF Admits
  <2> QED BY <1>1, <2>1 DEF AuthInv, Unnamed
<1>6. Gone'
  BY <1>1 DEF AuthInv, Gone
<1> QED BY <1>3, <1>4, <1>5, <1>6 DEF AuthInv

\* A line is written over what is at its place (clients.go:78-80): the lines
\* before it stay, and only what was there, the line itself and a line without
\* a beginning are in the file after it.
LEMMA OverwrittenLines ==
    ASSUME NEW f \in Seq(Line \cup {Garbled}), NEW k \in Nat \ {0}, k <= Len(f) + 1,
           NEW l \in Line \cup {Garbled}, NEW g, g = Overwritten(f, k, l)
    PROVE  /\ g \in Seq(Line \cup {Garbled}) /\ Len(g) >= k /\ g[k] = l
           /\ \A i \in 1..(k - 1) : g[i] = f[i]
           /\ \A i \in 1..Len(g) : g[i] \in {l, Garbled} \/ (i \in 1..Len(f) /\ g[i] = f[i])
<1> DEFINE n == IF k > Len(f) THEN k ELSE Len(f)
<1>1. n \in Nat /\ n >= k /\ n >= Len(f) /\ \A i \in 1..n : i # k => i \in 1..Len(f)
  OBVIOUS
<1>2. g = [j \in 1..n |-> IF j = k THEN l
                          ELSE IF j = k + 1 /\ \E m \in 1..k : rest[m].kind = "named" THEN Garbled
                          ELSE f[j]]
  BY DEF Overwritten
<1> HIDE DEF n
<1>3. \A j \in 1..n : \/ g[j] \in {l, Garbled}
                      \/ j \in 1..Len(f) /\ g[j] = f[j]
  BY <1>1, <1>2
<1>4. g[k] = l /\ \A i \in 1..(k - 1) : g[i] = f[i]
  BY <1>1, <1>2
<1>5. \A j \in 1..n : g[j] \in Line \cup {Garbled}
  BY <1>3
<1>6. g \in Seq(Line \cup {Garbled}) /\ Len(g) = n
  BY <1>1, <1>2, <1>5
<1> QED BY <1>1, <1>3, <1>4, <1>6

\* removeClients writes a line (clients.go:78-82).
LEMMA WriteKeeps ==
    ASSUME AuthInv, RemoveWrites
    PROVE  AuthInv'
<1>1. /\ rm = "write" /\ lines' = Overwritten(lines, at + 1, rest[at + 1])
      /\ UNCHANGED <<arg, newer, named, damaged>>
  BY DEF RemoveWrites
<1>2. /\ lines \in Seq(Line \cup {Garbled}) /\ rest \in Seq(Line \cup {Garbled})
      /\ at \in Nat /\ at < Len(rest) /\ at <= Len(lines)
      /\ \A n \in 1..at : lines[n] = rest[n]
  BY <1>1 DEF AuthInv, AuthTypeOK, Rewriting
<1>3. at + 1 \in Nat \ {0} /\ at + 1 <= Len(lines) + 1 /\ rest[at + 1] \in Line \cup {Garbled}
  BY <1>2
<1>4. /\ lines' \in Seq(Line \cup {Garbled}) /\ Len(lines') >= at + 1 /\ lines'[at + 1] = rest[at + 1]
      /\ \A i \in 1..at : lines'[i] = lines[i]
      /\ \A i \in 1..Len(lines') : \/ lines'[i] \in {rest[at + 1], Garbled}
                                   \/ i \in 1..Len(lines) /\ lines'[i] = lines[i]
  <2>1. (at + 1) - 1 = at
    BY <1>2
  <2> DEFINE k == at + 1
             l == rest[at + 1]
  <2>2. lines' = Overwritten(lines, k, l) /\ k \in Nat \ {0} /\ k <= Len(lines) + 1 /\ l \in Line \cup {Garbled}
    BY <1>1, <1>3
  <2> HIDE DEF k, l
  <2>3. /\ lines' \in Seq(Line \cup {Garbled}) /\ Len(lines') >= k /\ lines'[k] = l
        /\ \A i \in 1..(k - 1) : lines'[i] = lines[i]
        /\ \A i \in 1..Len(lines') : lines'[i] \in {l, Garbled} \/ (i \in 1..Len(lines) /\ lines'[i] = lines[i])
    BY <1>2, <2>2, OverwrittenLines
  <2> QED BY <2>1, <2>3 DEF k, l
<1>5. \A n \in 1..(at + 1) : lines'[n] = rest[n]
  <2>1. 1..(at + 1) = (1..at) \cup {at + 1}
    BY <1>2
  <2> QED BY <1>2, <1>4, <2>1
<1>6. Gone'
  <2>1. Garbled \notin Line
    BY DEF Garbled, Line
  <2>2. arg \in Line /\ rest[at + 1] # arg /\ \A i \in 1..Len(rest) : rest[i] # arg
    BY <1>1, <1>2 DEF AuthInv, Gone
  <2>3. \A i \in 1..Len(lines') : lines'[i] = arg => arg \in newer
    BY <1>1, <1>4, <2>1, <2>2 DEF AuthInv, Gone
  <2>4. rest' \in {rest, <<>>} /\ (rm' # "idle" => rest' = rest)
    BY <1>1 DEF RemoveWrites
  <2> QED BY <1>1, <2>2, <2>3, <2>4 DEF Gone
<1>7. CASE at + 1 = Len(rest)
  <2>1. rm' = "idle" /\ rest' = <<>> /\ at' = 0
    BY <1>7 DEF RemoveWrites
  <2>2. AuthTypeOK'
    BY <1>1, <1>4, <2>1 DEF AuthInv, AuthTypeOK
  <2>3. Rewriting'
    BY <2>1 DEF Rewriting
  <2>4. ASSUME NEW t, Admits(rest, t) PROVE Admits(lines', t)
    BY <1>2, <1>4, <1>5, <1>7, <2>4 DEF Admits
  <2>5. Unnamed'
    BY <1>1, <2>1, <2>4 DEF AuthInv, Unnamed
  <2> QED BY <1>6, <2>2, <2>3, <2>5 DEF AuthInv
<1>8. CASE at + 1 # Len(rest)
  <2>1. at' = at + 1 /\ UNCHANGED <<rm, rest>>
    BY <1>8 DEF RemoveWrites
  <2>2. AuthTypeOK'
    BY <1>1, <1>2, <1>4, <2>1 DEF AuthInv, AuthTypeOK
  <2>3. Rewriting'
    BY <1>1, <1>2, <1>4, <1>5, <1>8, <2>1 DEF Rewriting
  <2>4. Unnamed'
    BY <1>1, <2>1 DEF AuthInv, Unnamed
  <2> QED BY <1>6, <2>2, <2>3, <2>4 DEF AuthInv
<1> QED BY <1>7, <1>8

\* A removal is interrupted, or one of its calls fails (clients.go:54, 72-81).
LEMMA CutKeeps ==
    ASSUME AuthInv, RemoveCut
    PROVE  AuthInv'
<1>1. /\ rm' = "idle" /\ arg' = NoLine /\ rest' = <<>> /\ at' = 0 /\ newer' = {}
      /\ damaged' = (damaged \/ rm = "write") /\ UNCHANGED <<lines, named>>
  BY DEF RemoveCut
<1>2. lines \in Seq(Line \cup {Garbled}) /\ damaged \in BOOLEAN
  BY DEF AuthInv, AuthTypeOK
<1>3. AuthTypeOK'
  <2>1. damaged' \in BOOLEAN
    BY <1>1, <1>2, Zenon
  <2> QED BY <1>1, <1>2, <2>1 DEF AuthInv, AuthTypeOK
<1>4. Rewriting'
  BY <1>1 DEF Rewriting
<1>5. Unnamed'
  <2>1. ASSUME NEW t \in Token \ named, Admits(First, t), ~damaged'
        PROVE Admits(lines, t)
    <3>1. ~damaged /\ rm # "write"
      BY <1>1, <2>1, Zenon
    <3> QED BY <2>1, <3>1, Zenon DEF AuthInv, Unnamed
  <2> QED BY <1>1, <2>1, Zenon DEF Unnamed, Admits
<1>6. Gone'
  <2>1. \A i \in 1..Len(lines) : lines[i] \in Line \cup {Garbled}
    BY <1>2
  <2> QED BY <1>1, <2>1 DEF Gone
<1> QED BY <1>3, <1>4, <1>5, <1>6 DEF AuthInv

\* Whatever happens to the file keeps the invariant.
LEMMA AuthKeeps ==
    ASSUME AuthInv, \/ AuthEvent \/ AuthStep \/ UNCHANGED fileVars
    PROVE  AuthInv'
<1>1. CASE UNCHANGED fileVars
  <2>1. UNCHANGED <<lines, rm, arg, rest, at, newer, named, damaged>>
    BY <1>1 DEF fileVars
  <2> QED BY <2>1 DEF AuthInv, AuthTypeOK, Rewriting, Unnamed, Gone
<1> QED BY <1>1, AddKeeps, ReadKeeps, TruncateKeeps, WriteKeeps, CutKeeps DEF AuthEvent, AuthStep

\* What the invariant says of the two properties.
LEMMA AuthShows ==
    ASSUME AuthInv
    PROVE  UnnamedClientsStay /\ RemovedIsGone
<1>1. lines \in Seq(Line \cup {Garbled}) /\ First \in Seq(Line)
  BY DEF AuthInv, AuthTypeOK
<1>2. UnnamedClientsStay
  <2>1. ASSUME NEW t \in Token \ named, \E l \in ToSet(First) : l.tok = t /\ l.kind # "comment"
        PROVE rm = "write" \/ damaged \/ Authorised(t)
    <3>1. Admits(First, t)
      BY <1>1, <2>1, AdmitsToSet
    <3>2. rm = "write" \/ damaged \/ Admits(lines, t)
      BY <3>1 DEF AuthInv, Unnamed
    <3> QED BY <1>1, <3>2, AdmitsToSet DEF Authorised
  <2> QED BY <2>1 DEF UnnamedClientsStay
<1>3. RemovedIsGone
  <2>1. DOMAIN lines = 1..Len(lines)
    BY <1>1
  <2>2. ASSUME rm = "idle", arg \in ToSet(lines) PROVE arg \in newer
    <3>1. PICK i \in 1..Len(lines) : lines[i] = arg
      BY <2>1, <2>2 DEF ToSet
    <3> QED BY <2>2, <3>1 DEF AuthInv, Gone
  <2> QED BY <2>2 DEF RemovedIsGone
<1> QED BY <1>2, <1>3
=============================================================================
