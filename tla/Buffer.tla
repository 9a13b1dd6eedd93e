-------------------------------- MODULE Buffer --------------------------------
(***************************************************************************)
(* The ring buffer with markers that keeps a pane's latest output          *)
(* (src/peers/buffer.go).                                                  *)
(*                                                                         *)
(* Add is called by the pane's sender goroutine, Mark by the control       *)
(* channel's handler and GetSinceMarker by the timer of Pane.Restore.      *)
(* Each holds buffer.m from its first to its last line, so a caller is     *)
(* inside one of them only when mx says so; the loops of Add and of        *)
(* GetSinceMarker take one step per byte.                                  *)
(***************************************************************************)
EXTENDS Integers, Sequences

CONSTANTS Size,      \* buffer.size (pane.go: 100000)
          Byte,      \* the values of a byte
          Zero,      \* the byte make([]byte, size) fills the buffer with
          MarkerId,  \* the marker ids the control channel hands out
          MaxSlice,  \* bound: the longest slice given to Add
          MaxAdded   \* bound: how many bytes are ever added

ASSUME SizeAssumption == Size \in Nat \ {0}
ASSUME ZeroAssumption == Zero \in Byte
ASSUME MarkerIdAssumption == MarkerId \subseteq Nat
ASSUME BoundsAssumption == MaxSlice \in Nat /\ MaxAdded \in Nat

Absent == -2     \* the Go map has no entry for the id
LostMarker == -1 \* the value Add gives to a marker it overruns
Whole == -1      \* the id that asks for the whole buffer

VARIABLES
    data,     \* buffer.data
    end,      \* buffer.end
    markers,  \* buffer.markers
    mx,       \* who holds buffer.m: "free", "add" or "get"
    todo,     \* Add: the part of b still to be copied
    gid,      \* GetSinceMarker: its argument id
    i,        \* GetSinceMarker: the loop variable
    stop,     \* GetSinceMarker: the local end
    r,        \* GetSinceMarker: the slice it builds; after it, what it returned
    hist,     \* history: every byte added so far
    markPos   \* history: Len(hist) when the marker was set, -1 when there is none

ring == <<data, end, markers>>
get  == <<gid, i, stop, r>>
vars == <<data, end, markers, mx, todo, gid, i, stop, r, hist, markPos>>

-----------------------------------------------------------------------------
(* State and steps *)

NewBuffer == /\ data = [k \in 0..(Size - 1) |-> Zero]
             /\ end = 0
             /\ markers = [id \in MarkerId |-> Absent]

Init == /\ NewBuffer
        /\ mx = "free" /\ todo = <<>>
        /\ gid = Whole /\ i = 0 /\ stop = 0 /\ r = <<>>
        /\ hist = <<>> /\ markPos = [id \in MarkerId |-> -1]

\* Reading a key the map does not hold yields 0.
Lookup(id) == IF markers[id] = Absent THEN 0 ELSE markers[id]

AddLock(b) ==
    /\ mx = "free"
    /\ Len(hist) + Len(b) <= MaxAdded
    /\ mx' = "add" /\ todo' = b
    /\ UNCHANGED <<ring, get, hist, markPos>>

\* Slips: the wrap at the end is missing; it comes one slot early.
NextEndPastArray == end + 1
NextEndTooEarly == IF end + 2 = Size THEN 0 ELSE end + 1

\* Where the byte after this one goes.
NextEnd == IF end + 1 = Size THEN 0 ELSE end + 1

\* Slip: markers are overrun one byte too late.
OverrunLate(e) ==
    [id \in MarkerId |-> IF markers[id] >= 0 /\ (markers[id] + 1) % Size = e
                         THEN LostMarker ELSE markers[id]]

\* The markers at the new end have just lost their first byte.
Overrun(e) == [id \in MarkerId |-> IF markers[id] = e THEN LostMarker ELSE markers[id]]

\* One iteration of Add's loop.
AddByte ==
    /\ mx = "add" /\ todo # <<>>
    /\ data' = [data EXCEPT ![end] = Head(todo)]
    /\ end' = NextEnd
    /\ markers' = Overrun(NextEnd)
    /\ todo' = Tail(todo)
    /\ hist' = Append(hist, Head(todo))
    /\ UNCHANGED <<mx, get, markPos>>

AddUnlock ==
    /\ mx = "add" /\ todo = <<>>
    /\ mx' = "free"
    /\ UNCHANGED <<ring, todo, get, hist, markPos>>

Mark(id) ==
    /\ mx = "free"
    /\ markers' = [markers EXCEPT ![id] = end]
    /\ markPos' = [markPos EXCEPT ![id] = Len(hist)]
    /\ UNCHANGED <<data, end, mx, todo, get, hist>>

\* The marker is lost in history, or there is none: send all the buffer.
SendAll(id) == id = Whole \/ Lookup(id) = LostMarker

GetStart(id) == IF SendAll(id) THEN end ELSE Lookup(id)

\* Slips: the end of the whole buffer is taken for a live marker too; it is one
\* past what the loop variable reaches.
GetEndAlwaysWhole(id) == IF end = 0 THEN Size ELSE end - 1
GetEndPastSize(id) == IF SendAll(id)
                      THEN IF end = 0 THEN Size + 1 ELSE end - 1
                      ELSE end

GetEnd(id) == IF SendAll(id)
              THEN IF end = 0 THEN Size ELSE end - 1
              ELSE end

GetLock(id) ==
    /\ mx = "free"
    /\ mx' = "get" /\ gid' = id
    /\ i' = GetStart(id) /\ stop' = GetEnd(id)
    /\ r' = <<>>
    /\ UNCHANGED <<ring, todo, hist, markPos>>

\* Slip: the loop goes on from slot 1 after the last one.
SlotAfterFirst == IF i = Size THEN 1 ELSE i

\* The slot an iteration of the loop reads.
Slot == IF i = Size THEN 0 ELSE i

\* One iteration of GetSinceMarker's loop.  r stops growing one byte past
\* Size: no property tells longer slices apart.
GetByte ==
    /\ mx = "get" /\ i # stop
    /\ r' = IF Len(r) > Size THEN r ELSE Append(r, data[Slot])
    /\ i' = Slot + 1
    /\ UNCHANGED <<ring, mx, todo, gid, stop, hist, markPos>>

\* The loop is over: delete the marker, unlock and return r.
GetReturn ==
    /\ mx = "get" /\ i = stop
    /\ mx' = "free"
    /\ markers' = [id \in MarkerId |-> IF id = gid THEN Absent ELSE markers[id]]
    /\ markPos' = [id \in MarkerId |-> IF id = gid THEN -1 ELSE markPos[id]]
    /\ UNCHANGED <<data, end, todo, get, hist>>

Slices == UNION {[1..k -> Byte] : k \in 0..MaxSlice}

Next == \/ \E b \in Slices : AddLock(b)
        \/ AddByte
        \/ AddUnlock
        \/ \E id \in MarkerId : Mark(id)
        \/ \E id \in MarkerId \cup {Whole} : GetLock(id)
        \/ GetByte
        \/ GetReturn

Spec == Init /\ [][Next]_vars

\* A goroutine inside the buffer keeps running: the steps taken under the
\* lock wait for nobody.  That callers come is not assumed.
Fairness == WF_vars(AddByte \/ AddUnlock \/ GetByte \/ GetReturn)

FairSpec == Spec /\ Fairness

-----------------------------------------------------------------------------
(* What the buffer holds *)

TypeOK ==
    /\ data \in [0..(Size - 1) -> Byte]
    /\ end \in 0..(Size - 1)
    /\ markers \in [MarkerId -> {Absent, LostMarker} \cup 0..(Size - 1)]
    /\ mx \in {"free", "add", "get"}
    /\ todo \in Seq(Byte)
    /\ gid \in MarkerId \cup {Whole}
    /\ i \in 0..Size
    /\ stop \in 0..Size
    /\ r \in Seq(Byte)
    /\ hist \in Seq(Byte)
    /\ markPos \in [MarkerId -> {-1} \cup Nat]

\* The j-th byte added, preceded by the zeroes of a fresh buffer.
At(j) == IF j <= 0 THEN Zero ELSE hist[j]

\* How many bytes had been added when end was last 0.
Base == Len(hist) - end

\* The bytes that are at the positions after p, up to position q.
Stretch(p, q) == [j \in 1..(q - p) |-> At(p + j)]

\* Add (buffer.go:24-39): whatever the sequence of additions and wraps, the
\* slots hold exactly the last Size bytes, the older lap after the newer.
RingHoldsLatest ==
    \A k \in 0..(Size - 1) :
        data[k] = At(Base + k + 1 - (IF k < end THEN 0 ELSE Size))

\* GetSinceMarker has built what it is about to return.
Returning == mx = "get" /\ i = stop

Live(id) == id # Whole /\ markers[id] >= 0

\* GetSinceMarker (buffer.go:48-82): what it returns for a live marker is
\* every byte added since the mark, in order, none twice and none missing,
\* wherever in the ring the mark and the end are.
LiveMarkerExact ==
    Returning /\ Live(gid) => r = Stretch(markPos[gid], Len(hist))

\* The loop of GetSinceMarker (buffer.go:70-75) ends, and so releases the
\* lock the pane's sender needs, unless it has to stop in front of slot 0
\* after starting elsewhere.
GetEndsOffSlotZero == (mx = "get" /\ (stop # 0 \/ i = 0)) ~> mx = "free"

\* The position GetSinceMarker's answer starts from: the oldest byte kept for
\* a lost marker, slot 0 for an id the map does not hold.
From(id) == IF SendAll(id) THEN Len(hist) - Size
            ELSE IF markers[id] = Absent THEN Base ELSE markPos[id]

\* The loop of GetSinceMarker: it has copied the bytes after From, in order,
\* going up from the start and, where the stop is below it, once around the
\* end of the ring.  In the case GetReturns is about it passes slot 0 without
\* ever comparing 0 with the stop.
LoopCopiesInOrder ==
    mx = "get" =>
        LET start == GetStart(gid)
        IN  /\ stop = GetEnd(gid)
            /\ stop = 0 /\ start # 0 => i \in 1..Size
            /\ stop # 0 \/ start = 0 =>
                  /\ \A j \in 1..Len(r) : r[j] = At(From(gid) + j)
                  /\ \/ /\ i = start + Len(r)
                        /\ i <= (IF start <= stop THEN stop ELSE Size)
                     \/ /\ start > stop
                        /\ i = Len(r) - (Size - start)
                        /\ i \in 1..stop

-----------------------------------------------------------------------------
(* What the code's comments say and the code does not do *)

\* buffer.go:48: "GetSinceMarker returns a byte slice with all the accumlated
\* data since a given marker id": it returns.
GetReturns == mx = "get" ~> mx = "free"

\* buffer.go:49-50: "If the marker is too ancient cycle or id is -1 then all the
\* buffer's data is returned".  The loop stops in front of slot end - 1, which
\* holds the newest byte (buffer.go:64), also when the ring is full.
LostMarkerGetsAll ==
    Returning /\ SendAll(gid) /\ Len(hist) >= Size
        => r = Stretch(Len(hist) - Size, Len(hist))

-----------------------------------------------------------------------------
(* The buffer implements the marked log *)

Log == INSTANCE MarkedLog WITH
           log <- hist, pos <- markPos,
           pending <- IF mx = "get" THEN gid ELSE -2,
           reply <- IF mx = "get" THEN <<>> ELSE r

LogSpec == Log!Spec
=============================================================================
