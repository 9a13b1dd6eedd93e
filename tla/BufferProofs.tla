---------------------------- MODULE BufferProofs ----------------------------
(***************************************************************************)
(* Proofs about Buffer, for every size, byte set and set of marker ids:    *)
(* the invariants TLC checks on a ring of three slots, and that the buffer *)
(* implements the marked log.                                              *)
(***************************************************************************)
EXTENDS Buffer, TLAPS

USE SizeAssumption, ZeroAssumption, MarkerIdAssumption DEF Absent, LostMarker, Whole

\* The state of buffer.go keeps its types: end and every live marker stay
\* inside the ring, and the loop variable of GetSinceMarker never indexes
\* past the slice (a Go panic).
THEOREM TypeCorrect == Spec => []TypeOK
<1>1. Init => TypeOK
  BY DEF Init, NewBuffer, TypeOK
<1>2. TypeOK /\ [Next]_vars => TypeOK'
  <2> SUFFICES ASSUME TypeOK, [Next]_vars PROVE TypeOK'
    OBVIOUS
  <2> USE DEF TypeOK, ring, get
  <2>1. ASSUME NEW b \in Slices, AddLock(b) PROVE TypeOK'
    <3>1. b \in Seq(Byte)
      BY BoundsAssumption DEF Slices
    <3> QED BY <2>1, <3>1 DEF AddLock
  <2>2. CASE AddByte
    <3>1. Head(todo) \in Byte /\ Tail(todo) \in Seq(Byte)
      BY <2>2 DEF AddByte
    <3> QED BY <2>2, <3>1 DEF AddByte, NextEnd, Overrun
  <2>3. CASE AddUnlock
    BY <2>3 DEF AddUnlock
  <2>4. ASSUME NEW id \in MarkerId, Mark(id) PROVE TypeOK'
    BY <2>4 DEF Mark
  <2>5. ASSUME NEW id \in MarkerId \cup {Whole}, GetLock(id) PROVE TypeOK'
    <3>1. GetStart(id) \in 0..Size /\ GetEnd(id) \in 0..Size
      BY DEF GetStart, GetEnd, SendAll, Lookup
    <3> QED BY <2>5, <3>1 DEF GetLock
  <2>6. CASE GetByte
    <3>1. Slot \in 0..(Size - 1)
      BY DEF Slot
    <3>2. data[Slot] \in Byte /\ i' \in 0..Size
      BY <2>6, <3>1 DEF GetByte
    <3>3. r' \in Seq(Byte)
      BY <2>6, <3>2 DEF GetByte
    <3> QED BY <2>6, <3>2, <3>3 DEF GetByte
  <2>7. CASE GetReturn
    BY <2>7 DEF GetReturn
  <2>8. CASE UNCHANGED vars
    BY <2>8 DEF vars
  <2> QED BY <2>1, <2>2, <2>3, <2>4, <2>5, <2>6, <2>7, <2>8 DEF Next
<1> QED BY <1>1, <1>2, PTL DEF Spec

\* Add's marker loop (buffer.go:32-36) and Mark: a marker the code takes for
\* live names the slot of the first byte after the mark, and that byte has
\* not been overwritten; one it takes for lost has been overtaken.
MarkersNamePositions ==
    \A id \in MarkerId :
        /\ markers[id] = Absent <=> markPos[id] = -1
        /\ markers[id] = LostMarker => Len(hist) - markPos[id] >= Size
        /\ markers[id] >= 0 =>
               markPos[id] = Base + markers[id] - (IF markers[id] <= end THEN 0 ELSE Size)

\* What the ring and its markers hold between two steps: the inductive
\* invariant behind the theorems on GetSinceMarker.
RingInv == TypeOK /\ RingHoldsLatest /\ MarkersNamePositions

\* Add and Mark (buffer.go:24-46): the slots hold the latest bytes, a live
\* marker names the first byte after its mark and a lost one was overtaken.
THEOREM RingCorrect == Spec => [](RingHoldsLatest /\ MarkersNamePositions)
<1>1. Init => RingInv
  BY DEF Init, NewBuffer, RingInv, TypeOK, RingHoldsLatest, MarkersNamePositions, At, Base
<1>2. TypeOK /\ TypeOK' /\ RingInv /\ [Next]_vars => RingInv'
  <2> SUFFICES ASSUME TypeOK, TypeOK', RingHoldsLatest, MarkersNamePositions, [Next]_vars
               PROVE RingHoldsLatest' /\ MarkersNamePositions'
    BY DEF RingInv
  <2>1. CASE AddByte
    <3> DEFINE b == Head(todo)
    <3>1. /\ b \in Byte /\ end \in 0..(Size - 1) /\ hist \in Seq(Byte)
          /\ data \in [0..(Size - 1) -> Byte]
      BY <2>1 DEF AddByte, TypeOK
    <3>2. /\ data' = [data EXCEPT ![end] = b]
          /\ end' = (IF end + 1 = Size THEN 0 ELSE end + 1)
          /\ hist' = Append(hist, b)
          /\ markPos' = markPos
      BY <2>1 DEF AddByte, NextEnd
    <3> HIDE DEF b
    <3>3. /\ Len(hist') = Len(hist) + 1 /\ Len(hist) \in Nat
          /\ hist'[Len(hist) + 1] = b
          /\ \A j \in 1..Len(hist) : hist'[j] = hist[j]
      BY <3>1, <3>2
    <3>4. /\ Base \in Int /\ Base' \in Int /\ end \in 0..(Size - 1) /\ end' \in 0..(Size - 1)
          /\ Len(hist) = Base + end /\ Len(hist') = Base + end + 1
          /\ end + 1 = Size => end' = 0 /\ Base' = Base + Size
          /\ end + 1 # Size => end' = end + 1 /\ Base' = Base
      <4>1. Base = Len(hist) - end /\ Base' = Len(hist') - end'
        BY DEF Base
      <4>2. end \in 0..(Size - 1) /\ Len(hist) \in Nat /\ Len(hist') = Len(hist) + 1
        BY <3>1, <3>3
      <4>3. end + 1 = Size => end' = 0
        BY <3>2
      <4>4. end + 1 # Size => end' = end + 1
        BY <3>2
      <4>5. CASE end + 1 = Size
        BY <4>1, <4>2, <4>3, <4>5
      <4>6. CASE end + 1 # Size
        BY <4>1, <4>2, <4>4, <4>6
      <4> QED BY <4>5, <4>6
    <3>5. \A j \in Int : j <= Len(hist) => At(j)' = At(j)
      BY <3>3 DEF At
    <3>6. \A j \in Int : j = Len(hist) + 1 => At(j)' = b
      BY <3>3 DEF At
    <3>7. RingHoldsLatest'
      <4> SUFFICES ASSUME NEW k \in 0..(Size - 1), NEW p \in Int,
                          p = Base' + k + 1 - (IF k < end' THEN 0 ELSE Size)
                   PROVE data'[k] = At(p)'
        <5>1. \A k \in 0..(Size - 1) : Base' + k + 1 - (IF k < end' THEN 0 ELSE Size) \in Int
          BY <3>4
        <5> QED BY <5>1 DEF RingHoldsLatest, At
      <4>1. CASE k = end
        <5>1. p = Len(hist) + 1
          <6>1. CASE end + 1 = Size
            BY <3>4, <4>1, <6>1
          <6>2. CASE end + 1 # Size
            BY <3>4, <4>1, <6>2
          <6> QED BY <6>1, <6>2
        <5> QED BY <3>1, <3>2, <3>6, <4>1, <5>1
      <4>2. CASE k # end
        <5>1. p = Base + k + 1 - (IF k < end THEN 0 ELSE Size)
          <6>1. CASE end + 1 = Size
            BY <3>4, <4>2, <6>1
          <6>2. CASE end + 1 # Size
            BY <3>4, <4>2, <6>2
          <6> QED BY <6>1, <6>2
        <5>2. p <= Len(hist)
          <6>1. /\ Base \in Int /\ end \in 0..(Size - 1) /\ Len(hist) = Base + end
            BY <3>4
          <6>2. CASE k < end
            <7>1. p = Base + k + 1
              BY <5>1, <6>1, <6>2
            <7> QED BY <6>1, <6>2, <7>1
          <6>3. CASE k > end
            <7>1. p = Base + k + 1 - Size
              BY <5>1, <6>1, <6>3
            <7> QED BY <6>1, <6>3, <7>1
          <6> QED BY <4>2, <6>1, <6>2, <6>3
        <5>3. data[k] = At(p)
          BY <5>1 DEF RingHoldsLatest
        <5> QED BY <3>1, <3>2, <3>5, <4>2, <5>2, <5>3
      <4> QED BY <4>1, <4>2
    <3>8. MarkersNamePositions'
      <4> SUFFICES ASSUME NEW id \in MarkerId
                   PROVE /\ markers'[id] = Absent <=> markPos'[id] = -1
                         /\ markers'[id] = LostMarker => Len(hist') - markPos'[id] >= Size
                         /\ markers'[id] >= 0 =>
                              markPos'[id] = Base' + markers'[id]
                                  - (IF markers'[id] <= end' THEN 0 ELSE Size)
        BY DEF MarkersNamePositions
      <4>1. /\ markers[id] = Absent <=> markPos[id] = -1
            /\ markers[id] = LostMarker => Len(hist) - markPos[id] >= Size
            /\ markers[id] >= 0 =>
                 markPos[id] = Base + markers[id] - (IF markers[id] <= end THEN 0 ELSE Size)
        BY DEF MarkersNamePositions
      <4>2. markers'[id] = IF markers[id] = end' THEN LostMarker ELSE markers[id]
        BY <2>1 DEF AddByte, Overrun, NextEnd
      <4>3. /\ markers[id] \in {Absent, LostMarker} \cup 0..(Size - 1)
            /\ markPos[id] \in {-1} \cup Nat /\ markPos'[id] = markPos[id]
        BY <3>2 DEF TypeOK
      <4>4. CASE markers[id] < 0
        <5>1. markers'[id] = markers[id] /\ markPos'[id] = markPos[id]
          BY <3>1, <3>2, <4>2, <4>4
        <5> QED BY <3>3, <4>1, <4>3, <4>4, <5>1
      <4>5. CASE markers[id] >= 0 /\ end + 1 = Size
        <5>1. /\ Base \in Int /\ Base' = Base + Size /\ Len(hist') = Base + Size
              /\ end = Size - 1 /\ end' = 0
          BY <3>4, <4>5
        <5>2. markers[id] \in 0..(Size - 1)
          BY <4>3, <4>5
        <5>3. markPos[id] = Base + markers[id] /\ markPos[id] # -1
          BY <4>1, <4>5, <5>1, <5>2
        <5>4. CASE markers[id] = 0
          <6>1. markers'[id] = LostMarker
            BY <4>2, <5>1, <5>4
          <6> QED BY <4>3, <5>1, <5>3, <5>4, <6>1
        <5>5. CASE markers[id] # 0
          <6>1. markers'[id] = markers[id] /\ ~(markers'[id] <= end')
            BY <4>2, <5>1, <5>2, <5>5
          <6> QED BY <4>3, <5>1, <5>2, <5>3, <6>1
        <5> QED BY <5>4, <5>5
      <4>6. CASE markers[id] >= 0 /\ end + 1 # Size
        <5>1. end' = end + 1 /\ Base' = Base
          BY <3>4, <4>6
        <5>2. CASE markers[id] = end + 1
          <6>1. markers'[id] = LostMarker /\ markPos'[id] = Base + end + 1 - Size
            BY <3>4, <4>1, <4>2, <4>3, <5>1, <5>2
          <6>2. markPos'[id] # -1
            BY <4>1, <4>3, <4>6
          <6> QED BY <3>4, <4>3, <6>1, <6>2
        <5>3. CASE markers[id] # end + 1
          <6>1. markers'[id] = markers[id] /\ (markers[id] <= end <=> markers[id] <= end')
            BY <3>4, <4>2, <4>3, <5>1, <5>3
          <6> QED BY <3>4, <4>1, <4>3, <4>6, <5>1, <6>1
        <5> QED BY <5>2, <5>3
      <4> QED BY <4>3, <4>4, <4>5, <4>6
    <3> QED BY <3>7, <3>8
  <2>2. ASSUME NEW id \in MarkerId, Mark(id)
        PROVE RingHoldsLatest' /\ MarkersNamePositions'
    <3>1. RingHoldsLatest'
      BY <2>2 DEF Mark, RingHoldsLatest, At, Base
    <3>2. MarkersNamePositions'
      <4>1. /\ end \in 0..(Size - 1) /\ Len(hist) \in Nat /\ Base = Len(hist) - end
            /\ end' = end /\ Len(hist') = Len(hist) /\ Base' = Base
        BY <2>2 DEF Mark, TypeOK, Base
      <4>2. /\ markers'[id] = end /\ markPos'[id] = Len(hist)
        BY <2>2 DEF Mark, TypeOK
      <4>3. \A m \in MarkerId : m # id => markers'[m] = markers[m] /\ markPos'[m] = markPos[m]
        BY <2>2 DEF Mark, TypeOK
      <4> SUFFICES ASSUME NEW m \in MarkerId
                   PROVE /\ markers'[m] = Absent <=> markPos'[m] = -1
                         /\ markers'[m] = LostMarker => Len(hist') - markPos'[m] >= Size
                         /\ markers'[m] >= 0 =>
                              markPos'[m] = Base' + markers'[m]
                                  - (IF markers'[m] <= end' THEN 0 ELSE Size)
        BY DEF MarkersNamePositions
      <4>4. CASE m = id
        BY <4>1, <4>2, <4>4
      <4>5. CASE m # id
        <5>1. /\ markers[m] = Absent <=> markPos[m] = -1
              /\ markers[m] = LostMarker => Len(hist) - markPos[m] >= Size
              /\ markers[m] >= 0 =>
                   markPos[m] = Base + markers[m] - (IF markers[m] <= end THEN 0 ELSE Size)
          BY DEF MarkersNamePositions
        <5> QED BY <4>1, <4>3, <4>5, <5>1
      <4> QED BY <4>4, <4>5
    <3> QED BY <3>1, <3>2
  <2>3. CASE GetReturn
    <3>1. RingHoldsLatest'
      BY <2>3 DEF GetReturn, RingHoldsLatest, At, Base
    <3>2. MarkersNamePositions'
      BY <2>3 DEF GetReturn, MarkersNamePositions, Base, TypeOK
    <3> QED BY <3>1, <3>2
  <2>4. ASSUME UNCHANGED <<data, end, markers, hist, markPos>>
        PROVE RingHoldsLatest' /\ MarkersNamePositions'
    BY <2>4 DEF RingHoldsLatest, MarkersNamePositions, At, Base
  <2>5. ASSUME NEW b \in Slices, AddLock(b)
        PROVE UNCHANGED <<data, end, markers, hist, markPos>>
    BY <2>5 DEF AddLock, ring
  <2>6. ASSUME NEW id \in MarkerId \cup {Whole}, GetLock(id)
        PROVE UNCHANGED <<data, end, markers, hist, markPos>>
    BY <2>6 DEF GetLock, ring
  <2>7. ASSUME AddUnlock \/ GetByte \/ UNCHANGED vars
        PROVE UNCHANGED <<data, end, markers, hist, markPos>>
    BY <2>7 DEF AddUnlock, GetByte, ring, vars
  <2> QED BY <2>1, <2>2, <2>3, <2>4, <2>5, <2>6, <2>7 DEF Next
<1> QED BY <1>1, <1>2, TypeCorrect, PTL DEF Spec, RingInv

\* Add's marker loop and Mark (buffer.go:24-46): a marker taken for live names
\* the slot of the first byte after its mark and that byte is still there, one
\* taken for lost was overtaken.
THEOREM MarkersCorrect == Spec => []MarkersNamePositions
BY RingCorrect, PTL

-----------------------------------------------------------------------------
(* GetSinceMarker *)

\* A ring that is in order gives the loop, at every slot it reads, the byte
\* that comes next: the step from RingInv to the loop invariant.
LEMMA SlotHoldsNext ==
    ASSUME TypeOK, RingHoldsLatest, MarkersNamePositions, LoopCopiesInOrder,
           mx = "get", i # stop, stop # 0 \/ GetStart(gid) = 0
    PROVE  /\ Slot \in 0..(Size - 1)
           /\ Len(r) \in 0..Size
           /\ data[Slot] = At(From(gid) + Len(r) + 1)
           /\ \/ /\ Slot + 1 = GetStart(gid) + Len(r) + 1
                 /\ Slot + 1 <= (IF GetStart(gid) <= stop THEN stop ELSE Size)
              \/ /\ GetStart(gid) > stop
                 /\ Slot + 1 = Len(r) + 1 - (Size - GetStart(gid))
                 /\ Slot + 1 \in 1..stop
<1> DEFINE start == GetStart(gid)
           n == Len(hist)
           k == Len(r)
<1>1. /\ end \in 0..(Size - 1) /\ i \in 0..Size /\ n \in Nat /\ k \in Nat
      /\ Base = n - end /\ stop \in 0..Size
  BY DEF TypeOK, Base
<1>2. /\ stop = GetEnd(gid) /\ (stop # 0 \/ start = 0)
      /\ \/ i = start + k /\ i <= (IF start <= stop THEN stop ELSE Size)
         \/ start > stop /\ i = k - (Size - start) /\ i \in 1..stop
  BY DEF LoopCopiesInOrder
<1>3. \/ /\ start = end /\ From(gid) = n - Size
         /\ end = 0 => stop = Size
         /\ end # 0 => stop = end - 1
      \/ /\ stop = end /\ start \in 0..(Size - 1)
         /\ From(gid) = Base + start - (IF start <= end THEN 0 ELSE Size)
  <2>1. CASE SendAll(gid)
    BY <2>1 DEF GetStart, GetEnd, From, LoopCopiesInOrder
  <2>2. CASE ~SendAll(gid)
    <3>1. gid \in MarkerId /\ markers[gid] # LostMarker
      BY <2>2 DEF SendAll, Lookup, TypeOK
    <3>2. stop = end /\ start = Lookup(gid)
      BY <2>2 DEF GetStart, GetEnd, LoopCopiesInOrder
    <3>3. CASE markers[gid] = Absent
      BY <1>1, <2>2, <3>2, <3>3 DEF Lookup, From
    <3>4. CASE markers[gid] # Absent
      <4>1. markers[gid] \in 0..(Size - 1)
        BY <3>1, <3>4 DEF TypeOK
      <4>2. markPos[gid] = Base + markers[gid] - (IF markers[gid] <= end THEN 0 ELSE Size)
        BY <3>1, <4>1 DEF MarkersNamePositions
      <4> QED BY <2>2, <3>2, <3>4, <4>1, <4>2 DEF Lookup, From
    <3> QED BY <3>3, <3>4
  <2> QED BY <2>1, <2>2
<1>4. start \in 0..(Size - 1)
  BY <1>1, <1>3
<1>5. Slot \in 0..(Size - 1) /\ Slot = (IF i = Size THEN 0 ELSE i)
  BY <1>1 DEF Slot
<1> HIDE DEF start
<1>6. /\ k <= Size
      /\ \/ Slot = start + k /\ Slot + 1 <= (IF start <= stop THEN stop ELSE Size)
         \/ start > stop /\ Slot = k - (Size - start) /\ Slot + 1 \in 1..stop
  <2>1. CASE i = start + k /\ start <= stop
    BY <1>1, <1>2, <1>4, <1>5, <2>1
  <2>2. CASE i = start + k /\ start > stop /\ i # Size
    BY <1>1, <1>2, <1>4, <1>5, <2>2
  <2>3. CASE i = start + k /\ start > stop /\ i = Size
    BY <1>1, <1>2, <1>4, <1>5, <2>3
  <2>4. CASE start > stop /\ i = k - (Size - start) /\ i \in 1..stop
    BY <1>1, <1>2, <1>4, <1>5, <2>4
  <2> QED BY <1>2, <1>1, <1>4, <2>1, <2>2, <2>3, <2>4
<1>7. Base + Slot + 1 - (IF Slot < end THEN 0 ELSE Size) = From(gid) + k + 1
  <2> HIDE DEF n, k
  <2>1. CASE start = end /\ From(gid) = n - Size /\ end = 0 /\ stop = Size
    BY <1>1, <1>5, <1>6, <2>1
  <2>2. CASE start = end /\ From(gid) = n - Size /\ end # 0 /\ stop = end - 1
    <3>1. start > stop
      BY <1>1, <2>2
    <3> QED BY <1>1, <1>5, <1>6, <2>2, <3>1
  <2>3. CASE stop = end /\ start <= end /\ From(gid) = Base + start
    BY <1>1, <1>4, <1>5, <1>6, <2>3
  <2>4. CASE stop = end /\ start > end /\ From(gid) = Base + start - Size
    BY <1>1, <1>4, <1>5, <1>6, <2>4
  <2> QED BY <1>1, <1>3, <1>4, <2>1, <2>2, <2>3, <2>4
<1>8. data[Slot] = At(From(gid) + k + 1)
  BY <1>5, <1>7 DEF RingHoldsLatest
<1>9. GetStart(gid) \in Int /\ start = GetStart(gid)
  BY <1>4 DEF start
<1> QED BY <1>1, <1>5, <1>6, <1>8, <1>9

\* The loop of GetSinceMarker (buffer.go:70-75) copies the bytes it owes one
\* after the other, in the order they were added.
THEOREM LoopCorrect == Spec => []LoopCopiesInOrder
<1>1. Init => LoopCopiesInOrder
  BY DEF Init, LoopCopiesInOrder
<1>2. /\ TypeOK /\ RingHoldsLatest /\ MarkersNamePositions /\ TypeOK'
      /\ LoopCopiesInOrder /\ [Next]_vars
      => LoopCopiesInOrder'
  <2> SUFFICES ASSUME TypeOK, TypeOK', RingHoldsLatest, MarkersNamePositions,
                      LoopCopiesInOrder, [Next]_vars, mx' = "get"
               PROVE  LoopCopiesInOrder'
    BY DEF LoopCopiesInOrder
  <2>1. ASSUME NEW id \in MarkerId \cup {Whole}, GetLock(id) PROVE LoopCopiesInOrder'
    <3>1. /\ r' = <<>> /\ i' = GetStart(id) /\ stop' = GetEnd(id) /\ gid' = id
          /\ end' = end /\ markers' = markers
      BY <2>1 DEF GetLock, ring
    <3>2. GetStart(gid)' = i' /\ GetEnd(gid)' = stop'
      BY <3>1 DEF GetStart, GetEnd, SendAll, Lookup
    <3>3. Len(r') = 0 /\ i' \in 0..Size /\ stop' \in 0..Size
      BY <3>1 DEF TypeOK
    <3> QED BY <3>1, <3>2, <3>3 DEF LoopCopiesInOrder
  <2>2. CASE GetByte
    <3> DEFINE start == GetStart(gid)
    <3>1. /\ mx = "get" /\ i # stop /\ i' = Slot + 1 /\ gid' = gid /\ stop' = stop
          /\ end' = end /\ markers' = markers /\ hist' = hist /\ markPos' = markPos
      BY <2>2 DEF GetByte, ring
    <3>2. /\ GetStart(gid)' = start /\ GetEnd(gid)' = GetEnd(gid)
          /\ From(gid)' = From(gid)
      BY <3>1 DEF GetStart, GetEnd, SendAll, Lookup, From, Base
    <3>3. stop = GetEnd(gid)
      BY <3>1 DEF LoopCopiesInOrder
    <3>4. From(gid) \in Int /\ start \in Int
      <4>1. gid = Whole \/ (gid \in MarkerId /\ markers[gid] \in Int /\ markPos[gid] \in Int)
        BY DEF TypeOK
      <4>2. Len(hist) \in Int /\ end \in Int
        BY DEF TypeOK
      <4> QED BY <4>1, <4>2 DEF From, GetStart, SendAll, Lookup, Base
    <3>5. CASE stop = 0 /\ start # 0
      <4>1. i' \in 1..Size
        BY <3>1 DEF Slot, TypeOK
      <4> QED BY <3>1, <3>2, <3>3, <3>5, <4>1 DEF LoopCopiesInOrder
    <3>6. CASE stop # 0 \/ start = 0
      <4>1. /\ Slot \in 0..(Size - 1) /\ Len(r) \in 0..Size
            /\ data[Slot] = At(From(gid) + Len(r) + 1)
            /\ \/ /\ Slot + 1 = start + Len(r) + 1
                  /\ Slot + 1 <= (IF start <= stop THEN stop ELSE Size)
               \/ /\ start > stop
                  /\ Slot + 1 = Len(r) + 1 - (Size - start)
                  /\ Slot + 1 \in 1..stop
        BY <3>1, <3>6, SlotHoldsNext
      <4>2. r' = Append(r, data[Slot])
        BY <2>2, <4>1 DEF GetByte
      <4>3. /\ Len(r') = Len(r) + 1
            /\ r'[Len(r) + 1] = data[Slot]
            /\ \A j \in 1..Len(r) : r'[j] = r[j]
        BY <4>2 DEF TypeOK
      <4>4. \A j \in 1..Len(r') : r'[j] = At(From(gid) + j)
        <5>1. \A j \in 1..Len(r) : r[j] = At(From(gid) + j)
          BY <3>1, <3>6 DEF LoopCopiesInOrder
        <5>2. From(gid) + Len(r) + 1 = From(gid) + (Len(r) + 1)
          BY <3>4, <4>1
        <5> QED BY <4>1, <4>3, <5>1, <5>2
      <4>6. \A j \in 1..Len(r') : r'[j] = At(From(gid) + j)'
        BY <3>1, <3>2, <4>4 DEF At
      <4> HIDE DEF start
      <4>7. \/ i' = start + Len(r') /\ i' <= (IF start <= stop THEN stop ELSE Size)
            \/ start > stop /\ i' = Len(r') - (Size - start) /\ i' \in 1..stop
        BY <3>1, <3>4, <4>1, <4>3
      <4> QED BY <3>1, <3>2, <3>3, <3>6, <4>6, <4>7 DEF LoopCopiesInOrder, start
    <3> QED BY <3>5, <3>6
  <2>3. CASE UNCHANGED vars
    BY <2>3 DEF vars, LoopCopiesInOrder, GetStart, GetEnd, SendAll, Lookup, From, Base, At
  <2>4. \/ \E id \in MarkerId \cup {Whole} : GetLock(id)
        \/ GetByte
        \/ UNCHANGED vars
    BY DEF Next, AddLock, AddByte, AddUnlock, Mark, GetReturn, vars
  <2> QED BY <2>1, <2>2, <2>3, <2>4
<1> QED BY <1>1, <1>2, TypeCorrect, RingCorrect, PTL DEF Spec

\* A slice whose bytes are those after position p is that stretch.
LEMMA SliceIsStretch ==
    ASSUME NEW p \in Int, NEW q \in Int, TypeOK, Len(r) = q - p,
           \A j \in 1..Len(r) : r[j] = At(p + j)
    PROVE  r = Stretch(p, q)
<1>1. r \in Seq(Byte) /\ Len(r) \in Nat
  BY DEF TypeOK
<1>2. r = [j \in 1..Len(r) |-> r[j]]
  BY <1>1
<1> QED BY <1>2 DEF Stretch

\* The last byte a lost marker is answered with: the newest one only when the
\* next one goes to slot 0.
LostUpTo == IF end = 0 THEN Len(hist) ELSE Len(hist) - 1

\* What the loop has built when it ends, from the loop invariant.
LEMMA LoopEnd ==
    ASSUME TypeOK, MarkersNamePositions, LoopCopiesInOrder, Returning
    PROVE  /\ Live(gid) => r = Stretch(markPos[gid], Len(hist))
           /\ SendAll(gid) => r = Stretch(Len(hist) - Size, LostUpTo)
           /\ gid # Whole /\ ~SendAll(gid) /\ ~Live(gid)
                 => r = Stretch(Len(hist) - end, Len(hist))
<1> DEFINE start == GetStart(gid)
<1>1. /\ end \in 0..(Size - 1) /\ Len(hist) \in Nat /\ Len(r) \in Nat
      /\ Base = Len(hist) - end /\ i = stop
  BY DEF TypeOK, Base, Returning
<1>2. /\ stop = GetEnd(gid) /\ (stop # 0 \/ start = 0)
      /\ \A j \in 1..Len(r) : r[j] = At(From(gid) + j)
      /\ \/ stop = start + Len(r) /\ stop <= (IF start <= stop THEN stop ELSE Size)
         \/ start > stop /\ stop = Len(r) - (Size - start)
  <2>1. stop = 0 /\ start # 0 => i \in 1..Size
    BY DEF LoopCopiesInOrder, Returning
  <2>2. stop # 0 \/ start = 0
    BY <1>1, <2>1
  <2> QED BY <1>1, <2>2 DEF LoopCopiesInOrder, Returning
<1>3. ASSUME Live(gid) PROVE r = Stretch(markPos[gid], Len(hist))
  <2>1. /\ gid \in MarkerId /\ markers[gid] \in 0..(Size - 1)
        /\ markPos[gid] \in Int
    <3>1. gid \in MarkerId /\ markers[gid] >= 0
      BY <1>3 DEF Live, TypeOK
    <3>2. /\ markers[gid] \in {Absent, LostMarker} \cup 0..(Size - 1)
          /\ markPos[gid] \in {-1} \cup Nat
      BY <3>1 DEF TypeOK
    <3> QED BY <3>1, <3>2
  <2>2. /\ start = markers[gid] /\ stop = end /\ From(gid) = markPos[gid]
    BY <1>2, <1>3, <2>1 DEF Live, GetStart, GetEnd, SendAll, Lookup, From
  <2>3. markPos[gid] = Base + markers[gid] - (IF markers[gid] <= end THEN 0 ELSE Size)
    BY <2>1 DEF MarkersNamePositions
  <2> HIDE DEF start
  <2>4. Len(r) = Len(hist) - markPos[gid]
    <3>1. CASE start <= stop
      <4>1. stop = start + Len(r)
        BY <1>1, <1>2, <2>1, <2>2, <3>1
      <4>2. markPos[gid] = Base + start
        BY <1>1, <2>1, <2>2, <2>3, <3>1
      <4>3. start \in Int /\ stop = end
        BY <2>1, <2>2
      <4> QED BY <1>1, <4>1, <4>2, <4>3
    <3>2. CASE start > stop
      <4>1. stop = Len(r) - (Size - start)
        BY <1>1, <1>2, <2>1, <2>2, <3>2
      <4>2. markPos[gid] = Base + start - Size
        BY <1>1, <2>1, <2>2, <2>3, <3>2
      <4>3. start \in Int /\ stop = end
        BY <2>1, <2>2
      <4> QED BY <1>1, <4>1, <4>2, <4>3
    <3> QED BY <1>1, <2>1, <2>2, <3>1, <3>2
  <2> QED BY <1>1, <1>2, <2>1, <2>2, <2>4, SliceIsStretch
<1>4. ASSUME SendAll(gid)
      PROVE  r = Stretch(Len(hist) - Size, LostUpTo)
  <2>1. /\ start = end /\ From(gid) = Len(hist) - Size
        /\ stop = IF end = 0 THEN Size ELSE end - 1
    BY <1>2, <1>4 DEF GetStart, GetEnd, From
  <2> HIDE DEF start
  <2>2. CASE end = 0
    <3>1. Len(r) = Len(hist) - (Len(hist) - Size)
      BY <1>1, <1>2, <2>1, <2>2
    <3> QED BY <1>1, <1>2, <2>1, <2>2, <3>1, SliceIsStretch DEF LostUpTo
  <2>3. CASE end # 0
    <3>1. stop = Len(r) - (Size - start)
      BY <1>1, <1>2, <2>1, <2>3
    <3>2. Len(r) = (Len(hist) - 1) - (Len(hist) - Size) /\ Len(hist) - 1 \in Int
      BY <1>1, <2>1, <2>3, <3>1
    <3> QED BY <1>1, <1>2, <2>1, <2>3, <3>2, SliceIsStretch DEF LostUpTo
  <2> QED BY <2>2, <2>3
<1>5. ASSUME gid # Whole, ~SendAll(gid), ~Live(gid)
      PROVE  r = Stretch(Len(hist) - end, Len(hist))
  <2>1. gid \in MarkerId /\ markers[gid] = Absent
    BY <1>5 DEF SendAll, Lookup, Live, TypeOK
  <2>2. start = 0 /\ stop = end /\ From(gid) = Len(hist) - end
    BY <1>1, <1>2, <1>5, <2>1 DEF GetStart, GetEnd, From, Lookup
  <2> HIDE DEF start
  <2>3. Len(r) = Len(hist) - (Len(hist) - end)
    BY <1>1, <1>2, <2>2
  <2> QED BY <1>1, <1>2, <2>2, <2>3, SliceIsStretch
<1> QED BY <1>3, <1>4, <1>5

\* GetSinceMarker (buffer.go:51-82) answers a live marker with exactly what
\* was added since the mark.
THEOREM LiveMarkerCorrect == Spec => []LiveMarkerExact
<1>1. TypeOK /\ MarkersNamePositions /\ LoopCopiesInOrder => LiveMarkerExact
  BY LoopEnd DEF LiveMarkerExact
<1> QED BY <1>1, TypeCorrect, RingCorrect, LoopCorrect, PTL

\* What a lost marker, or none, is answered with (buffer.go:58-65): the kept
\* bytes from the oldest on, without the newest one unless end is 0.
LostMarkerMissesNewest ==
    Returning /\ SendAll(gid) => r = Stretch(Len(hist) - Size, LostUpTo)

\* The exact answer to a lost marker: LostMarkerGetsAll, which is what the
\* comment of GetSinceMarker says, fails in every state where end is not 0.
THEOREM LostMarkerCorrect == Spec => []LostMarkerMissesNewest
<1>1. TypeOK /\ MarkersNamePositions /\ LoopCopiesInOrder => LostMarkerMissesNewest
  BY LoopEnd DEF LostMarkerMissesNewest
<1> QED BY <1>1, TypeCorrect, RingCorrect, LoopCorrect, PTL

-----------------------------------------------------------------------------
(* Refinement *)

\* The buffer implements the marked log: each byte of Add is a Put, Mark a
\* Bookmark, and GetSinceMarker answers with one of the stretches of the log
\* that the abstract specification allows.
THEOREM ImplementsMarkedLog == Spec => LogSpec
<1>1. Init => Log!Init
  BY DEF Init, Log!Init, Log!NoMark, Log!Nobody
<1>2. /\ TypeOK /\ MarkersNamePositions /\ LoopCopiesInOrder /\ TypeOK'
      /\ [Next]_vars
      => [Log!Next]_(Log!vars)
  <2> SUFFICES ASSUME TypeOK, TypeOK', MarkersNamePositions, LoopCopiesInOrder, [Next]_vars
               PROVE  [Log!Next]_(Log!vars)
    OBVIOUS
  <2>1. ASSUME NEW b \in Slices, AddLock(b) PROVE UNCHANGED Log!vars
    BY <2>1 DEF AddLock, get, Log!vars
  <2>2. ASSUME AddByte PROVE \E b \in Byte : Log!Put(b)
    <3>1. Head(todo) \in Byte
      BY <2>2 DEF AddByte, TypeOK
    <3>2. Log!Put(Head(todo))
      BY <2>2 DEF AddByte, get, Log!Put
    <3> QED BY <3>1, <3>2
  <2>3. ASSUME AddUnlock PROVE UNCHANGED Log!vars
    BY <2>3 DEF AddUnlock, get, Log!vars
  <2>4. ASSUME NEW id \in MarkerId, Mark(id) PROVE Log!Bookmark(id)
    BY <2>4 DEF Mark, get, Log!Bookmark
  <2>5. ASSUME NEW id \in MarkerId \cup {Whole}, GetLock(id) PROVE Log!Ask(id)
    BY <2>5 DEF GetLock, Log!Ask
  <2>6. ASSUME GetByte PROVE UNCHANGED Log!vars
    BY <2>6 DEF GetByte, Log!vars
  <2>7. ASSUME GetReturn PROVE \E id \in MarkerId \cup {-1} : Log!Answer(id)
    <3>1. /\ mx = "get" /\ i = stop /\ mx' = "free" /\ r' = r /\ hist' = hist
          /\ markPos' = [id \in MarkerId |-> IF id = gid THEN -1 ELSE markPos[id]]
          /\ Returning
      BY <2>7 DEF GetReturn, get, Returning
    <3>2. gid \in MarkerId \cup {-1}
      BY DEF TypeOK
    <3>3. markPos' = IF gid \in MarkerId THEN [markPos EXCEPT ![gid] = -1] ELSE markPos
      BY <3>1, <3>2 DEF TypeOK
    <3>4. r \in Log!Answers(gid)
      <4>1. \A p, q \in Int : Log!Stretch(p, q) = Stretch(p, q)
        BY DEF Log!Stretch, Stretch, Log!At, At
      <4>2. Len(hist) \in Nat /\ end \in 0..(Size - 1)
        BY DEF TypeOK
      <4>3. gid = -1 \/ (gid \in MarkerId /\ gid # -1)
        BY <3>2
      <4>4. CASE SendAll(gid)
        <5>1. gid = -1 \/ (gid \in MarkerId /\ markPos[gid] # -1 /\ Len(hist) - markPos[gid] >= Size)
          BY <4>3, <4>4 DEF SendAll, Lookup, MarkersNamePositions, TypeOK
        <5>2. \/ r = Stretch(Len(hist) - Size, Len(hist))
              \/ r = Stretch(Len(hist) - Size, Len(hist) - 1)
          BY <3>1, <4>4, LoopEnd DEF LostUpTo
        <5> QED BY <4>1, <4>2, <5>1, <5>2 DEF Log!Answers, Log!NoMark
      <4>5. CASE Live(gid)
        <5>1. /\ gid \in MarkerId /\ gid # -1 /\ markers[gid] \in 0..(Size - 1)
              /\ markPos[gid] \in Nat
          <6>1. gid \in MarkerId /\ gid # -1 /\ markers[gid] >= 0
            BY <4>3, <4>5 DEF Live
          <6>2. /\ markers[gid] \in {Absent, LostMarker} \cup 0..(Size - 1)
                /\ markPos[gid] \in {-1} \cup Nat
            BY <6>1 DEF TypeOK
          <6>3. markers[gid] = Absent <=> markPos[gid] = -1
            BY <6>1 DEF MarkersNamePositions
          <6> QED BY <6>1, <6>2, <6>3
        <5>2. Len(hist) - markPos[gid] < Size
          <6>1. markPos[gid] = Base + markers[gid] - (IF markers[gid] <= end THEN 0 ELSE Size)
            BY <5>1 DEF MarkersNamePositions
          <6>2. Base = Len(hist) - end
            BY DEF Base
          <6>3. CASE markers[gid] <= end
            BY <4>2, <5>1, <6>1, <6>2, <6>3
          <6>4. CASE ~(markers[gid] <= end)
            BY <4>2, <5>1, <6>1, <6>2, <6>4
          <6> QED BY <6>3, <6>4
        <5>3. r = Stretch(markPos[gid], Len(hist))
          BY <3>1, <4>5, LoopEnd
        <5>4. Log!Answers(gid) = {Log!Stretch(markPos[gid], Len(hist))}
          BY <5>1, <5>2 DEF Log!Answers, Log!NoMark
        <5>5. Log!Stretch(markPos[gid], Len(hist)) = Stretch(markPos[gid], Len(hist))
          BY <4>1, <4>2, <5>1
        <5> QED BY <5>3, <5>4, <5>5
      <4>6. CASE ~SendAll(gid) /\ ~Live(gid)
        <5>1. /\ gid \in MarkerId /\ gid # -1 /\ markPos[gid] = -1
          BY <4>3, <4>6 DEF SendAll, Lookup, Live, MarkersNamePositions, TypeOK
        <5>2. r = Stretch(Len(hist) - end, Len(hist))
          BY <3>1, <4>6, <5>1, LoopEnd
        <5> QED BY <4>1, <4>2, <5>1, <5>2 DEF Log!Answers, Log!NoMark
      <4> QED BY <4>4, <4>5, <4>6
    <3>5. Log!Answer(gid)
      BY <3>1, <3>3, <3>4 DEF Log!Answer, Log!Nobody, Log!NoMark
    <3> QED BY <3>2, <3>5
  <2>8. ASSUME UNCHANGED vars PROVE UNCHANGED Log!vars
    BY <2>8 DEF vars, Log!vars
  <2> QED BY <2>1, <2>2, <2>3, <2>4, <2>5, <2>6, <2>7, <2>8 DEF Next, Log!Next
<1> QED BY <1>1, <1>2, TypeCorrect, RingCorrect, LoopCorrect, PTL DEF Spec, LogSpec, Log!Spec
=============================================================================
