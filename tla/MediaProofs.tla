---------------------------- MODULE MediaProofs ----------------------------
(***************************************************************************)
(* For any source, delays, capacities and overflow policy: what a jitter   *)
(* buffer holds lies ahead of what it released, so that once something was *)
(* released no hole stalls the stream; every accepted frame is held, in a  *)
(* pump's hands, delivered, counted as dropped or was thrown away by a     *)
(* Flush; frames of one length in the ring never share a byte of its       *)
(* arena; and what enters the ring follows the last real frame that did,   *)
(* until two pumps have frames at once.                                    *)
(***************************************************************************)
EXTENDS MediaStream, FiniteSetTheorems, WellFoundedInduction, TLAPS

\* A buffer that has released something has started.
ReleasesAfterStart == released => started

\* A pump has a frame in its hands from Get to the note of it.
HandsAgree ==
  \A p \in Pumper : pump[p].frame # None <=> pump[p].at \in {"gap", "write", "note"}

\* Silence goes before the frame it is for.
SilenceFits ==
  \A p \in Pumper : pump[p].left > 0 =>
    pump[p].at = "write" /\ pump[p].from + pump[p].left <= pump[p].frame

JitterIInv == JitterTypeOK /\ HeldIsAhead /\ ReleasesAfterStart

\* The frame in a pump's hands was released, and it and the silence before it
\* follow the last real frame put in the ring.
HandInOrder(p) ==
  /\ pump[p].frame # None => released /\ pump[p].frame <= highest
  /\ last # None =>
       /\ pump[p].at \in {"gap", "write"} => last < pump[p].frame
       /\ pump[p].left > 0 => last < pump[p].from
       /\ pump[p].at = "note" => last <= pump[p].frame

\* Until two pumps have had frames at once, one at most has one; and unless it
\* is still to be noted, the last frame comes before the one expected next.
OrderKept ==
  /\ crossed => last = None
  /\ ~ crossed => \A p, q \in InHand : p = q
  /\ last # None =>
       /\ released /\ last <= highest
       /\ (\A p \in Pumper : pump[p].at # "note") => last < nextExpected
  /\ \A p \in Pumper : HandInOrder(p)

----------------------------------------------------------------------------
(* Numbers and sets *)

LEMMA Parameters ==
  /\ LastSequence \in Nat /\ MinDelay \in Nat /\ MaxDelay \in Nat
  /\ Interval \in Nat /\ Interval > 0 /\ Step \in Nat /\ Capacity \in Nat
  /\ TargetDelay \in Nat /\ MinDelay <= TargetDelay /\ TargetDelay <= MaxDelay
BY JitterAssumption

LEMMA Frames ==
  ASSUME NEW n \in Sequence
  PROVE  n \in Nat /\ Timestamp(n) \in Nat /\ End(n) \in Nat /\ End(n) = Timestamp(n) + Interval
BY Parameters DEF Sequence, Timestamp, End

LEMMA LaterFrames ==
  ASSUME NEW n \in Sequence, NEW m \in Sequence, m > n
  PROVE  Timestamp(m) >= End(n)
<1>1. m \in Nat /\ n \in Nat /\ Interval \in Nat  BY Frames, Parameters
<1> DEFINE d == m - (n + 1)
<1>2. d \in Nat /\ m = n + 1 + d  BY <1>1
<1>3. Interval * m = Interval * (n + 1) + Interval * d  BY <1>1, <1>2
<1>4. Interval * d >= 0  BY <1>1, <1>2
<1> HIDE DEF d
<1>5. Interval * m \in Int /\ Interval * (n + 1) \in Int /\ Interval * d \in Int  BY <1>1, <1>2
<1> QED  BY <1>3, <1>4, <1>5 DEF Timestamp, End

LEMMA HeldIsFinite ==
  ASSUME NEW S \in SUBSET Sequence
  PROVE  IsFiniteSet(S) /\ Cardinality(S) \in Nat
<1>1. IsFiniteSet(Sequence)  BY Parameters, FS_Interval DEF Sequence
<1> QED  BY <1>1, FS_Subset, FS_CardinalityType

\* The oldest frame of a set exists.
LEMMA Oldest ==
  ASSUME NEW S \in SUBSET Sequence, S # {}
  PROVE  Min(S) \in S /\ \A m \in S : Min(S) <= m
<1> DEFINE R == OpToRel(<, Nat)
<1>1. S \subseteq Nat  BY Frames
<1>2. PICK x \in S : \A y \in S : ~ (<<y, x>> \in R)
  <2> HIDE DEF R
  <2>1. IsWellFoundedOn(R, Nat)  BY NatLessThanWellFounded DEF R
  <2> QED  BY <1>1, <2>1, WFMin
<1>3. \A y \in S : x <= y
  <2> SUFFICES ASSUME NEW y \in S  PROVE x <= y
    OBVIOUS
  <2>1. <<y, x>> \in Nat \X Nat /\ ~ (y < x)  BY <1>1, <1>2 DEF OpToRel
  <2> QED  BY <1>1, <2>1
<1> QED  BY <1>3 DEF Min

----------------------------------------------------------------------------
(* The jitter buffer *)

LEMMA Facts ==
  ASSUME JitterIInv
  PROVE  /\ held \in SUBSET Sequence /\ Cardinality(held) <= Capacity
         /\ started \in BOOLEAN /\ released \in BOOLEAN
         /\ playout \in Int /\ frontier \in Int /\ releaseFrontier \in Int
         /\ highest \in Sequence /\ current \in MinDelay .. MaxDelay /\ current \in Nat
         /\ released => started /\ (\A n \in held : n > highest) /\ playout = End(highest)
         /\ \A n \in held : Timestamp(n) >= playout /\ End(n) <= frontier
         /\ held # {} => started
BY Parameters DEF JitterIInv, JitterTypeOK, HeldIsAhead, ReleasesAfterStart

LEMMA DelayStays ==
  ASSUME JitterIInv, NEW target \in Targets
  PROVE  Adapted(target) \in MinDelay .. MaxDelay
BY Facts, Parameters DEF Adapted, Targets

LEMMA PutKeeps ==
  ASSUME JitterIInv, NEW n \in Sequence, Put(n)
  PROVE  /\ JitterIInv'
         /\ held' = IF Wanted(n) THEN held \cup {n} ELSE held
         /\ Wanted(n) => n \notin held
<1>1. started' = TRUE /\ playout' = Position(n) /\ UNCHANGED <<releaseFrontier, highest, released>>
  BY DEF Put
<1>2. current' \in MinDelay .. MaxDelay
  BY DelayStays DEF Put
<1>3. Position(n) \in Int /\ Reach(n) \in Int /\ (started => Position(n) = playout /\ Reach(n) = frontier)
  BY Facts, Frames DEF Position, Reach
<1>4. CASE Wanted(n)
  <2>1. /\ n \notin held /\ ~(released /\ n <= highest) /\ Timestamp(n) >= Position(n)
        /\ Cardinality(held) < Capacity
    BY <1>4 DEF Wanted
  <2>2. held' = held \cup {n} /\ frontier' = IF End(n) > Reach(n) THEN End(n) ELSE Reach(n)
    BY <1>4 DEF Put
  <2>3. IsFiniteSet(held) /\ Cardinality(held) \in Nat  BY Facts, HeldIsFinite
  <2>4. Cardinality(held') = Cardinality(held) + 1  BY <2>1, <2>2, <2>3, FS_AddElement
  <2>5. Cardinality(held') <= Capacity  BY <2>1, <2>3, <2>4, Parameters
  <2>6. frontier' \in Int /\ frontier' >= End(n) /\ frontier' >= Reach(n)
    BY <1>3, <2>2, Frames
  <2>7. JitterTypeOK'
    BY <1>1, <1>2, <1>3, <2>2, <2>5, <2>6, Facts DEF JitterTypeOK
  <2>8. released' => playout' = End(highest)'
    BY <1>1, <1>3, Facts DEF End
  <2>9. released => \A m \in held' : m > highest
    BY <2>1, <2>2, Facts, Frames
  <2>10. ASSUME NEW m \in held'
         PROVE  Timestamp(m) >= playout' /\ End(m) <= frontier'
    <3>1. CASE m = n  BY <1>1, <2>1, <2>6, <3>1
    <3>2. CASE m \in held
      <4>1. started /\ Timestamp(m) >= playout /\ End(m) <= frontier /\ m \in Sequence
        BY <3>2, Facts
      <4>2. End(m) \in Int  BY <4>1, Frames
      <4> QED  BY <1>1, <1>3, <2>6, <4>1, <4>2, Facts
    <3> QED  BY <2>2, <3>1, <3>2
  <2>11. HeldIsAhead'
    BY <1>1, <2>8, <2>9, <2>10 DEF HeldIsAhead, End, Timestamp
  <2>12. ReleasesAfterStart'  BY <1>1 DEF ReleasesAfterStart
  <2>13. JitterIInv'  BY <2>7, <2>11, <2>12 DEF JitterIInv
  <2> QED  BY <1>4, <2>1, <2>2, <2>13
<1>5. CASE ~Wanted(n)
  <2>1. held' = held /\ frontier' = Reach(n)  BY <1>5 DEF Put
  <2>2. JitterTypeOK'
    BY <1>1, <1>2, <1>3, <2>1, Facts DEF JitterTypeOK
  <2>3. HeldIsAhead'
    BY <1>1, <1>3, <2>1, Facts DEF HeldIsAhead, End, Timestamp
  <2> QED  BY <1>1, <1>5, <2>1, <2>2, <2>3 DEF JitterIInv, ReleasesAfterStart
<1> QED  BY <1>4, <1>5

LEMMA LimitIsInt ==
  ASSUME JitterIInv
  PROVE  Limit \in Int /\ Limit >= playout + current /\ Limit >= releaseFrontier
BY Facts DEF Limit

LEMMA GetKeeps ==
  ASSUME JitterIInv, NEW n \in held, Get(n)
  PROVE  JitterIInv' /\ held' = held \ {n}
<1>1. /\ n = Min(held) /\ held' = held \ {n} /\ n \in Sequence
      /\ playout' = End(n) /\ highest' = n /\ released' = TRUE
      /\ UNCHANGED <<started, frontier, current>>
  BY Facts DEF Get
<1>2. started  BY Facts
<1>3. releaseFrontier' \in Int
  BY <1>1, Facts, LimitIsInt, Frames DEF Get
<1>4. Cardinality(held') <= Capacity
  <2>1. IsFiniteSet(held) /\ Cardinality(held) \in Nat  BY Facts, HeldIsFinite
  <2>2. Cardinality(held') = Cardinality(held) - 1  BY <1>1, <2>1, FS_RemoveElement
  <2> QED  BY <2>1, <2>2, Facts, Parameters
<1>5. JitterTypeOK'
  BY <1>1, <1>3, <1>4, Facts, Frames DEF JitterTypeOK
<1>6. ASSUME NEW m \in held'
      PROVE  m > n /\ Timestamp(m) >= End(n) /\ End(m) <= frontier
  <2>1. m \in held /\ m \in Sequence /\ m # n /\ n <= m  BY <1>1, Facts, Oldest
  <2>2. m > n  BY <1>1, <2>1, Frames
  <2> QED  BY <1>1, <2>1, <2>2, Facts, LaterFrames
<1>7. HeldIsAhead'
  BY <1>1, <1>2, <1>6 DEF HeldIsAhead, End, Timestamp
<1> QED  BY <1>1, <1>2, <1>5, <1>7 DEF JitterIInv, ReleasesAfterStart

LEMMA EmptyBuffer ==
  ASSUME held' = {}
  PROVE  Cardinality(held)' = 0 /\ Cardinality(held)' <= Capacity
BY Parameters, FS_EmptySet

LEMMA RenewKeeps ==
  ASSUME Renew
  PROVE  JitterIInv'
<1>1. 0 \in Sequence  BY Parameters DEF Sequence
<1>2. held' = {} /\ Cardinality(held)' <= Capacity  BY EmptyBuffer DEF Renew
<1>3. TargetDelay \in MinDelay .. MaxDelay /\ 0 \in Int  BY Parameters
<1>4. JitterTypeOK'  BY <1>1, <1>2, <1>3 DEF Renew, JitterTypeOK
<1> QED  BY <1>4 DEF Renew, JitterIInv, HeldIsAhead, ReleasesAfterStart

LEMMA OtherwiseKeeps ==
  ASSUME JitterIInv, GetNothing \/ FlushHeld \/ UNCHANGED jitterVars
  PROVE  JitterIInv'
<1>1. UNCHANGED <<started, playout, frontier, highest, released, current>> /\ held' \in {held, {}}
  BY DEF GetNothing, FlushHeld, jitterVars
<1>2. releaseFrontier' \in Int
  BY Facts, LimitIsInt DEF GetNothing, FlushHeld, jitterVars
<1>3. Cardinality(held)' <= Capacity
  BY <1>1, EmptyBuffer, Facts
<1>4. JitterTypeOK'  BY <1>1, <1>2, <1>3, Facts DEF JitterTypeOK
<1>5. HeldIsAhead'  BY <1>1, Facts DEF HeldIsAhead, End, Timestamp
<1> QED  BY <1>1, <1>4, <1>5, Facts DEF JitterIInv, ReleasesAfterStart

\* What follows the last released frame is due, and anything later is behind a
\* hole.
LEMMA NoStall ==
  ASSUME JitterIInv
  PROVE  ReleasedStreamsKeepMoving
<1> SUFFICES ASSUME released, held # {}  PROVE Releasable
  BY DEF ReleasedStreamsKeepMoving
<1> DEFINE n == Min(held)
<1>1. n \in held /\ n \in Sequence  BY Facts, Oldest
<1> HIDE DEF n
<1>2. n > highest /\ n \in Nat /\ highest \in Nat  BY <1>1, Facts, Frames
<1>3. CASE n > highest + 1  BY <1>3 DEF Releasable, HoleBefore, n
<1>4. CASE n = highest + 1
  <2>1. Timestamp(n) = playout  BY <1>4, Facts DEF Timestamp, End
  <2>2. Due(n)  BY <2>1, Facts, LimitIsInt DEF Due
  <2> QED  BY <2>2 DEF Releasable, n
<1> QED  BY <1>2, <1>3, <1>4

----------------------------------------------------------------------------
(* The arena: frames of one length lie in a circle of places, one after the  *)
(* other, and there are at least as many places as frames.                   *)

Slots == [seq : Sequence, real : BOOLEAN, off : Nat]

LEMMA RingParameters ==
  /\ RingCapacity \in Nat /\ FrameBytes \in Nat /\ MaxGapFill \in Nat /\ Size \in Nat
  /\ RingCapacity > 0 /\ FrameBytes <= Size
<1>1. /\ RingCapacity \in Nat /\ RingCapacity > 0 /\ FrameBytes \in Nat
      /\ MaxFrameBytes \in Nat /\ FrameBytes <= MaxFrameBytes /\ MaxGapFill \in Nat
  BY StreamAssumption
<1>2. RingCapacity * MaxFrameBytes \in Nat  BY <1>1
<1>3. RingCapacity * MaxFrameBytes >= MaxFrameBytes
  <2>1. (RingCapacity - 1) * MaxFrameBytes >= 0  BY <1>1
  <2>2. RingCapacity * MaxFrameBytes = (RingCapacity - 1) * MaxFrameBytes + MaxFrameBytes
    BY <1>1
  <2>3. (RingCapacity - 1) * MaxFrameBytes \in Int  BY <1>1
  <2> QED  BY <1>1, <2>1, <2>2, <2>3
<1> QED  BY <1>1, <1>2, <1>3 DEF Size

Bytes(k) == FrameBytes * k
Room == Size \div FrameBytes

LEMMA BytesGrow ==
  ASSUME NEW k \in Nat
  PROVE  /\ Bytes(k) \in Nat /\ Bytes(k + 1) = Bytes(k) + FrameBytes
         /\ \A m \in Nat : k <= m => Bytes(k) <= Bytes(m)
<1>1. FrameBytes \in Nat  BY RingParameters
<1>2. FrameBytes * k \in Nat /\ FrameBytes * (k + 1) = FrameBytes * k + FrameBytes  BY <1>1
<1>3. ASSUME NEW m \in Nat, k <= m
      PROVE  FrameBytes * k <= FrameBytes * m
  <2> DEFINE d == m - k
  <2>1. d \in Nat /\ m = k + d  BY <1>3
  <2>2. FrameBytes * m = FrameBytes * k + FrameBytes * d  BY <1>1, <2>1
  <2>3. FrameBytes * d \in Nat  BY <1>1, <2>1
  <2> HIDE DEF d
  <2> QED  BY <1>2, <2>2, <2>3
<1> QED  BY <1>2, <1>3 DEF Bytes

LEMMA EnoughRoom ==
  /\ Room \in Nat /\ RingCapacity <= Room
  /\ Bytes(Room) <= Size /\ Bytes(Room + 1) > Size
<1>1. /\ RingCapacity \in Nat /\ FrameBytes \in Nat /\ FrameBytes > 0 /\ Size \in Nat
      /\ MaxFrameBytes \in Nat /\ FrameBytes <= MaxFrameBytes
  BY RingParameters, StreamAssumption
<1>2. Room \in Nat  BY <1>1 DEF Room
<1>3. FrameBytes * Room <= Size /\ FrameBytes * (Room + 1) > Size
  BY <1>1 DEF Room
<1>4. FrameBytes * RingCapacity <= Size
  <2> DEFINE d == MaxFrameBytes - FrameBytes
  <2>1. d \in Nat /\ MaxFrameBytes = FrameBytes + d  BY <1>1
  <2>2. RingCapacity * MaxFrameBytes = FrameBytes * RingCapacity + RingCapacity * d
    BY <1>1, <2>1
  <2>3. RingCapacity * d \in Nat /\ FrameBytes * RingCapacity \in Nat  BY <1>1, <2>1
  <2> HIDE DEF d
  <2> QED  BY <2>2, <2>3 DEF Size
<1>5. RingCapacity <= Room
  <2>1. SUFFICES ASSUME Room + 1 <= RingCapacity  PROVE FALSE
    BY <1>1, <1>2
  <2>2. Bytes(Room + 1) <= Bytes(RingCapacity)  BY <1>1, <1>2, <2>1, BytesGrow
  <2>3. Bytes(Room + 1) \in Nat /\ Bytes(RingCapacity) \in Nat  BY <1>1, <1>2, BytesGrow
  <2> QED  BY <1>1, <1>3, <1>4, <2>2, <2>3 DEF Bytes
<1> QED  BY <1>2, <1>3, <1>5 DEF Bytes

\* The sums behind it: two frames b bytes apart, f bytes long, around B bytes.
LEMMA DoNotOverlap ==
  ASSUME NEW x \in Nat, NEW y \in Nat, NEW f \in Nat, NEW b \in Nat, NEW B \in Nat,
         f <= b, b + f <= B, y - x = b \/ y - x = b - B
  PROVE  x + f <= y \/ y + f <= x
OBVIOUS

LEMMA FurtherOn ==
  ASSUME NEW x \in Nat, NEW y \in Nat, NEW f \in Nat, NEW b \in Nat, NEW B \in Nat,
         y - x = b \/ y - x = b - B
  PROVE  (y + f) - x = b + f \/ (y + f) - x = (b + f) - B
OBVIOUS

LEMMA OnceAround ==
  ASSUME NEW x \in Nat, NEW y \in Nat, NEW f \in Nat, NEW b \in Nat, NEW B \in Nat,
         f > 0, y + f = B, x + f <= B, (b + f) + f <= B, y - x = b \/ y - x = b - B
  PROVE  0 - x = (b + f) - B
OBVIOUS

\* Where frame j of a ring lies from frame i: so many places on, perhaps once
\* around.
Apart(r, i, j) ==
  \/ r[j].off - r[i].off = Bytes(j - i)
  \/ r[j].off - r[i].off = Bytes(j - i) - Bytes(Room)

Circle(r, end) ==
  /\ \E k \in Nat : k <= Room /\ end = Bytes(k)
  /\ r # <<>> => r[Len(r)].off + FrameBytes = end
  /\ \A i \in 1 .. Len(r) : r[i].off + FrameBytes <= Bytes(Room)
  /\ \A i, j \in 1 .. Len(r) : i < j => Apart(r, i, j)

LEMMA EmptyCircle == Circle(<<>>, 0)
<1>1. Bytes(0) = 0 /\ 0 <= Room  BY EnoughRoom, RingParameters DEF Bytes
<1> QED  BY <1>1 DEF Circle

LEMMA TailCircle ==
  ASSUME NEW r \in Seq(Slots), r # <<>>, NEW end, Circle(r, end)
  PROVE  Circle(Tail(r), end)
<1> DEFINE s == Tail(r)
<1>1. s \in Seq(Slots) /\ Len(s) = Len(r) - 1 /\ Len(r) \in Nat /\ Len(r) > 0
      /\ \A i \in 1 .. Len(s) : s[i] = r[i + 1]
  OBVIOUS
<1> HIDE DEF s
<1>2. s # <<>> => s[Len(s)].off + FrameBytes = end
  <2> SUFFICES ASSUME s # <<>>  PROVE s[Len(s)].off + FrameBytes = end
    OBVIOUS
  <2>1. Len(s) \in 1 .. Len(s) /\ Len(s) + 1 = Len(r)  BY <1>1
  <2>2. s[Len(s)] = r[Len(r)]  BY <1>1, <2>1
  <2> QED  BY <2>2 DEF Circle
<1>3. ASSUME NEW i \in 1 .. Len(s)
      PROVE  s[i].off + FrameBytes <= Bytes(Room)
  <2>1. s[i] = r[i + 1] /\ i + 1 \in 1 .. Len(r)  BY <1>1
  <2> QED  BY <2>1 DEF Circle
<1>4. ASSUME NEW i \in 1 .. Len(s), NEW j \in 1 .. Len(s), i < j
      PROVE  Apart(s, i, j)
  <2>1. /\ s[i] = r[i + 1] /\ i + 1 \in 1 .. Len(r)
        /\ s[j] = r[j + 1] /\ j + 1 \in 1 .. Len(r) /\ i + 1 < j + 1
        /\ (j + 1) - (i + 1) = j - i
    BY <1>1, <1>4
  <2>2. Apart(r, i + 1, j + 1)  BY <2>1 DEF Circle
  <2> QED  BY <2>1, <2>2 DEF Apart
<1>5. \E k \in Nat : k <= Room /\ end = Bytes(k)  BY DEF Circle
<1> QED  BY <1>2, <1>3, <1>4, <1>5 DEF Circle, s

LEMMA NextInCircle ==
  ASSUME NEW r \in Seq(Slots), NEW end, Circle(r, end), Len(r) < RingCapacity,
         NEW place, place = IF end + FrameBytes > Size THEN 0 ELSE end,
         NEW slot \in Slots, slot.off = place
  PROVE  Circle(Append(r, slot), place + FrameBytes)
<1> DEFINE s == Append(r, slot)
           n == Len(r)
<1>1. /\ Room \in Nat /\ RingCapacity \in Nat /\ FrameBytes \in Nat /\ Size \in Nat
      /\ Bytes(Room) \in Nat /\ Bytes(Room) <= Size /\ Bytes(Room + 1) > Size
      /\ Bytes(Room + 1) = Bytes(Room) + FrameBytes /\ RingCapacity <= Room
      /\ RingCapacity > 0
  BY EnoughRoom, BytesGrow, RingParameters
<1>2. PICK k \in Nat : k <= Room /\ end = Bytes(k)  BY DEF Circle
<1>3. Bytes(k) \in Nat /\ Bytes(k + 1) = Bytes(k) + FrameBytes  BY <1>2, BytesGrow
<1>4. k = Room \/ k + 1 <= Room  BY <1>1, <1>2
<1>5. k = Room => place = 0  BY <1>1, <1>2
<1>6. k + 1 <= Room => Bytes(k + 1) <= Bytes(Room)
  <2>1. k + 1 \in Nat  BY <1>2
  <2> QED  BY <1>1, <2>1, BytesGrow
<1>7. k # Room => place = end /\ end + FrameBytes = Bytes(k + 1)
  BY <1>1, <1>2, <1>3, <1>4, <1>6
<1>8. Bytes(0) = 0 /\ Bytes(1) = FrameBytes /\ FrameBytes <= Bytes(Room)
  <2>1. Bytes(0) = 0 /\ Bytes(1) = FrameBytes  BY <1>1 DEF Bytes
  <2>2. 1 \in Nat /\ 1 <= Room  BY <1>1
  <2> QED  BY <1>1, <2>1, <2>2, BytesGrow
<1>9. \E m \in Nat : m <= Room /\ place + FrameBytes = Bytes(m)
  <2>1. CASE k = Room
    <3>1. 1 \in Nat /\ 1 <= Room /\ place + FrameBytes = Bytes(1)  BY <1>1, <1>5, <1>8, <2>1
    <3> QED  BY <3>1
  <2>2. CASE k # Room
    <3>1. k + 1 \in Nat /\ k + 1 <= Room /\ place + FrameBytes = Bytes(k + 1)
      BY <1>2, <1>4, <1>7, <2>2
    <3> QED  BY <3>1
  <2> QED  BY <2>1, <2>2
<1>10. place \in Nat /\ place + FrameBytes <= Bytes(Room)
  BY <1>1, <1>2, <1>3, <1>4, <1>5, <1>6, <1>7, <1>8
<1>11. /\ n \in Nat /\ Len(s) = n + 1 /\ s[n + 1] = slot
       /\ \A i \in 1 .. n : s[i] = r[i] /\ r[i] \in Slots
  OBVIOUS
<1>12. \A i \in 1 .. n : r[i].off \in Nat  BY <1>11 DEF Slots
<1> HIDE DEF s, n
<1>13. ASSUME NEW i \in 1 .. Len(s)
       PROVE  s[i].off + FrameBytes <= Bytes(Room)
  <2>1. CASE i = n + 1  BY <1>10, <1>11, <2>1
  <2>2. CASE i \in 1 .. n  BY <1>11, <2>2 DEF Circle, n
  <2> QED  BY <1>11, <2>1, <2>2
<1>14. ASSUME NEW i \in 1 .. n
       PROVE  Apart(s, i, n + 1)
  <2> DEFINE d == n - i
  <2>1. d \in Nat /\ (n + 1) - i = d + 1 /\ d + 2 <= Room /\ n \in 1 .. n
    BY <1>1, <1>11 DEF n
  <2>2. r[n].off + FrameBytes = end
    BY <1>11, <2>1 DEF Circle, n
  <2>3. \/ r[n].off - r[i].off = Bytes(d)
        \/ r[n].off - r[i].off = Bytes(d) - Bytes(Room)
    <3>1. CASE i = n
      <4>1. r[n].off - r[i].off = 0 /\ d = 0  BY <1>11, <1>12, <3>1
      <4> QED  BY <1>8, <4>1
    <3>2. CASE i < n  BY <1>11, <2>1, <3>2 DEF Circle, Apart, n
    <3> QED  BY <1>11, <3>1, <3>2
  <2> HIDE DEF d
  <2>4. Bytes(d) \in Nat /\ Bytes(d + 1) = Bytes(d) + FrameBytes
    BY <2>1, BytesGrow
  <2>5. (Bytes(d) + FrameBytes) + FrameBytes <= Bytes(Room)
    <3>1. d + 1 \in Nat /\ d + 2 \in Nat /\ (d + 1) + 1 = d + 2  BY <2>1
    <3>2. Bytes((d + 1) + 1) = Bytes(d + 1) + FrameBytes  BY <3>1, BytesGrow
    <3>3. Bytes(d + 2) <= Bytes(Room)  BY <1>1, <2>1, <3>1, BytesGrow
    <3> QED  BY <2>4, <3>1, <3>2, <3>3
  <2>6. s[i].off = r[i].off /\ s[n + 1].off = place /\ r[i].off \in Nat /\ r[n].off \in Nat
    BY <1>11, <1>12, <2>1
  <2>7. PICK x \in Nat : x = r[i].off  BY <2>6
  <2>8. PICK y \in Nat : y = r[n].off  BY <2>6
  <2>9. PICK b \in Nat : b = Bytes(d)  BY <2>4
  <2>10. PICK B \in Nat : B = Bytes(Room)  BY <1>1
  <2>11. (y - x = b \/ y - x = b - B) /\ (b + FrameBytes) + FrameBytes <= B
    BY <2>3, <2>5, <2>7, <2>8, <2>9, <2>10
  <2>12. place - x = b + FrameBytes \/ place - x = (b + FrameBytes) - B
    <3>1. CASE k # Room
      <4>1. place = y + FrameBytes  BY <1>7, <2>2, <2>8, <3>1
      <4>2. FrameBytes \in Nat /\ (y - x = b \/ y - x = b - B)  BY <1>1, <2>11
      <4>3. (y + FrameBytes) - x = b + FrameBytes \/ (y + FrameBytes) - x = (b + FrameBytes) - B
        BY <4>2, FurtherOn
      <4> QED  BY <4>1, <4>3
    <3>2. CASE k = Room
      <4>1. y + FrameBytes = B /\ place = 0  BY <1>2, <1>5, <2>2, <2>8, <2>10, <3>2
      <4>2. x + FrameBytes <= B  BY <1>11, <2>7, <2>10 DEF Circle, n
      <4>3. FrameBytes \in Nat /\ FrameBytes > 0  BY <1>1, StreamAssumption
      <4>4. 0 - x = (b + FrameBytes) - B  BY <2>11, <4>1, <4>2, <4>3, OnceAround
      <4> QED  BY <4>1, <4>4
    <3> QED  BY <3>1, <3>2
  <2> QED  BY <2>1, <2>4, <2>6, <2>7, <2>9, <2>10, <2>12 DEF Apart
<1>15. ASSUME NEW i \in 1 .. Len(s), NEW j \in 1 .. Len(s), i < j
       PROVE  Apart(s, i, j)
  <2>1. CASE j = n + 1
    <3>1. i \in 1 .. n  BY <1>11, <1>15, <2>1
    <3> QED  BY <1>14, <2>1, <3>1
  <2>2. CASE j # n + 1
    <3>1. i \in 1 .. n /\ j \in 1 .. n  BY <1>11, <1>15, <2>2
    <3>2. Apart(r, i, j)  BY <1>15, <3>1 DEF Circle, n
    <3> QED  BY <1>11, <3>1, <3>2 DEF Apart
  <2> QED  BY <2>1, <2>2
<1>16. s # <<>> => s[Len(s)].off + FrameBytes = place + FrameBytes  BY <1>11
<1> QED  BY <1>9, <1>13, <1>15, <1>16 DEF Circle, s

----------------------------------------------------------------------------
(* The pipeline *)

Places == {"rest", "look", "take", "gap", "write", "note"}
Pumps == [at : Places, frame : Sequence \cup {None}, from : Nat, left : 0 .. MaxGapFill]


RingOK ==
  /\ ring \in Seq(Slots) /\ Len(ring) <= RingCapacity /\ tail \in 0 .. Size
  /\ Circle(ring, tail)
PumpsOK == pump \in [Pumper -> Pumps] /\ HandsAgree /\ SilenceFits
NotesOK ==
  /\ state \in DOMAIN Declared
  /\ nextExpected \in Nat /\ haveDelivered \in BOOLEAN
  /\ last \in Sequence \cup {None} /\ crossed \in BOOLEAN
Accounted ==
  /\ undelivered \in Int /\ flushed \in 0 .. MaxFlushed /\ flushing \in BOOLEAN
  /\ producer \in {"rest", "begin", "put", "count"}
  /\ FramesAreAccounted

\* The inductive invariant.
MediaIInv == JitterIInv /\ RingOK /\ PumpsOK /\ NotesOK /\ Accounted

LEMMA CircleIsIntact ==
  ASSUME RingOK, Circle(ring, tail)
  PROVE  FramesAreIntact
<1>1. ring \in Seq(Slots) /\ Len(ring) \in Nat /\ Len(ring) <= RingCapacity
      /\ DOMAIN ring = 1 .. Len(ring)
  BY DEF RingOK
<1>2. \A i \in 1 .. Len(ring) : ring[i].off \in Nat
  <2>1. \A i \in 1 .. Len(ring) : ring[i] \in Slots  BY <1>1
  <2> QED  BY <2>1 DEF Slots
<1>3. /\ Room \in Nat /\ RingCapacity \in Nat /\ FrameBytes \in Nat /\ Size \in Nat
      /\ Bytes(Room) \in Nat /\ Bytes(Room) <= Size /\ RingCapacity <= Room
  BY EnoughRoom, BytesGrow, RingParameters
<1>4. ASSUME NEW i \in 1 .. Len(ring)
      PROVE  ring[i].off + FrameBytes <= Size
  BY <1>1, <1>2, <1>3 DEF Circle
<1>5. ASSUME NEW i \in 1 .. Len(ring), NEW j \in 1 .. Len(ring), i < j
      PROVE  \/ ring[i].off + FrameBytes <= ring[j].off
             \/ ring[j].off + FrameBytes <= ring[i].off
  <2> DEFINE d == j - i
  <2>1. d \in Nat /\ d >= 1 /\ d + 1 <= Room  BY <1>1, <1>3, <1>5
  <2> HIDE DEF d
  <2>2. Bytes(1) = FrameBytes  BY <1>3 DEF Bytes
  <2>3. Bytes(d) \in Nat /\ Bytes(1) <= Bytes(d) /\ Bytes(d) + FrameBytes <= Bytes(Room)
    <3>1. Bytes(d) \in Nat /\ Bytes(d + 1) = Bytes(d) + FrameBytes  BY <2>1, BytesGrow
    <3>2. Bytes(1) <= Bytes(d)  BY <2>1, BytesGrow
    <3>3. d + 1 \in Nat  BY <2>1
    <3>4. Bytes(d + 1) <= Bytes(Room)  BY <1>3, <2>1, <3>3, BytesGrow
    <3> QED  BY <3>1, <3>2, <3>4
  <2>4. \/ ring[j].off - ring[i].off = Bytes(d)
        \/ ring[j].off - ring[i].off = Bytes(d) - Bytes(Room)
    BY <1>5 DEF Circle, Apart, d
  <2>5. ring[i].off \in Nat /\ ring[j].off \in Nat  BY <1>2
  <2>6. FrameBytes <= Bytes(d)  BY <2>2, <2>3
  <2> QED  BY <1>3, <2>3, <2>4, <2>5, <2>6, DoNotOverlap
<1> QED  BY <1>1, <1>4, <1>5 DEF FramesAreIntact

LEMMA RingWriteKeeps ==
  ASSUME RingOK, NEW n \in Sequence, NEW real \in BOOLEAN, RingWrite(n, real)
  PROVE  RingOK'
<1> DEFINE room == IF Full THEN Tail(ring) ELSE ring
           slot == [seq |-> n, real |-> real, off |-> Place]
<1>1. Place \in Nat /\ Place + FrameBytes <= Size
  BY RingParameters DEF Place, RingOK
<1>2. slot \in Slots  BY <1>1 DEF Slots
<1>3. room \in Seq(Slots) /\ Len(room) < RingCapacity
  BY RingParameters DEF RingOK, Full
<1>4. ring' = Append(room, slot) /\ tail' = Place + FrameBytes
  BY DEF RingWrite
<1> HIDE DEF room, slot
<1>5. ring' \in Seq(Slots) /\ Len(ring') <= RingCapacity
  BY <1>2, <1>3, <1>4, RingParameters
<1>6. tail' \in 0 .. Size  BY <1>1, <1>4, RingParameters
<1>7. Circle(room, tail)
  <2>1. CASE Full
    <3>1. ring \in Seq(Slots) /\ ring # <<>> /\ Circle(ring, tail)
      BY <2>1, RingParameters DEF RingOK, Full
    <3>2. Circle(Tail(ring), tail)  BY <3>1, TailCircle
    <3> QED  BY <2>1, <3>2 DEF room
  <2>2. CASE ~Full  BY <2>2 DEF RingOK, room
  <2> QED  BY <2>1, <2>2
<1>8. slot.off = Place /\ Place = IF tail + FrameBytes > Size THEN 0 ELSE tail
  BY DEF slot, Place
<1>9. Circle(ring', tail')  BY <1>2, <1>3, <1>4, <1>7, <1>8, NextInCircle
<1> QED  BY <1>5, <1>6, <1>9 DEF RingOK, Size

----------------------------------------------------------------------------
(* Counting *)

LEMMA HandsAreFinite ==
  ASSUME NEW S \in SUBSET Pumper
  PROVE  IsFiniteSet(S) /\ Cardinality(S) \in Nat
<1>1. IsFiniteSet(Pumper)
  <2>1. IsFiniteSet({} \cup {"loop"})  BY FS_EmptySet, FS_AddElement
  <2>2. IsFiniteSet(({} \cup {"loop"}) \cup {"reader"})  BY <2>1, FS_AddElement
  <2>3. Pumper = ({} \cup {"loop"}) \cup {"reader"}  BY DEF Pumper
  <2> QED  BY <2>2, <2>3
<1> QED  BY <1>1, FS_Subset, FS_CardinalityType

\* Nothing accepted, nothing let go.
LEMMA CountStays ==
  ASSUME Accounted, UNCHANGED <<undelivered, held, flushed>>,
         flushing' \in BOOLEAN, producer' \in {"rest", "begin", "put", "count"},
         producer' = "count" <=> producer = "count",
         \A p \in Pumper : pump'[p].frame # None <=> pump[p].frame # None
  PROVE  Accounted'
<1>1. InHand' = InHand  BY DEF InHand
<1> QED  BY <1>1 DEF Accounted, FramesAreAccounted, Uncounted

LEMMA CountsAreNats ==
  ASSUME JitterIInv, Accounted
  PROVE  /\ IsFiniteSet(held) /\ Cardinality(held) \in Nat
         /\ IsFiniteSet(InHand) /\ Cardinality(InHand) \in Nat
         /\ Uncounted \in {0, 1} /\ flushed \in Nat /\ undelivered \in Int
         /\ undelivered + Uncounted = Cardinality(held) + Cardinality(InHand) + flushed
<1>1. InHand \in SUBSET Pumper  BY DEF InHand
<1>2. flushed \in Nat  BY StreamAssumption DEF Accounted
<1> QED
  BY <1>1, <1>2, Facts, HeldIsFinite, HandsAreFinite DEF Accounted, FramesAreAccounted, Uncounted

\* A frame is taken by the jitter buffer, and counted as accepted later.
LEMMA CountOffered ==
  ASSUME JitterIInv, Accounted, NEW n, n \notin held, held' = held \cup {n},
         producer # "count", producer' = "count",
         UNCHANGED <<pump, undelivered, flushing, flushed>>
  PROVE  Accounted'
<1>1. InHand' = InHand  BY DEF InHand
<1>2. Cardinality(held') = Cardinality(held) + 1  BY CountsAreNats, FS_AddElement
<1>3. Uncounted = 0 /\ Uncounted' = 1  BY DEF Uncounted
<1>4. undelivered + 1 = Cardinality(held') + Cardinality(InHand) + flushed
  BY <1>2, <1>3, CountsAreNats
<1> QED  BY <1>1, <1>3, <1>4 DEF Accounted, FramesAreAccounted

LEMMA CountAccepted ==
  ASSUME JitterIInv, Accounted, producer = "count", producer' = "rest",
         undelivered' = undelivered + 1, UNCHANGED <<pump, held, flushing, flushed>>
  PROVE  Accounted'
<1>1. InHand' = InHand  BY DEF InHand
<1>2. Uncounted = 1 /\ Uncounted' = 0  BY DEF Uncounted
<1>3. undelivered' \in Int /\ undelivered' + 0 = Cardinality(held) + Cardinality(InHand) + flushed
  BY <1>2, CountsAreNats
<1> QED  BY <1>1, <1>2, <1>3 DEF Accounted, FramesAreAccounted

\* A frame goes from the buffer into a pump's hands.
LEMMA CountTaken ==
  ASSUME JitterIInv, Accounted, NEW n \in held, held' = held \ {n},
         UNCHANGED <<undelivered, flushing, flushed, producer>>,
         NEW p \in Pumper, pump[p].frame = None, pump'[p].frame # None,
         \A q \in Pumper \ {p} : pump'[q].frame # None <=> pump[q].frame # None
  PROVE  Accounted'
<1>1. p \notin InHand /\ InHand' = InHand \cup {p}  BY DEF InHand
<1>2. Cardinality(held') = Cardinality(held) - 1  BY CountsAreNats, FS_RemoveElement
<1>3. Cardinality(InHand') = Cardinality(InHand) + 1  BY <1>1, CountsAreNats, FS_AddElement
<1>4. Uncounted' = Uncounted  BY DEF Uncounted
<1>5. undelivered + Uncounted = Cardinality(held') + Cardinality(InHand') + flushed
  BY <1>2, <1>3, CountsAreNats
<1> QED  BY <1>4, <1>5 DEF Accounted, FramesAreAccounted

\* A frame leaves a pump's hands, delivered or dropped.
LEMMA CountLetGo ==
  ASSUME JitterIInv, Accounted, undelivered' = undelivered - 1,
         UNCHANGED <<held, flushing, flushed, producer>>,
         NEW p \in Pumper, pump[p].frame # None, pump'[p].frame = None,
         \A q \in Pumper \ {p} : pump'[q].frame # None <=> pump[q].frame # None
  PROVE  Accounted'
<1>1. p \in InHand /\ InHand' = InHand \ {p}  BY DEF InHand
<1>2. Cardinality(InHand') = Cardinality(InHand) - 1  BY <1>1, CountsAreNats, FS_RemoveElement
<1>3. Uncounted' = Uncounted  BY DEF Uncounted
<1>4. /\ undelivered' \in Int
      /\ undelivered' + Uncounted = Cardinality(held) + Cardinality(InHand') + flushed
  BY <1>2, CountsAreNats
<1> QED  BY <1>3, <1>4 DEF Accounted, FramesAreAccounted

\* What is held is thrown away.
LEMMA CountFlushed ==
  ASSUME JitterIInv, Accounted, held' = {}, flushed' = flushed + Cardinality(held),
         flushed' <= MaxFlushed, flushing' \in BOOLEAN, UNCHANGED <<pump, undelivered, producer>>
  PROVE  Accounted'
<1>1. InHand' = InHand /\ Uncounted' = Uncounted  BY DEF InHand, Uncounted
<1>2. Cardinality(held') = 0  BY FS_EmptySet
<1>3. undelivered + Uncounted = Cardinality(held') + Cardinality(InHand) + flushed'
  BY <1>2, CountsAreNats
<1>4. flushed' \in 0 .. MaxFlushed  BY CountsAreNats, StreamAssumption
<1> QED  BY <1>1, <1>3, <1>4 DEF Accounted, FramesAreAccounted

----------------------------------------------------------------------------
(* The steps *)

LEMMA DeclaredIsClosed ==
  ASSUME NEW from \in DOMAIN Declared, NEW to \in Declared[from]
  PROVE  to \in DOMAIN Declared
BY DEF Declared

LEMMA TransitionKeeps ==
  ASSUME MediaIInv, NEW to, Transition(to)
  PROVE  MediaIInv'
<1>1. UNCHANGED <<jitterVars, pipeVars>> /\ to \in Declared[state] /\ state' = to
  BY DEF Transition
<1>2. JitterIInv'  BY <1>1, OtherwiseKeeps DEF MediaIInv
<1>3. NotesOK'
  BY <1>1, DeclaredIsClosed DEF MediaIInv, NotesOK, pipeVars, orderVars
<1>4. RingOK' /\ PumpsOK' /\ Accounted'
  BY <1>1 DEF MediaIInv, RingOK, PumpsOK, HandsAgree, SilenceFits, Accounted,
     FramesAreAccounted, Uncounted, InHand, pipeVars, ringVars, countVars, jitterVars, Size
<1> QED  BY <1>2, <1>3, <1>4 DEF MediaIInv

LEMMA EmptiedKeeps ==
  ASSUME NEW to \in DOMAIN Declared, Emptied(to)
  PROVE  MediaIInv'
<1>1. JitterIInv'  BY RenewKeeps DEF Emptied
<1>2. RingOK'
  <2>1. ring' = <<>> /\ tail' = 0  BY DEF Emptied
  <2>2. ring' \in Seq(Slots) /\ Len(ring') = 0  BY <2>1
  <2> QED  BY <2>1, <2>2, RingParameters, EmptyCircle DEF RingOK, Size
<1>3. pump' = [p \in Pumper |-> Resting]  BY DEF Emptied
<1>4. PumpsOK'
  <2>1. Resting \in Pumps  BY RingParameters DEF Resting, Pumps, Places
  <2>2. \A p \in Pumper : pump'[p] = Resting  BY <1>3
  <2>3. pump' \in [Pumper -> Pumps]  BY <1>3, <2>1
  <2>4. HandsAgree' /\ SilenceFits'  BY <2>2 DEF HandsAgree, SilenceFits, Resting
  <2> QED  BY <2>3, <2>4 DEF PumpsOK
<1>5. NotesOK'  BY DEF Emptied, NotesOK, Declared
<1>6. Accounted'
  <2>1. /\ held' = {} /\ undelivered' = 0 /\ flushed' = 0 /\ flushing' = FALSE
        /\ producer' = "rest" /\ Uncounted' = 0
    BY DEF Emptied, Renew, Uncounted
  <2>2. InHand' = {}  BY <1>3 DEF InHand, Resting
  <2>3. Cardinality(held)' = 0 /\ Cardinality(InHand)' = 0  BY <2>1, <2>2, FS_EmptySet
  <2>4. MaxFlushed \in Nat  BY StreamAssumption
  <2>5. FramesAreAccounted'  BY <2>1, <2>3 DEF FramesAreAccounted
  <2>6. undelivered' \in Int /\ flushed' \in 0 .. MaxFlushed  BY <2>1, <2>4
  <2>7. flushing' \in BOOLEAN  BY <2>1
  <2>8. producer' \in {"rest", "begin", "put", "count"}  BY <2>1
  <2> QED  BY <2>5, <2>6, <2>7, <2>8 DEF Accounted
<1> QED  BY <1>1, <1>2, <1>4, <1>5, <1>6 DEF MediaIInv

LEMMA LifecycleKeeps ==
  ASSUME MediaIInv, Lifecycle
  PROVE  MediaIInv'
<1>1. \A to : Transition(to) => MediaIInv'  BY TransitionKeeps
<1>2. \A to \in DOMAIN Declared : Emptied(to) => MediaIInv'  BY EmptiedKeeps
<1>3. CASE Open \/ Pause \/ Resume \/ Drain \/ Sweep
  BY <1>1, <1>3 DEF Open, Pause, Resume, Drain, Sweep
<1>4. CASE Conclude
  BY <1>2, <1>4 DEF Conclude, Declared
<1>5. CASE Restart
  BY <1>2, <1>5 DEF Restart, Declared
<1> QED  BY <1>3, <1>4, <1>5 DEF Lifecycle

LEMMA OfferKeeps ==
  ASSUME MediaIInv, NEW n \in Sequence, Offer(n)
  PROVE  MediaIInv'
<1>1. /\ Put(n) /\ producer = "put" /\ producer' = (IF Wanted(n) THEN "count" ELSE "rest")
      /\ UNCHANGED <<state, ringVars, pump, countVars, orderVars>>
  BY DEF Offer, Advance
<1>2. JitterIInv' /\ held' = (IF Wanted(n) THEN held \cup {n} ELSE held)
      /\ (Wanted(n) => n \notin held)
  BY <1>1, PutKeeps DEF MediaIInv
<1>3. RingOK' /\ PumpsOK'
  BY <1>1 DEF MediaIInv, RingOK, PumpsOK, HandsAgree, SilenceFits, Size, ringVars
<1>4. NotesOK'
  BY <1>1 DEF MediaIInv, NotesOK, orderVars
<1>5. CASE Wanted(n)
  <2>1. Accounted'  BY <1>1, <1>2, <1>5, CountOffered DEF MediaIInv, countVars
  <2> QED  BY <1>2, <1>3, <1>4, <2>1 DEF MediaIInv
<1>6. CASE ~Wanted(n)
  <2>1. /\ UNCHANGED <<undelivered, held, flushed, flushing, pump>>
        /\ producer' = "rest" /\ producer # "count" /\ flushing \in BOOLEAN
    BY <1>1, <1>2, <1>6 DEF MediaIInv, countVars, Accounted
  <2>2. Accounted'  BY <2>1, CountStays DEF MediaIInv
  <2> QED  BY <1>2, <1>3, <1>4, <2>2 DEF MediaIInv
<1> QED  BY <1>5, <1>6

LEMMA CountKeeps ==
  ASSUME MediaIInv, Count
  PROVE  MediaIInv'
<1>1. /\ producer = "count" /\ producer' = "rest" /\ undelivered' = undelivered + 1
      /\ UNCHANGED <<jitterVars, state, ringVars, pump, flushing, flushed, orderVars>>
  BY DEF Count, Advance
<1>2. JitterIInv'  BY <1>1, OtherwiseKeeps DEF MediaIInv
<1>3. RingOK' /\ PumpsOK' /\ NotesOK'
  BY <1>1 DEF MediaIInv, RingOK, PumpsOK, HandsAgree, SilenceFits, Size, NotesOK, ringVars,
     orderVars
<1>4. Accounted'  BY <1>1, CountAccepted DEF MediaIInv, jitterVars
<1> QED  BY <1>2, <1>3, <1>4 DEF MediaIInv

LEMMA EdgesKeep ==
  ASSUME MediaIInv, Write \/ Refuse \/ Read \/ \E n \in Sequence : Begin(n)
  PROVE  MediaIInv'
<1>1. /\ UNCHANGED <<jitterVars, state, tail, haveDelivered, pump, countVars, last, crossed>>
      /\ nextExpected' \in Nat
      /\ producer' \in {"rest", "begin", "put", "count"}
      /\ (producer' = "count" <=> producer = "count")
      /\ ring' \in {ring, Tail(ring)} /\ (ring' # ring => ring # <<>>)
  BY Frames DEF Write, Refuse, Begin, Advance, Read, MediaIInv, NotesOK, Accounted, ringVars,
     orderVars
<1>2. JitterIInv'  BY <1>1, OtherwiseKeeps DEF MediaIInv
<1>3. RingOK'
  <2>1. CASE ring' = ring  BY <1>1, <2>1 DEF MediaIInv, RingOK, Size
  <2>2. CASE ring' = Tail(ring) /\ ring # <<>>
    <3>1. ring' \in Seq(Slots) /\ Len(ring') <= RingCapacity
      BY <2>2, RingParameters DEF MediaIInv, RingOK
    <3>2. Circle(ring', tail)  BY <2>2, TailCircle DEF MediaIInv, RingOK
    <3> QED  BY <1>1, <3>1, <3>2 DEF MediaIInv, RingOK, Size
  <2> QED  BY <1>1, <2>1, <2>2
<1>4. PumpsOK' /\ NotesOK'
  BY <1>1 DEF MediaIInv, PumpsOK, HandsAgree, SilenceFits, NotesOK
<1>5. Accounted'
  BY <1>1, CountStays DEF MediaIInv, jitterVars, countVars, Accounted
<1> QED  BY <1>2, <1>3, <1>4, <1>5 DEF MediaIInv

LEMMA FlushKeeps ==
  ASSUME MediaIInv, FlushJitter \/ FlushRing
  PROVE  MediaIInv'
<1>1. CASE FlushJitter
  <2>1. /\ FlushHeld /\ held' = {} /\ flushed' = flushed + Cardinality(held)
        /\ flushed' <= MaxFlushed /\ flushing' = TRUE
        /\ UNCHANGED <<state, producer, ringVars, pump, undelivered, orderVars>>
    BY <1>1 DEF FlushJitter, FlushHeld
  <2>2. JitterIInv'  BY <2>1, OtherwiseKeeps DEF MediaIInv
  <2>3. RingOK' /\ PumpsOK' /\ NotesOK'
    BY <2>1 DEF MediaIInv, RingOK, PumpsOK, HandsAgree, SilenceFits, Size, NotesOK, ringVars,
       orderVars
  <2>4. Accounted'  BY <2>1, CountFlushed DEF MediaIInv
  <2> QED  BY <2>2, <2>3, <2>4 DEF MediaIInv
<1>2. CASE FlushRing
  <2>1. /\ ring' = <<>> /\ tail' = 0 /\ flushing' = FALSE
        /\ UNCHANGED <<jitterVars, state, producer, pump, undelivered, flushed, orderVars>>
    BY <1>2 DEF FlushRing
  <2>2. JitterIInv'  BY <2>1, OtherwiseKeeps DEF MediaIInv
  <2>3. RingOK'
    <3>1. ring' \in Seq(Slots) /\ Len(ring') = 0  BY <2>1
    <3> QED  BY <2>1, <3>1, RingParameters, EmptyCircle DEF RingOK, Size
  <2>4. PumpsOK' /\ NotesOK'
    BY <2>1 DEF MediaIInv, PumpsOK, HandsAgree, SilenceFits, NotesOK, orderVars
  <2>5. Accounted'  BY <2>1, CountStays DEF MediaIInv, jitterVars, Accounted
  <2> QED  BY <2>2, <2>3, <2>4, <2>5 DEF MediaIInv
<1> QED  BY <1>1, <1>2

----------------------------------------------------------------------------
(* The pumps *)

LEMMA PumpFacts ==
  ASSUME PumpsOK, NEW p \in Pumper
  PROVE  /\ pump \in [Pumper -> Pumps] /\ pump[p] \in Pumps
         /\ pump[p].at \in Places /\ pump[p].frame \in Sequence \cup {None}
         /\ pump[p].from \in Nat /\ pump[p].left \in 0 .. MaxGapFill
         /\ None \notin Sequence
         /\ pump[p].frame # None <=> pump[p].at \in {"gap", "write", "note"}
         /\ pump[p].left > 0 =>
              pump[p].at = "write" /\ pump[p].from + pump[p].left <= pump[p].frame
BY StreamAssumption DEF PumpsOK, HandsAgree, SilenceFits, Pumps

Fits(r) ==
  /\ r \in Pumps
  /\ r.frame # None <=> r.at \in {"gap", "write", "note"}
  /\ r.left > 0 => r.at = "write" /\ r.from + r.left <= r.frame

\* One pump goes on and the other stays.
LEMMA PumpMoves ==
  ASSUME PumpsOK, NEW p \in Pumper, NEW r, Fits(r), pump' = [pump EXCEPT ![p] = r]
  PROVE  PumpsOK' /\ pump'[p] = r /\ \A q \in Pumper \ {p} : pump'[q] = pump[q]
<1>1. pump \in [Pumper -> Pumps]  BY DEF PumpsOK
<1>2. pump' \in [Pumper -> Pumps] /\ pump'[p] = r /\ \A q \in Pumper \ {p} : pump'[q] = pump[q]
  BY <1>1 DEF Fits
<1>3. HandsAgree' /\ SilenceFits'
  BY <1>2 DEF PumpsOK, HandsAgree, SilenceFits, Fits
<1> QED  BY <1>2, <1>3 DEF PumpsOK

\* A pump changes its place only, with or without a frame.
LEMMA PumpGoes ==
  ASSUME PumpsOK, NEW p \in Pumper, NEW there \in Places, Go(p, there), pump[p].left = 0,
         pump[p].at \in {"gap", "write", "note"} <=> there \in {"gap", "write", "note"}
  PROVE  /\ PumpsOK'
         /\ \A q \in Pumper : pump'[q].frame # None <=> pump[q].frame # None
<1> DEFINE r == [pump[p] EXCEPT !.at = there]
<1>1. pump' = [pump EXCEPT ![p] = r]  BY DEF Go
<1>2. r \in Pumps /\ r.frame = pump[p].frame /\ r.at = there /\ r.left = 0
  BY PumpFacts DEF Pumps
<1> HIDE DEF r
<1>3. Fits(r)  BY <1>2, PumpFacts DEF Fits
<1>4. PumpsOK' /\ pump'[p] = r /\ \A q \in Pumper \ {p} : pump'[q] = pump[q]
  BY <1>1, <1>3, PumpMoves
<1> QED  BY <1>2, <1>4

LEMMA WalkKeeps ==
  ASSUME MediaIInv, NEW p \in Pumper, Start(p) \/ Look(p)
  PROVE  MediaIInv'
<1>1. /\ \E there \in {"look", "rest", "take"} : Go(p, there)
      /\ pump[p].at \in {"rest", "look"}
      /\ UNCHANGED <<jitterVars, state, producer, ringVars, countVars, orderVars>>
  BY DEF Start, Look, At
<1>2. pump[p].left = 0  BY <1>1, PumpFacts DEF MediaIInv
<1>3. PumpsOK' /\ \A q \in Pumper : pump'[q].frame # None <=> pump[q].frame # None
  BY <1>1, <1>2, PumpGoes DEF MediaIInv, Places
<1>4. JitterIInv'  BY <1>1, OtherwiseKeeps DEF MediaIInv
<1>5. RingOK' /\ NotesOK'  BY <1>1 DEF MediaIInv, RingOK, NotesOK, Size, ringVars, orderVars
<1>6. Accounted'  BY <1>1, <1>3, CountStays DEF MediaIInv, jitterVars, countVars, Accounted
<1> QED  BY <1>3, <1>4, <1>5, <1>6 DEF MediaIInv

LEMMA TakeKeeps ==
  ASSUME MediaIInv, NEW p \in Pumper, Take(p)
  PROVE  MediaIInv'
<1>1. /\ pump[p].at = "take" /\ crossed' \in BOOLEAN /\ last' \in {None, last}
      /\ UNCHANGED <<state, producer, ringVars, countVars, nextExpected, haveDelivered>>
  BY DEF Take, At, MediaIInv, NotesOK
<1>2. RingOK' /\ NotesOK'  BY <1>1 DEF MediaIInv, RingOK, NotesOK, Size, ringVars
<1>3. pump[p].left = 0 /\ pump[p].frame = None  BY <1>1, PumpFacts DEF MediaIInv
<1>4. ASSUME NEW n \in held, Get(n),
             pump' = [pump EXCEPT ![p].at = "gap", ![p].frame = n]
      PROVE  MediaIInv'
  <2> DEFINE r == [pump[p] EXCEPT !.at = "gap", !.frame = n]
  <2>1. n \in Sequence /\ n # None  BY Facts, StreamAssumption DEF MediaIInv
  <2>2. pump' = [pump EXCEPT ![p] = r]  BY <1>4, PumpFacts DEF MediaIInv
  <2>3. r \in Pumps /\ r.frame = n /\ r.at = "gap" /\ r.left = 0
    BY <1>3, <2>1, PumpFacts DEF MediaIInv, Pumps, Places
  <2> HIDE DEF r
  <2> Fits(r)  BY <2>1, <2>3 DEF Fits
  <2>4. PumpsOK' /\ pump'[p] = r /\ \A q \in Pumper \ {p} : pump'[q] = pump[q]
    BY <2>2, PumpMoves DEF MediaIInv
  <2>5. JitterIInv' /\ held' = held \ {n}  BY <1>4, GetKeeps DEF MediaIInv
  <2>6. Accounted'
    BY <1>1, <1>3, <2>1, <2>3, <2>4, <2>5, CountTaken DEF MediaIInv, countVars
  <2> QED  BY <1>2, <2>4, <2>5, <2>6 DEF MediaIInv
<1>5. CASE GetNothing /\ Go(p, "rest")
  <2>1. PumpsOK' /\ \A q \in Pumper : pump'[q].frame # None <=> pump[q].frame # None
    BY <1>1, <1>3, <1>5, PumpGoes DEF MediaIInv, Places
  <2>2. JitterIInv' /\ UNCHANGED held
    BY <1>5, OtherwiseKeeps DEF MediaIInv, GetNothing
  <2>3. Accounted'  BY <1>1, <2>1, <2>2, CountStays DEF MediaIInv, countVars, Accounted
  <2> QED  BY <1>2, <2>1, <2>2, <2>3 DEF MediaIInv
<1> QED  BY <1>4, <1>5 DEF Take

LEMMA GapKeeps ==
  ASSUME MediaIInv, NEW p \in Pumper, Gap(p)
  PROVE  MediaIInv'
<1> DEFINE n == pump[p].frame
           missing == IF haveDelivered /\ n > nextExpected THEN n - nextExpected ELSE 0
           r == [at |-> "write", frame |-> n, from |-> IF missing = 0 THEN 0 ELSE nextExpected,
                 left |-> IF missing > MaxGapFill THEN MaxGapFill ELSE missing]
<1>1. /\ pump[p].at = "gap" /\ pump' = [pump EXCEPT ![p] = r]
      /\ UNCHANGED <<jitterVars, state, producer, ringVars, countVars, orderVars>>
  BY DEF Gap, At
<1>2. n \in Sequence /\ n \in Nat /\ n # None /\ nextExpected \in Nat /\ MaxGapFill \in Nat
  BY <1>1, PumpFacts, Frames, RingParameters DEF MediaIInv, NotesOK
<1>3. missing \in Nat /\ (missing > 0 => nextExpected + missing = n)  BY <1>2
<1> HIDE DEF missing
<1>4. r \in Pumps /\ r.frame = n /\ r.at = "write" /\ (r.left > 0 => r.from + r.left <= n)
  BY <1>2, <1>3 DEF Pumps, Places
<1> HIDE DEF r
<1> Fits(r)  BY <1>2, <1>4 DEF Fits
<1>5. PumpsOK' /\ pump'[p] = r /\ \A q \in Pumper \ {p} : pump'[q] = pump[q]
  BY <1>1, PumpMoves DEF MediaIInv
<1>6. JitterIInv'  BY <1>1, OtherwiseKeeps DEF MediaIInv
<1>7. RingOK' /\ NotesOK'  BY <1>1 DEF MediaIInv, RingOK, NotesOK, Size, ringVars, orderVars
<1>8. Accounted'
  BY <1>1, <1>2, <1>4, <1>5, CountStays DEF MediaIInv, jitterVars, countVars, Accounted
<1> QED  BY <1>5, <1>6, <1>7, <1>8 DEF MediaIInv

LEMMA SilenceKeeps ==
  ASSUME MediaIInv, NEW p \in Pumper, Silence(p)
  PROVE  MediaIInv'
<1>1. /\ pump[p].at = "write" /\ pump[p].left > 0
      /\ UNCHANGED <<jitterVars, state, producer, countVars, orderVars>>
  BY DEF Silence, At
<1>2. /\ pump[p].frame \in Sequence /\ pump[p].frame # None /\ pump[p].from \in Nat
      /\ pump[p].left \in Nat /\ pump[p].left <= MaxGapFill /\ MaxGapFill \in Nat
      /\ pump[p].from + pump[p].left <= pump[p].frame
  BY <1>1, PumpFacts, RingParameters DEF MediaIInv
<1>3. pump[p].from \in Sequence
  <2>1. pump[p].frame <= LastSequence /\ pump[p].frame \in Nat  BY <1>2, Frames, Parameters DEF Sequence
  <2> QED  BY <1>1, <1>2, <2>1, Parameters DEF Sequence
<1>4. ASSUME NEW from \in Nat, NEW left \in 0 .. MaxGapFill,
             left > 0 => from + left <= pump[p].frame,
             pump' = [pump EXCEPT ![p] = [pump[p] EXCEPT !.from = from, !.left = left]]
      PROVE  PumpsOK' /\ Accounted'
  <2> DEFINE r == [pump[p] EXCEPT !.from = from, !.left = left]
  <2>1. r \in Pumps /\ r.frame = pump[p].frame /\ r.at = "write" /\ r.left = left /\ r.from = from
    BY <1>1, <1>4, PumpFacts DEF MediaIInv, Pumps
  <2>2. pump' = [pump EXCEPT ![p] = r]  BY <1>4
  <2> HIDE DEF r
  <2> Fits(r)  BY <1>2, <1>4, <2>1 DEF Fits
  <2>3. PumpsOK' /\ pump'[p] = r /\ \A q \in Pumper \ {p} : pump'[q] = pump[q]
    BY <2>2, PumpMoves DEF MediaIInv
  <2>4. Accounted'
    BY <1>1, <1>2, <2>1, <2>3, CountStays DEF MediaIInv, jitterVars, countVars, Accounted
  <2> QED  BY <2>3, <2>4
<1>5. CASE /\ RingWrite(pump[p].from, FALSE)
           /\ pump' = [pump EXCEPT ![p].from = IF pump[p].left = 1 THEN 0 ELSE @ + 1,
                                   ![p].left = @ - 1]
  <2> DEFINE from == IF pump[p].left = 1 THEN 0 ELSE pump[p].from + 1
             left == pump[p].left - 1
  <2>1. pump' = [pump EXCEPT ![p] = [pump[p] EXCEPT !.from = from, !.left = left]]
    BY <1>5, PumpFacts DEF MediaIInv
  <2>2. from \in Nat /\ left \in 0 .. MaxGapFill /\ (left > 0 => from + left <= pump[p].frame)
    BY <1>1, <1>2
  <2> HIDE DEF from, left
  <2>3. PumpsOK' /\ Accounted'  BY <1>4, <2>1, <2>2
  <2>4. RingOK'  BY <1>3, <1>5, RingWriteKeeps DEF MediaIInv
  <2> QED  BY <2>3, <2>4, <1>1, OtherwiseKeeps DEF MediaIInv, NotesOK, orderVars
<1>6. CASE /\ pump' = [pump EXCEPT ![p].from = 0, ![p].left = 0]
           /\ UNCHANGED <<ring, tail>>
  <2> DEFINE from == 0
             left == 0
  <2>1. pump' = [pump EXCEPT ![p] = [pump[p] EXCEPT !.from = from, !.left = left]]
    BY <1>6, PumpFacts DEF MediaIInv
  <2>2. from \in Nat /\ left \in 0 .. MaxGapFill /\ (left > 0 => from + left <= pump[p].frame)
    BY <1>2
  <2> HIDE DEF from, left
  <2>3. PumpsOK' /\ Accounted'  BY <1>4, <2>1, <2>2
  <2>4. RingOK'  BY <1>6 DEF MediaIInv, RingOK, Size, ringVars
  <2> QED  BY <2>3, <2>4, <1>1, OtherwiseKeeps DEF MediaIInv, NotesOK, orderVars
<1> QED  BY <1>5, <1>6 DEF Silence

LEMMA HandOver ==
  ASSUME MediaIInv, NEW p \in Pumper, pump[p].frame # None,
         UNCHANGED <<held, producer, flushing, flushed>>,
         pump' = [pump EXCEPT ![p] = [Resting EXCEPT !.at = "look"]],
         undelivered' = undelivered - 1
  PROVE  PumpsOK' /\ Accounted'
<1> DEFINE r == [Resting EXCEPT !.at = "look"]
<1>1. r \in Pumps /\ r.frame = None /\ r.at = "look" /\ r.left = 0
  BY RingParameters DEF Resting, Pumps, Places
<1>2. pump' = [pump EXCEPT ![p] = r]  OBVIOUS
<1> HIDE DEF r
<1> Fits(r)  BY <1>1 DEF Fits
<1>3. PumpsOK' /\ pump'[p] = r /\ \A q \in Pumper \ {p} : pump'[q] = pump[q]
  BY <1>2, PumpMoves DEF MediaIInv
<1>4. Accounted'  BY <1>1, <1>3, CountLetGo DEF MediaIInv
<1> QED  BY <1>3, <1>4

LEMMA DeliverKeeps ==
  ASSUME MediaIInv, NEW p \in Pumper, Deliver(p)
  PROVE  MediaIInv'
<1>1. /\ pump[p].at = "write" /\ pump[p].left = 0
      /\ UNCHANGED <<jitterVars, state, producer, flushing, flushed, nextExpected,
                     haveDelivered, crossed>>
  BY DEF Deliver, At
<1>2. pump[p].frame \in Sequence /\ pump[p].frame # None
  BY <1>1, PumpFacts DEF MediaIInv
<1>3. JitterIInv'  BY <1>1, OtherwiseKeeps DEF MediaIInv
<1>4. CASE /\ RingWrite(pump[p].frame, TRUE)
           /\ last' = IF crossed THEN None ELSE pump[p].frame
           /\ Go(p, "note") /\ UNCHANGED undelivered
  <2>1. RingOK'  BY <1>2, <1>4, RingWriteKeeps DEF MediaIInv
  <2>2. PumpsOK' /\ \A q \in Pumper : pump'[q].frame # None <=> pump[q].frame # None
    BY <1>1, <1>4, PumpGoes DEF MediaIInv, Places
  <2>3. Accounted'  BY <1>1, <1>4, <2>2, CountStays DEF MediaIInv, jitterVars, Accounted
  <2>4. NotesOK'  BY <1>1, <1>2, <1>4 DEF MediaIInv, NotesOK
  <2> QED  BY <1>3, <2>1, <2>2, <2>3, <2>4 DEF MediaIInv
<1>5. CASE /\ pump' = [pump EXCEPT ![p] = [Resting EXCEPT !.at = "look"]]
           /\ undelivered' = undelivered - 1 /\ UNCHANGED <<ring, tail, last>>
  <2>1. PumpsOK' /\ Accounted'  BY <1>1, <1>2, <1>5, HandOver DEF jitterVars
  <2>2. RingOK' /\ NotesOK'  BY <1>1, <1>5 DEF MediaIInv, RingOK, NotesOK, Size
  <2> QED  BY <1>3, <2>1, <2>2 DEF MediaIInv
<1> QED  BY <1>4, <1>5 DEF Deliver

LEMMA NoteKeeps ==
  ASSUME MediaIInv, NEW p \in Pumper, Note(p)
  PROVE  MediaIInv'
<1>1. /\ pump[p].at = "note" /\ pump' = [pump EXCEPT ![p] = [Resting EXCEPT !.at = "look"]]
      /\ haveDelivered' = TRUE /\ nextExpected' = pump[p].frame + 1
      /\ undelivered' = undelivered - 1
      /\ UNCHANGED <<jitterVars, state, producer, ringVars, flushing, flushed, last, crossed>>
  BY DEF Note, At
<1>2. pump[p].frame \in Nat /\ pump[p].frame # None
  BY <1>1, PumpFacts, Frames DEF MediaIInv
<1>3. JitterIInv'  BY <1>1, OtherwiseKeeps DEF MediaIInv
<1>4. PumpsOK' /\ Accounted'  BY <1>1, <1>2, HandOver DEF jitterVars
<1>5. RingOK' /\ NotesOK'  BY <1>1, <1>2 DEF MediaIInv, RingOK, NotesOK, Size, ringVars
<1> QED  BY <1>3, <1>4, <1>5 DEF MediaIInv

----------------------------------------------------------------------------
(* The theorems *)

LEMMA MediaStarts == Init => MediaIInv
<1> SUFFICES ASSUME Init  PROVE MediaIInv
  OBVIOUS
<1>1. held = {} /\ Cardinality(held) = 0  BY FS_EmptySet DEF Init, JitterStart
<1>2. 0 \in Sequence /\ TargetDelay \in MinDelay .. MaxDelay /\ 0 \in Int /\ 0 <= Capacity
  BY Parameters DEF Sequence
<1>3. JitterTypeOK  BY <1>1, <1>2 DEF Init, JitterStart, JitterTypeOK
<1>4. JitterIInv
  BY <1>3 DEF Init, JitterStart, JitterIInv, HeldIsAhead, ReleasesAfterStart
<1>5. RingOK
  <2>1. ring = <<>> /\ ring \in Seq(Slots) /\ Len(ring) = 0 /\ tail = 0  BY DEF Init
  <2> QED  BY <2>1, RingParameters, EmptyCircle DEF RingOK
<1>6. PumpsOK
  <2>1. Resting \in Pumps  BY RingParameters DEF Resting, Pumps, Places
  <2>2. pump = [p \in Pumper |-> Resting]  BY DEF Init
  <2>3. HandsAgree /\ SilenceFits  BY <2>2 DEF HandsAgree, SilenceFits, Resting
  <2> QED  BY <2>1, <2>2, <2>3 DEF PumpsOK
<1>7. NotesOK  BY DEF Init, NotesOK, Declared
<1>8. Accounted
  <2>1. InHand = {}  BY DEF Init, InHand, Resting
  <2>2. Cardinality(InHand) = 0  BY <2>1, FS_EmptySet
  <2>3. MaxFlushed \in Nat  BY StreamAssumption
  <2>4. undelivered = 0 /\ flushed = 0 /\ flushing = FALSE /\ producer = "rest"
    BY DEF Init
  <2>5. FramesAreAccounted  BY <1>1, <2>2, <2>4 DEF FramesAreAccounted, Uncounted
  <2>6. undelivered \in Int /\ flushed \in 0 .. MaxFlushed  BY <2>3, <2>4
  <2>7. flushing \in BOOLEAN  BY <2>4
  <2>8. producer \in {"rest", "begin", "put", "count"}  BY <2>4
  <2> QED  BY <2>5, <2>6, <2>7, <2>8 DEF Accounted
<1> QED  BY <1>4, <1>5, <1>6, <1>7, <1>8 DEF MediaIInv

LEMMA MediaKeeps == MediaIInv /\ [Next]_vars => MediaIInv'
<1> SUFFICES ASSUME MediaIInv, [Next]_vars
             PROVE  MediaIInv'
  OBVIOUS
<1>1. CASE Lifecycle  BY <1>1, LifecycleKeeps
<1>2. CASE Write \/ Refuse \/ Read \/ \E n \in Sequence : Begin(n)  BY <1>2, EdgesKeep
<1>3. CASE FlushJitter \/ FlushRing  BY <1>3, FlushKeeps
<1>4. CASE \E n \in Sequence : Offer(n)  BY <1>4, OfferKeeps
<1>7. CASE Count  BY <1>7, CountKeeps
<1>5. ASSUME NEW p \in Pumper, Start(p) \/ PumpStep(p)  PROVE MediaIInv'
  BY <1>5, WalkKeeps, TakeKeeps, GapKeeps, SilenceKeeps, DeliverKeeps, NoteKeeps DEF PumpStep
<1>6. CASE UNCHANGED vars
  <2>1. UNCHANGED jitterVars /\ UNCHANGED pipeVars /\ UNCHANGED state
    BY <1>6 DEF vars
  <2>2. JitterIInv'  BY <2>1, OtherwiseKeeps DEF MediaIInv
  <2>3. RingOK' /\ PumpsOK' /\ NotesOK' /\ Accounted'
    BY <2>1 DEF MediaIInv, RingOK, PumpsOK, HandsAgree, SilenceFits, NotesOK, Accounted,
       FramesAreAccounted, Uncounted, InHand, pipeVars, ringVars, countVars, orderVars,
       jitterVars, Size
  <2> QED  BY <2>2, <2>3 DEF MediaIInv
<1> QED  BY <1>1, <1>2, <1>3, <1>4, <1>5, <1>6, <1>7 DEF Next

THEOREM MediaInductive == Spec => []MediaIInv
BY MediaStarts, MediaKeeps, PTL DEF Spec

\* What is held is ahead of what was released; every accepted frame is held, in
\* hand, delivered, counted as dropped or one of those that Flush threw away and
\* no counter shows; and no two frames of the ring, of one length, overlap in
\* its arena (JitterBuffer.Put, Get; Pipeline.Push, Pump, Flush; RingBuffer).
THEOREM MediaSafe == Spec => []MediaInv
<1>1. MediaIInv => TypeOK
  BY DEF MediaIInv, JitterIInv, RingOK, PumpsOK, NotesOK, Accounted, TypeOK, Pumps, Places, Slots
<1>2. MediaIInv => HeldIsAhead /\ FramesAreAccounted /\ FramesAreIntact
  BY CircleIsIntact DEF MediaIInv, JitterIInv, Accounted, RingOK
<1>3. MediaIInv => MediaInv  BY <1>1, <1>2 DEF MediaInv
<1> QED  BY <1>3, MediaInductive, PTL

\* A stream that has released something is never stalled by what is missing
\* (JitterBuffer.Get, holeBlocksHeadLocked).
THEOREM NoHoleStalls == Spec => []ReleasedStreamsKeepMoving
<1>1. MediaIInv => ReleasedStreamsKeepMoving  BY NoStall DEF MediaIInv
<1> QED  BY <1>1, MediaInductive, PTL

----------------------------------------------------------------------------
(* The order of the output *)

LEMMA OrderFacts ==
  ASSUME MediaIInv
  PROVE  /\ last \in Sequence \cup {None} /\ None \notin Sequence /\ Sequence \subseteq Nat
         /\ highest \in Nat /\ nextExpected \in Nat /\ crossed \in BOOLEAN
         /\ released \in BOOLEAN /\ released => started
         /\ \A n \in held : n \in Sequence /\ (released => n > highest)
         /\ \A p \in Pumper :
              /\ pump[p].frame \in Sequence \cup {None} /\ pump[p].from \in Nat
              /\ pump[p].left \in Nat /\ pump[p].at \in Places
              /\ pump[p].frame # None <=> pump[p].at \in {"gap", "write", "note"}
              /\ pump[p].left > 0 => pump[p].at = "write"
<1>1. \A p \in Pumper : pump[p].left \in Nat  BY PumpFacts, RingParameters DEF MediaIInv
<1> QED  BY <1>1, PumpFacts, Facts, Frames, StreamAssumption DEF MediaIInv, NotesOK

\* What neither moves a pump nor puts a frame in the ring keeps the order.
LEMMA OrderStays ==
  ASSUME MediaIInv, OrderKept, UNCHANGED <<pump, last, crossed, highest, released>>,
         released => nextExpected' = nextExpected
  PROVE  OrderKept'
BY DEF OrderKept, HandInOrder, InHand

LEMMA OrderEmptied ==
  ASSUME NEW to, Emptied(to)
  PROVE  OrderKept'
<1>1. last' = None /\ crossed' = FALSE /\ \A p \in Pumper : pump'[p] = Resting
  BY DEF Emptied
<1>2. InHand' = {}  BY <1>1 DEF InHand, Resting
<1> QED  BY <1>1, <1>2 DEF OrderKept, HandInOrder, Resting

\* A pump whose frame, if it had one, was in hand before.
LEMMA OrderMoves ==
  ASSUME MediaIInv, OrderKept, NEW p \in Pumper,
         \A q \in Pumper \ {p} : pump'[q] = pump[q],
         UNCHANGED <<crossed, highest, released>>,
         pump'[p].frame # None => pump'[p].frame = pump[p].frame,
         crossed => last' = None, HandInOrder(p)',
         last' # None =>
           /\ released /\ last' <= highest
           /\ \A q \in Pumper \ {p} : last = last' \/ pump[q].frame = None
           /\ (\A q \in Pumper : pump'[q].at # "note") => last' < nextExpected'
  PROVE  OrderKept'
<1>1. InHand' \subseteq InHand  BY DEF InHand
<1>2. ASSUME NEW q \in Pumper \ {p}  PROVE HandInOrder(q)'
  <2>1. pump'[q] = pump[q] /\ HandInOrder(q)  BY DEF OrderKept
  <2>2. CASE last' = None \/ last = last'  BY <2>1, <2>2 DEF HandInOrder
  <2>3. CASE last' # None /\ pump[q].frame = None
    BY <2>1, <2>3, OrderFacts DEF HandInOrder
  <2> QED  BY <2>2, <2>3
<1>3. \A q \in Pumper : HandInOrder(q)'  BY <1>2
<1> QED  BY <1>1, <1>3 DEF OrderKept

LEMMA TakeOrdered ==
  ASSUME MediaIInv, OrderKept, NEW p \in Pumper, Take(p)
  PROVE  OrderKept'
<1>1. /\ pump[p].at = "take" /\ UNCHANGED nextExpected /\ pump \in [Pumper -> Pumps]
      /\ crossed' = (crossed \/ \E q \in Pumper \ {p} : pump[q].frame # None)
      /\ last' = IF crossed' THEN None ELSE last
      /\ pump[p].frame = None
  BY PumpFacts DEF Take, At, MediaIInv
<1>2. ASSUME NEW n \in held, Get(n), pump' = [pump EXCEPT ![p].at = "gap", ![p].frame = n]
      PROVE  OrderKept'
  <2>1. highest' = n /\ released' = TRUE  BY <1>2 DEF Get
  <2>2. n \in Nat /\ n # None /\ (released => n > highest)  BY OrderFacts
  <2>3. /\ pump'[p].at = "gap" /\ pump'[p].frame = n /\ pump'[p].left = pump[p].left
        /\ \A q \in Pumper \ {p} : pump'[q] = pump[q]
    BY <1>1, <1>2 DEF Pumps
  <2>4. ~ crossed' => \A q \in Pumper : q # p => pump[q].frame = None  BY <1>1
  <2>5. ~ crossed' => InHand' = {p}  BY <2>2, <2>3, <2>4 DEF InHand
  <2>6. last' # None => last' = last /\ released /\ last <= highest /\ ~ crossed'
    BY <1>1 DEF OrderKept
  <2>7. last' # None => last \in Nat /\ last < n  BY <2>2, <2>6, OrderFacts
  <2>8. pump[p].left = 0  BY <1>1, OrderFacts
  <2>9. HandInOrder(p)'  BY <2>1, <2>2, <2>3, <2>6, <2>7, <2>8 DEF HandInOrder
  <2>10. ASSUME NEW q \in Pumper \ {p}  PROVE HandInOrder(q)'
    <3>1. pump'[q] = pump[q] /\ HandInOrder(q)  BY <2>3 DEF OrderKept
    <3>2. pump[q].frame # None => pump[q].frame <= n
      BY <2>2, <3>1, OrderFacts DEF HandInOrder
    <3> QED  BY <2>1, <2>6, <3>1, <3>2 DEF HandInOrder
  <2>11. last' # None /\ (\A q \in Pumper : pump'[q].at # "note") => last' < nextExpected'
    BY <1>1, <2>3, <2>6 DEF OrderKept
  <2>12. last' # None => released' /\ last' <= highest'  BY <2>1, <2>2, <2>6, <2>7
  <2>13. crossed' => last' = None  BY <1>1
  <2>14. \A q \in Pumper : HandInOrder(q)'  BY <2>9, <2>10
  <2> QED  BY <2>5, <2>11, <2>12, <2>13, <2>14 DEF OrderKept
<1>3. CASE GetNothing /\ Go(p, "rest")
  <2>1. /\ pump'[p].frame = None /\ pump'[p].at = "rest" /\ pump'[p].left = 0
        /\ \A q \in Pumper \ {p} : pump'[q] = pump[q]
    BY <1>1, <1>3, OrderFacts DEF Go, Pumps
  <2>2. UNCHANGED <<highest, released>>  BY <1>3 DEF GetNothing
  <2>3. last' # None => last' = last /\ ~ crossed' /\ ~ crossed  BY <1>1
  <2>4. InHand' \subseteq InHand  BY <2>1 DEF InHand
  <2>5. \A q \in Pumper : HandInOrder(q)'
    BY <2>1, <2>2, <2>3 DEF OrderKept, HandInOrder
  <2>6. last' # None /\ (\A q \in Pumper : pump'[q].at # "note") => last' < nextExpected'
    BY <1>1, <2>1, <2>3 DEF OrderKept
  <2>7. crossed' \/ ~ crossed  BY <1>1
  <2> QED  BY <1>1, <2>2, <2>3, <2>4, <2>5, <2>6, <2>7 DEF OrderKept
<1> QED  BY <1>2, <1>3 DEF Take

LEMMA PumpOrdered ==
  ASSUME MediaIInv, OrderKept, NEW p \in Pumper, Start(p) \/ PumpStep(p)
  PROVE  OrderKept'
<1>1. pump \in [Pumper -> Pumps]  BY DEF MediaIInv, PumpsOK
<1>2. CASE Start(p) \/ Look(p)
  <2>1. PICK there \in {"look", "rest", "take"} : Go(p, there)
    BY <1>2 DEF Start, Look
  <2>2. pump[p].at \in {"rest", "look"}
        /\ UNCHANGED <<last, crossed, highest, released, nextExpected>>
    BY <1>2 DEF Start, Look, At, jitterVars, orderVars
  <2>3. /\ pump'[p].frame = None /\ pump'[p].at = there /\ pump'[p].left = 0
        /\ \A q \in Pumper \ {p} : pump'[q] = pump[q]
    BY <1>1, <2>1, <2>2, OrderFacts DEF Go, Pumps
  <2>4. HandInOrder(p)'  BY <2>3 DEF HandInOrder
  <2> QED  BY <2>2, <2>3, <2>4, OrderMoves DEF OrderKept
<1>3. CASE Take(p)  BY <1>3, TakeOrdered
<1>4. CASE Gap(p)
  <2> DEFINE n == pump[p].frame
             missing == IF haveDelivered /\ n > nextExpected THEN n - nextExpected ELSE 0
             left == IF missing > MaxGapFill THEN MaxGapFill ELSE missing
             from == IF missing = 0 THEN 0 ELSE nextExpected
  <2>1. /\ pump[p].at = "gap"
        /\ pump' = [pump EXCEPT ![p] =
                      [at |-> "write", frame |-> n, from |-> from, left |-> left]]
        /\ UNCHANGED <<last, crossed, highest, released, nextExpected>>
    BY <1>4 DEF Gap, At, jitterVars, orderVars
  <2>2. n \in Nat /\ nextExpected \in Nat /\ MaxGapFill \in Nat
    BY <2>1, OrderFacts, RingParameters
  <2>3. left > 0 => from = nextExpected  BY <2>2
  <2> HIDE DEF missing, left, from
  <2>4. /\ pump'[p].frame = n /\ pump'[p].at = "write" /\ pump'[p].left = left
        /\ pump'[p].from = from /\ \A q \in Pumper \ {p} : pump'[q] = pump[q]
    BY <1>1, <2>1
  <2>5. HandInOrder(p) /\ n # None  BY <2>1, OrderFacts DEF OrderKept
  <2>6. last # None => ~ crossed /\ last < nextExpected
    <3> SUFFICES ASSUME last # None  PROVE ~ crossed /\ last < nextExpected
      OBVIOUS
    <3>1. ~ crossed /\ p \in InHand  BY <2>5 DEF OrderKept, InHand
    <3>2. \A q \in Pumper : pump[q].at = "note" => q = p
      BY <3>1, OrderFacts DEF OrderKept, InHand
    <3>3. \A q \in Pumper : pump[q].at # "note"  BY <2>1, <3>2
    <3> QED  BY <3>1, <3>3 DEF OrderKept
  <2>7. HandInOrder(p)'  BY <2>1, <2>3, <2>4, <2>5, <2>6 DEF HandInOrder
  <2> QED  BY <2>1, <2>4, <2>6, <2>7, OrderMoves DEF OrderKept
<1>5. CASE Silence(p)
  <2>1. /\ pump[p].at = "write" /\ pump[p].left > 0
        /\ UNCHANGED <<last, crossed, highest, released, nextExpected>>
    BY <1>5 DEF Silence, At, jitterVars, orderVars
  <2>2. /\ pump'[p].frame = pump[p].frame /\ pump'[p].at = "write"
        /\ \A q \in Pumper \ {p} : pump'[q] = pump[q]
        /\ pump'[p].left > 0 => pump'[p].from = pump[p].from + 1
    <3>1. CASE pump' = [pump EXCEPT ![p].from = IF pump[p].left = 1 THEN 0 ELSE @ + 1,
                                    ![p].left = @ - 1]
      BY <1>1, <2>1, <3>1, OrderFacts DEF Pumps
    <3>2. CASE pump' = [pump EXCEPT ![p].from = 0, ![p].left = 0]
      BY <1>1, <2>1, <3>2 DEF Pumps
    <3> QED  BY <1>5, <3>1, <3>2 DEF Silence
  <2>3. HandInOrder(p) /\ pump[p].from \in Nat /\ (last # None => last \in Nat)
    BY OrderFacts DEF OrderKept
  <2>4. HandInOrder(p)'  BY <2>1, <2>2, <2>3 DEF HandInOrder
  <2>5. \A q \in Pumper : pump'[q].at = "note" <=> pump[q].at = "note"  BY <2>1, <2>2
  <2>6. last' # None /\ (\A q \in Pumper : pump'[q].at # "note") => last' < nextExpected'
    BY <2>1, <2>5 DEF OrderKept
  <2> QED  BY <2>1, <2>2, <2>4, <2>6, OrderMoves DEF OrderKept
<1>6. CASE Deliver(p)
  <2>1. /\ pump[p].at = "write" /\ pump[p].left = 0 /\ UNCHANGED <<crossed, highest, released>>
        /\ UNCHANGED nextExpected
    BY <1>6 DEF Deliver, At, jitterVars
  <2>2. pump[p].frame # None /\ HandInOrder(p) /\ pump[p].frame \in Nat
    BY <2>1, OrderFacts DEF OrderKept
  <2>3. CASE last' = (IF crossed THEN None ELSE pump[p].frame) /\ Go(p, "note")
    <3>1. /\ pump'[p].frame = pump[p].frame /\ pump'[p].at = "note" /\ pump'[p].left = 0
          /\ \A q \in Pumper \ {p} : pump'[q] = pump[q]
      BY <1>1, <2>1, <2>3 DEF Go, Pumps
    <3>2. last' # None => ~ crossed /\ last' = pump[p].frame  BY <2>3
    <3>3. last' # None => \A q \in Pumper \ {p} : pump[q].frame = None
      BY <2>2, <3>2 DEF OrderKept, InHand
    <3>4. HandInOrder(p)'  BY <2>1, <2>2, <3>1, <3>2 DEF HandInOrder
    <3>5. last' # None => released /\ last' <= highest  BY <2>2, <3>2 DEF HandInOrder
    <3> QED  BY <2>1, <2>3, <3>1, <3>3, <3>4, <3>5, OrderMoves
  <2>4. CASE pump' = [pump EXCEPT ![p] = [Resting EXCEPT !.at = "look"]] /\ UNCHANGED last
    <3>1. /\ pump'[p].frame = None /\ pump'[p].at = "look" /\ pump'[p].left = 0
          /\ \A q \in Pumper \ {p} : pump'[q] = pump[q]
      BY <1>1, <2>4 DEF Resting
    <3>2. HandInOrder(p)'  BY <3>1 DEF HandInOrder
    <3>3. last' # None /\ (\A q \in Pumper : pump'[q].at # "note") => last' < nextExpected'
      BY <2>1, <2>4, <3>1 DEF OrderKept
    <3> QED  BY <2>1, <2>4, <3>1, <3>2, <3>3, OrderMoves DEF OrderKept
  <2> QED  BY <1>6, <2>3, <2>4 DEF Deliver
<1>7. CASE Note(p)
  <2>1. /\ pump[p].at = "note" /\ pump' = [pump EXCEPT ![p] = [Resting EXCEPT !.at = "look"]]
        /\ nextExpected' = pump[p].frame + 1
        /\ UNCHANGED <<last, crossed, highest, released>>
    BY <1>7 DEF Note, At, jitterVars
  <2>2. /\ pump'[p].frame = None /\ pump'[p].at = "look" /\ pump'[p].left = 0
        /\ \A q \in Pumper \ {p} : pump'[q] = pump[q]
    BY <1>1, <2>1 DEF Resting
  <2>3. HandInOrder(p) /\ pump[p].frame \in Nat /\ (last # None => last \in Nat)
    BY <2>1, OrderFacts DEF OrderKept
  <2>4. HandInOrder(p)'  BY <2>2 DEF HandInOrder
  <2>5. last' # None => last' < nextExpected'  BY <2>1, <2>3 DEF HandInOrder
  <2> QED  BY <2>1, <2>2, <2>4, <2>5, OrderMoves DEF OrderKept
<1> QED  BY <1>2, <1>3, <1>4, <1>5, <1>6, <1>7 DEF PumpStep

LEMMA OrderStep == MediaIInv /\ OrderKept /\ [Next]_vars => OrderKept'
<1> SUFFICES ASSUME MediaIInv, OrderKept, [Next]_vars
             PROVE  OrderKept'
  OBVIOUS
<1>1. \A to : Transition(to) => OrderKept'
  BY OrderStays DEF Transition, jitterVars, pipeVars, orderVars
<1>2. CASE Open \/ Pause \/ Resume \/ Drain \/ Sweep
  BY <1>1, <1>2 DEF Open, Pause, Resume, Drain, Sweep
<1>3. CASE Conclude \/ Restart
  BY <1>3, OrderEmptied DEF Conclude, Restart
<1>4. CASE Write \/ Refuse \/ Count \/ Read \/ FlushJitter \/ FlushRing \/ UNCHANGED vars
  BY <1>4, OrderStays DEF Write, Refuse, Count, Read, FlushJitter, FlushRing, FlushHeld, vars,
     jitterVars, pipeVars, orderVars
<1>5. ASSUME NEW n \in Sequence, Begin(n) \/ Offer(n)  PROVE OrderKept'
  <2>1. released => nextExpected' = nextExpected
    BY <1>5, OrderFacts DEF Begin, Offer, orderVars
  <2> QED  BY <1>5, <2>1, OrderStays DEF Begin, Offer, Put, jitterVars, orderVars
<1>6. ASSUME NEW p \in Pumper, Start(p) \/ PumpStep(p)  PROVE OrderKept'
  BY <1>6, PumpOrdered
<1> QED  BY <1>2, <1>3, <1>4, <1>5, <1>6 DEF Next, Lifecycle

THEOREM OrderInductive == Spec => []OrderKept
<1>1. Init => OrderKept
  <2> SUFFICES ASSUME Init  PROVE OrderKept
    OBVIOUS
  <2>1. last = None /\ crossed = FALSE /\ \A p \in Pumper : pump[p] = Resting  BY DEF Init
  <2>2. InHand = {}  BY <2>1 DEF InHand, Resting
  <2> QED  BY <2>1, <2>2 DEF OrderKept, HandInOrder, Resting
<1> QED  BY <1>1, OrderStep, MediaInductive, PTL DEF Spec

\* Only a pump that writes moves the end of what the arena holds and leaves
\* something in the ring.
LEMMA OnlyPumpsWrite ==
  ASSUME [Next]_vars, tail' # tail, ring' # <<>>
  PROVE  \E p \in Pumper : Silence(p) \/ Deliver(p)
<1>1. \A to : ~ Transition(to) /\ ~ Emptied(to)  BY DEF Transition, Emptied, pipeVars, ringVars
<1>2. ~ Lifecycle
  BY <1>1 DEF Lifecycle, Open, Pause, Resume, Drain, Sweep, Conclude, Restart
<1>3. ~ (\/ Write \/ Refuse \/ Count \/ Read \/ FlushJitter \/ FlushRing \/ UNCHANGED vars
         \/ \E n \in Sequence : Begin(n) \/ Offer(n))
  BY DEF Write, Refuse, Begin, Offer, Count, Read, FlushJitter, FlushRing, vars, pipeVars, ringVars
<1>4. \A p \in Pumper : ~ (Start(p) \/ Look(p) \/ Take(p) \/ Gap(p) \/ Note(p))
  BY DEF Start, Look, Take, Gap, Note, ringVars
<1> QED  BY <1>2, <1>3, <1>4 DEF Next, PumpStep

\* What enters the ring, silence included, follows the last real frame that did,
\* unless two pumps had frames at once (Pipeline.Pump, fillGaps).
THEOREM OrderHolds == Spec => OutputInOrder
<1>1. ASSUME MediaIInv, OrderKept, [Next]_vars, NEW n \in Sequence, ring' # <<>>,
             ring'[Len(ring')].seq = n, tail' # tail, last # None
      PROVE  n > last
  <2>1. PICK p \in Pumper : Silence(p) \/ Deliver(p)  BY <1>1, OnlyPumpsWrite
  <2>2. ASSUME NEW m, NEW real, RingWrite(m, real)  PROVE n = m
    <3> DEFINE room == IF Full THEN Tail(ring) ELSE ring
               slot == [seq |-> m, real |-> real, off |-> Place]
    <3>1. ring' = Append(room, slot)  BY <2>2 DEF RingWrite
    <3>2. room \in Seq(Slots)
      BY <1>1, RingParameters DEF MediaIInv, RingOK, Full
    <3> HIDE DEF room
    <3>3. Len(ring') = Len(room) + 1 /\ Len(room) \in Nat  BY <3>1, <3>2
    <3>4. ring'[Len(ring')] = slot  BY <3>1, <3>2, <3>3
    <3> QED  BY <1>1, <3>4
  <2>3. HandInOrder(p)  BY <1>1 DEF OrderKept
  <2>4. CASE Silence(p)
    <3>1. RingWrite(pump[p].from, FALSE) /\ pump[p].left > 0  BY <1>1, <2>4 DEF Silence
    <3>2. n = pump[p].from  BY <2>2, <3>1
    <3>3. last < pump[p].from  BY <1>1, <2>3, <3>1 DEF HandInOrder
    <3> QED  BY <3>2, <3>3
  <2>5. CASE Deliver(p)
    <3>1. RingWrite(pump[p].frame, TRUE) /\ pump[p].at = "write"
      BY <1>1, <2>5 DEF Deliver, At
    <3>2. n = pump[p].frame  BY <2>2, <3>1
    <3>3. last < pump[p].frame  BY <1>1, <2>3, <3>1 DEF HandInOrder
    <3> QED  BY <3>2, <3>3
  <2> QED  BY <2>1, <2>4, <2>5
<1>2. MediaIInv /\ OrderKept /\ [Next]_vars =>
        [\A n \in Sequence :
           ring' # ring /\ ring' # <<>> /\ ring'[Len(ring')].seq = n /\ tail' # tail
             => last = None \/ n > last]_vars
  BY <1>1
<1> QED  BY <1>2, MediaInductive, OrderInductive, PTL DEF Spec, OutputInOrder

============================================================================
