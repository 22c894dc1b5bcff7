--------------------------- MODULE JitterBuffer ----------------------------
(***************************************************************************)
(* The reordering buffer of a media stream (packages/go/media/jitter.go):  *)
(* it holds frames until the playout position reaches them, adapts its     *)
(* delay, refuses late, early and repeated frames, and steps over holes.   *)
(*                                                                         *)
(* A source numbers its frames and every frame is one Interval long, so a  *)
(* frame is its sequence number.  Time is media time, in any unit.         *)
(***************************************************************************)
EXTENDS Integers, FiniteSets, FiniteSetsExt

CONSTANTS
  LastSequence,                     \* bound: the source's last frame
  Interval,                         \* FrameInterval
  TargetDelay, MinDelay, MaxDelay,  \* JitterConfig
  Step,                             \* adaptLocked's step
  Capacity

ASSUME JitterAssumption ==
  /\ {LastSequence, MinDelay, MaxDelay} \subseteq Nat
  /\ {Interval, Step, Capacity, TargetDelay} \subseteq Nat \ {0}
  /\ TargetDelay \in MinDelay .. MaxDelay

Sequence == 0 .. LastSequence
Timestamp(n) == Interval * n
End(n) == Interval * (n + 1)

VARIABLES
  held,             \* frames waiting for their playout
  started,
  playout,          \* the position frames are released against
  frontier,         \* the furthest position an accepted frame reaches
  releaseFrontier,  \* the highest release limit seen
  highest,          \* highestReleased
  released,         \* something has been released
  current           \* the delay in force

jitterVars == <<held, started, playout, frontier, releaseFrontier, highest,
                released, current>>

JitterStart ==
  /\ held = {} /\ started = FALSE
  /\ playout = 0 /\ frontier = 0 /\ releaseFrontier = 0
  /\ highest = 0 /\ released = FALSE
  /\ current = TargetDelay

\* RestoreStream builds a new buffer.
Renew ==
  /\ held' = {} /\ started' = FALSE
  /\ playout' = 0 /\ frontier' = 0 /\ releaseFrontier' = 0
  /\ highest' = 0 /\ released' = FALSE
  /\ current' = TargetDelay

\* adaptLocked: one step toward twice the measured jitter, which is anything
\* once a second frame has arrived, and nothing before.
Adapted(target) ==
  IF target > current + Step THEN current + Step
  ELSE IF target < current - Step THEN current - Step ELSE current
Targets == IF started THEN MinDelay .. MaxDelay ELSE {MinDelay}

\* The first frame anchors the position and the frontier.
Position(n) == IF started THEN playout ELSE Timestamp(n) - current
Reach(n) == IF started THEN frontier ELSE End(n)

\* Neither a duplicate, nor late, nor too early, and there is room.
Wanted(n) ==
  /\ n \notin held /\ ~(released /\ n <= highest)
  /\ Timestamp(n) >= Position(n)
  /\ Timestamp(n) <= Reach(n) + MaxDelay
  /\ Cardinality(held) < Capacity

\* Put.
Put(n) ==
  /\ started' = TRUE
  /\ playout' = Position(n)
  /\ current' \in {Adapted(target) : target \in Targets}
  /\ held' = IF Wanted(n) THEN held \cup {n} ELSE held
  /\ frontier' = IF Wanted(n) /\ End(n) > Reach(n) THEN End(n) ELSE Reach(n)
  /\ UNCHANGED <<releaseFrontier, highest, released>>

\* releaseLimitLocked: it never moves back.
Limit == IF playout + current > releaseFrontier THEN playout + current ELSE releaseFrontier

Due(n) == Timestamp(n) <= Limit

\* MUTANT of HoleBefore: the frame after next is taken for the next one.
HoleBeforeLater(n) == released /\ n > highest + 2

\* holeBlocksHeadLocked.
HoleBefore(n) == released /\ n > highest + 1

Releasable == held # {} /\ (Due(Min(held)) \/ HoleBefore(Min(held)))

\* Get releases the oldest frame, over a hole if need be.
Get(n) ==
  /\ Releasable /\ n = Min(held)
  /\ held' = held \ {n}
  /\ releaseFrontier' = IF Due(n) THEN Limit ELSE Timestamp(n) + current
  /\ playout' = End(n) /\ highest' = n /\ released' = TRUE
  /\ UNCHANGED <<started, frontier, current>>

\* Get with nothing due still latches the limit, if anything is held.
GetNothing ==
  /\ ~Releasable
  /\ releaseFrontier' = IF held = {} THEN releaseFrontier ELSE Limit
  /\ UNCHANGED <<held, started, playout, frontier, highest, released, current>>

FlushHeld ==
  /\ held' = {}
  /\ UNCHANGED <<started, playout, frontier, releaseFrontier, highest, released, current>>

----------------------------------------------------------------------------
JitterTypeOK ==
  /\ held \subseteq Sequence /\ Cardinality(held) <= Capacity
  /\ started \in BOOLEAN /\ released \in BOOLEAN
  /\ {playout, frontier, releaseFrontier} \subseteq Int
  /\ highest \in Sequence
  /\ current \in MinDelay .. MaxDelay

\* What is held lies after what was released.
HeldIsAhead ==
  /\ released => \A n \in held : n > highest
  /\ released => playout = End(highest)
  /\ \A n \in held : Timestamp(n) >= playout /\ End(n) <= frontier
  /\ held # {} => started

============================================================================
