---------------------------- MODULE MediaStream ----------------------------
(***************************************************************************)
(* A media stream (packages/go/media): a producer offers frames, the       *)
(* runtime's pump loop and a reader that finds the ring empty move due     *)
(* frames from the jitter buffer into the output ring, filling gaps with   *)
(* silence, and the coordinator, the sweeper and a restart move the        *)
(* stream's state.                                                         *)
(*                                                                         *)
(* A step is one section under one lock: a push, a flush and the two pumps *)
(* interleave between taking a frame, reading what is expected, every      *)
(* write and the note of it.  A stream has one producer, one caller of     *)
(* Flush, and payloads of one length, in the ring's arena too.             *)
(***************************************************************************)
EXTENDS JitterBuffer, Sequences

CONSTANTS
  RingCapacity, FrameBytes, MaxFrameBytes,  \* BufferConfig, and one frame
  DropsOldest,                              \* the overflow policy
  MaxGapFill,                               \* in frames
  MaxFlushed,                               \* bound: frames a stream's flushes throw away
  None

ASSUME StreamAssumption ==
  /\ {RingCapacity, FrameBytes} \subseteq Nat \ {0}
  /\ MaxFrameBytes \in Nat /\ FrameBytes <= MaxFrameBytes
  /\ DropsOldest \in BOOLEAN /\ {MaxGapFill, MaxFlushed} \subseteq Nat
  /\ None \notin Sequence

Pumper == {"loop", "reader"}

VARIABLES
  state,          \* the stream's state machine
  producer,       \* how far a Write has come
  ring,           \* buffered frames: [seq, real, off]
  tail,           \* dataTail
  nextExpected, haveDelivered,
  pump,           \* each pump: where it is, its frame, silence still to write
  undelivered,    \* accepted - delivered - dropped, as the pipeline counts them
  flushing,       \* a Flush has still to empty the ring
  flushed,        \* history: frames thrown out of the jitter buffer by Flush
  crossed,        \* history: two pumps have had frames at the same time,
  last            \* and until then, the last real frame put in the ring

ringVars == <<ring, tail>>
countVars == <<undelivered, flushing, flushed>>
orderVars == <<nextExpected, haveDelivered, last, crossed>>
pipeVars == <<producer, ringVars, pump, countVars, orderVars>>
vars == <<jitterVars, state, pipeVars>>

Resting == [at |-> "rest", frame |-> None, from |-> 0, left |-> 0]

Init ==
  /\ JitterStart
  /\ state = "idle" /\ producer = "rest"
  /\ ring = <<>> /\ tail = 0
  /\ nextExpected = 0 /\ haveDelivered = FALSE
  /\ pump = [p \in Pumper |-> Resting]
  /\ undelivered = 0 /\ flushing = FALSE /\ flushed = 0
  /\ last = None /\ crossed = FALSE

----------------------------------------------------------------------------
(* The state machine *)

\* transitionSpec.
Declared ==
  [ idle       |-> {"opening", "closing", "failed"},
    opening    |-> {"active", "closing", "failed", "timeout"},
    active     |-> {"paused", "recovering", "closing", "failed", "timeout"},
    paused     |-> {"active", "closing", "failed", "timeout"},
    recovering |-> {"active", "closing", "failed", "timeout"},
    closing    |-> {"closed", "failed"},
    timeout    |-> {"recovering", "closing", "failed"},
    closed     |-> {},
    failed     |-> {} ]

DeliversFrames == state \in {"active", "paused", "closing"}

Transition(to) ==
  /\ to \in Declared[state] /\ state' = to
  /\ UNCHANGED <<jitterVars, pipeVars>>

\* Coordinator.Open, in two transitions; Pause, Resume, Drain.
Open == \/ state = "idle" /\ Transition("opening")
        \/ state = "opening" /\ Transition("active")
Pause == Transition("paused")
Resume == state # "opening" /\ Transition("active")
Drain == Transition("closing")

\* Sweep: a deadline of the state it saw; Paused and Closing have none.
Sweep == state \in {"opening", "active", "recovering"} /\ Transition("timeout")

\* A stream without its pipeline's contents.
Emptied(to) ==
  /\ state' = to
  /\ Renew
  /\ producer' = "rest" /\ ring' = <<>> /\ tail' = 0
  /\ nextExpected' = 0 /\ haveDelivered' = FALSE
  /\ pump' = [p \in Pumper |-> Resting]
  /\ undelivered' = 0 /\ flushing' = FALSE /\ flushed' = 0
  /\ last' = None /\ crossed' = FALSE

\* Close and Fail: the stream leaves the registry and what it buffered goes
\* with it, unreadable, for Read and the pumps refuse a concluded stream.
Conclude == \E to \in {"closed", "failed"} : to \in Declared[state] /\ Emptied(to)

\* The process ends and the stream is restored from a snapshot without audio.
Restart == state \notin {"closed", "failed"} /\ Emptied("recovering")

----------------------------------------------------------------------------
(* The producer *)

Advance(here, there) == producer = here /\ producer' = there

\* Write looks at the state ...
Write ==
  /\ state = "active" /\ Advance("rest", "begin")
  /\ UNCHANGED <<jitterVars, state, ringVars, pump, countVars, orderVars>>

\* ... and Push refuses a frame of another format or size, or of a far timestamp,
Refuse ==
  /\ Advance("begin", "rest")
  /\ UNCHANGED <<jitterVars, state, ringVars, pump, countVars, orderVars>>

\* or goes on with it.  The first frame starts the sequence; it is never far, so
\* that the pipeline has started exactly when its jitter buffer will have.
Begin(n) ==
  /\ Advance("begin", "put")
  /\ nextExpected' = IF started THEN nextExpected ELSE n
  /\ UNCHANGED <<jitterVars, state, ringVars, pump, countVars, haveDelivered, last, crossed>>

\* The jitter buffer takes the frame, any but the first only now told apart from
\* others, or drops it, which Push counts.
Offer(n) ==
  /\ ~started => n = nextExpected
  /\ Advance("put", IF Wanted(n) THEN "count" ELSE "rest") /\ Put(n)
  /\ UNCHANGED <<state, ringVars, pump, countVars, orderVars>>

\* It is counted as accepted, when a pump may already have delivered it.
Count ==
  /\ Advance("count", "rest")
  /\ undelivered' = undelivered + 1
  /\ UNCHANGED <<jitterVars, state, ringVars, pump, flushing, flushed, orderVars>>

----------------------------------------------------------------------------
(* The ring *)

Full == Len(ring) = RingCapacity
Size == RingCapacity * MaxFrameBytes

\* A frame that would straddle the end of the arena starts at its beginning.
Place == IF tail + FrameBytes > Size THEN 0 ELSE tail

\* RingBuffer.Write.
RingWrite(n, real) ==
  LET room == IF Full THEN Tail(ring) ELSE ring IN
  /\ ~Full \/ DropsOldest
  /\ ring' = Append(room, [seq |-> n, real |-> real, off |-> Place])
  /\ tail' = Place + FrameBytes

\* Read takes the head; with an empty ring the reader pumps and tries again.
Read ==
  /\ DeliversFrames /\ ring # <<>> /\ pump["reader"].at = "rest"
  /\ ring' = Tail(ring)
  /\ UNCHANGED <<jitterVars, state, producer, tail, pump, countVars, orderVars>>

----------------------------------------------------------------------------
(* Pipeline.Pump *)

At(p, here) == pump[p].at = here
Go(p, there) == pump' = [pump EXCEPT ![p].at = there]

\* MUTANT of Start: only active streams are pumped.
StartActive(p) ==
  /\ At(p, "rest") /\ state = "active" /\ (p = "reader" => ring = <<>>)
  /\ Go(p, "look")
  /\ UNCHANGED <<jitterVars, state, producer, ringVars, countVars, orderVars>>

\* PumpAll's Stream.Pump, or Read with nothing to read.
Start(p) ==
  /\ At(p, "rest") /\ DeliversFrames /\ (p = "reader" => ring = <<>>)
  /\ Go(p, "look")
  /\ UNCHANGED <<jitterVars, state, producer, ringVars, countVars, orderVars>>

\* A full ring ends the pump, unless it is one that makes room.
Look(p) ==
  /\ At(p, "look") /\ Go(p, IF Full /\ ~DropsOldest THEN "rest" ELSE "take")
  /\ UNCHANGED <<jitterVars, state, producer, ringVars, countVars, orderVars>>

Take(p) ==
  /\ At(p, "take")
  /\ \/ \E n \in held : Get(n) /\ pump' = [pump EXCEPT ![p].at = "gap", ![p].frame = n]
     \/ GetNothing /\ Go(p, "rest")
  /\ crossed' = (crossed \/ \E q \in Pumper \ {p} : pump[q].frame # None)
  /\ last' = IF crossed' THEN None ELSE last
  /\ UNCHANGED <<state, producer, ringVars, countVars, nextExpected, haveDelivered>>

\* MUTANT of Gap: silence begins with the frame delivered last.
GapFromLast(p) ==
  LET n == pump[p].frame
      missing == IF haveDelivered /\ n > nextExpected THEN n - nextExpected + 1 ELSE 0 IN
  /\ At(p, "gap")
  /\ pump' = [pump EXCEPT ![p] =
       [at |-> "write", frame |-> n, from |-> IF missing = 0 THEN 0 ELSE nextExpected - 1,
        left |-> IF missing > MaxGapFill THEN MaxGapFill ELSE missing]]
  /\ UNCHANGED <<jitterVars, state, producer, ringVars, countVars, orderVars>>

\* fillGaps: silence for what is missing before the frame, up to MaxGapFill.
Gap(p) ==
  LET n == pump[p].frame
      missing == IF haveDelivered /\ n > nextExpected THEN n - nextExpected ELSE 0 IN
  /\ At(p, "gap")
  /\ pump' = [pump EXCEPT ![p] =
       [at |-> "write", frame |-> n, from |-> IF missing = 0 THEN 0 ELSE nextExpected,
        left |-> IF missing > MaxGapFill THEN MaxGapFill ELSE missing]]
  /\ UNCHANGED <<jitterVars, state, producer, ringVars, countVars, orderVars>>

\* One frame of silence; the first that the ring refuses is the last.
Silence(p) ==
  /\ At(p, "write") /\ pump[p].left > 0
  /\ \/ RingWrite(pump[p].from, FALSE)
        /\ pump' = [pump EXCEPT ![p].from = IF pump[p].left = 1 THEN 0 ELSE @ + 1,
                                 ![p].left = @ - 1]
     \/ Full /\ ~DropsOldest /\ pump' = [pump EXCEPT ![p].from = 0, ![p].left = 0] /\ UNCHANGED <<ring, tail>>
  /\ UNCHANGED <<jitterVars, state, producer, countVars, orderVars>>

\* MUTANT of Deliver: a refused frame is not counted.
DeliverUncounted(p) ==
  /\ At(p, "write") /\ pump[p].left = 0
  /\ \/ /\ RingWrite(pump[p].frame, TRUE)
        /\ last' = IF crossed THEN None ELSE pump[p].frame
        /\ Go(p, "note") /\ UNCHANGED undelivered
     \/ /\ Full /\ ~DropsOldest /\ pump' = [pump EXCEPT ![p] = [Resting EXCEPT !.at = "look"]]
        /\ UNCHANGED <<undelivered, ring, tail, last>>
  /\ UNCHANGED <<jitterVars, state, producer, flushing, flushed, nextExpected,
                 haveDelivered, crossed>>

\* The frame itself: a full ring refuses it, and it is dropped and counted.
Deliver(p) ==
  /\ At(p, "write") /\ pump[p].left = 0
  /\ \/ /\ RingWrite(pump[p].frame, TRUE)
        /\ last' = IF crossed THEN None ELSE pump[p].frame
        /\ Go(p, "note") /\ UNCHANGED undelivered
     \/ /\ Full /\ ~DropsOldest /\ pump' = [pump EXCEPT ![p] = [Resting EXCEPT !.at = "look"]]
        /\ undelivered' = undelivered - 1 /\ UNCHANGED <<ring, tail, last>>
  /\ UNCHANGED <<jitterVars, state, producer, flushing, flushed, nextExpected,
                 haveDelivered, crossed>>

\* The sequence expected next.
Note(p) ==
  /\ At(p, "note") /\ pump' = [pump EXCEPT ![p] = [Resting EXCEPT !.at = "look"]]
  /\ haveDelivered' = TRUE /\ nextExpected' = pump[p].frame + 1
  /\ undelivered' = undelivered - 1
  /\ UNCHANGED <<jitterVars, state, producer, ringVars, flushing, flushed, last, crossed>>

----------------------------------------------------------------------------
(* Stream.Flush *)

\* What the jitter buffer holds goes, and no counter of the pipeline knows ...
FlushJitter ==
  /\ ~flushing /\ flushing' = TRUE
  /\ flushed + Cardinality(held) <= MaxFlushed
  /\ FlushHeld /\ flushed' = flushed + Cardinality(held)
  /\ UNCHANGED <<state, producer, ringVars, pump, undelivered, orderVars>>

\* ... and then what the ring does.
FlushRing ==
  /\ flushing /\ flushing' = FALSE
  /\ ring' = <<>> /\ tail' = 0
  /\ UNCHANGED <<jitterVars, state, producer, pump, undelivered, flushed, orderVars>>

----------------------------------------------------------------------------
PumpStep(p) ==
  \/ Look(p) \/ Take(p) \/ Gap(p) \/ Silence(p) \/ Deliver(p) \/ Note(p)

Lifecycle ==
  Open \/ Pause \/ Resume \/ Drain \/ Conclude \/ Sweep \/ Restart

Next ==
  \/ Lifecycle
  \/ Write \/ Refuse \/ Count \/ Read \/ FlushJitter \/ FlushRing
  \/ \E n \in Sequence : Begin(n) \/ Offer(n)
  \/ \E p \in Pumper : Start(p) \/ PumpStep(p)

Spec == Init /\ [][Next]_vars

\* The pump loop's ticker keeps ticking, a pump that started goes on, and the
\* consumer keeps reading.
FairSpec ==
  /\ Spec
  /\ WF_vars(Start("loop") \/ PumpStep("loop"))
  /\ WF_vars(PumpStep("reader") \/ Read)

----------------------------------------------------------------------------
(* What is checked *)

TypeOK ==
  /\ JitterTypeOK
  /\ state \in DOMAIN Declared
  /\ producer \in {"rest", "begin", "put", "count"}
  /\ ring \in Seq([seq : Sequence, real : BOOLEAN, off : Nat]) /\ Len(ring) <= RingCapacity
  /\ tail \in 0 .. Size /\ nextExpected \in Nat /\ haveDelivered \in BOOLEAN
  /\ pump \in [Pumper -> [at : {"rest", "look", "take", "gap", "write", "note"},
                          frame : Sequence \cup {None}, from : Nat, left : 0 .. MaxGapFill]]
  /\ undelivered \in Int /\ flushing \in BOOLEAN /\ flushed \in 0 .. MaxFlushed
  /\ last \in Sequence \cup {None} /\ crossed \in BOOLEAN

InHand == {p \in Pumper : pump[p].frame # None}

\* A frame the jitter buffer took and Push has still to count as accepted.
Uncounted == IF producer = "count" THEN 1 ELSE 0

\* Every frame that was accepted is held, in a pump's hands, delivered, counted
\* as dropped, or was thrown away by Flush, which the counters do not show
\* (Pipeline.Push, Pump, countDrop, Flush).
FramesAreAccounted ==
  undelivered + Uncounted = Cardinality(held) + Cardinality(InHand) + flushed

\* Frames of one length in the ring lie inside the arena, and no two of them
\* overlap (RingBuffer.Write).  Frames of several lengths may.
FramesAreIntact ==
  /\ \A i \in DOMAIN ring : ring[i].off + FrameBytes <= Size
  /\ \A i, j \in DOMAIN ring : i < j =>
       \/ ring[i].off + FrameBytes <= ring[j].off
       \/ ring[j].off + FrameBytes <= ring[i].off

MediaInv == TypeOK /\ HeldIsAhead /\ FramesAreAccounted /\ FramesAreIntact

\* No lost frame stalls a stream: once something was released, whatever is held
\* can be, through adaptation, overflow and flushes (Get, "The stall this
\* prevents").
ReleasedStreamsKeepMoving == released /\ held # {} => Releasable

\* The consumer gets audio in order, silence included, unless two pumps had
\* frames at once: what enters the ring follows the last real frame that did
\* (Stream.Snapshot, "release is strictly in playout order").
OutputInOrder ==
  [][\A n \in Sequence :
       ring' # ring /\ ring' # <<>> /\ ring'[Len(ring')].seq = n /\ tail' # tail
         => last = None \/ n > last]_vars

\* A full jitter buffer, which refuses everything, has room again while the
\* stream delivers and its consumer reads, once something was released: neither
\* a hole nor a full ring blocks it for ever.
BackpressureEnds ==
  released /\ Cardinality(held) = Capacity
    ~> Cardinality(held) < Capacity \/ ~DeliversFrames

----------------------------------------------------------------------------
(* What comments say and the code does not do *)

\* "One lost packet stalls the stream permanently ... So step over the hole"
\* (jitter.go:459): a full buffer, which refuses everything, releases.
FullBufferReleases == Cardinality(held) = Capacity => Releasable

\* "Each stage can drop, and every drop is counted under a bounded reason"
\* (pipeline.go:135): Flush counts none of what the jitter buffer held.
EveryDropIsCounted == undelivered + Uncounted = Cardinality(held) + Cardinality(InHand)

\* "BACKPRESSURE, NOT DESTRUCTION" (pipeline.go:277): the silence before a frame
\* can fill the ring that had room for the frame.
NothingIsRefusedByTheRing ==
  \A p \in Pumper : At(p, "write") /\ pump[p].left = 0 => ~Full \/ DropsOldest

\* "release is strictly in playout order" (stream.go:600), with two pumps.
OutputAlwaysInOrder ==
  \A i, j \in DOMAIN ring : i < j => ring[i].seq < ring[j].seq

============================================================================
