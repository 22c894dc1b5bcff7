------------------------------ MODULE BargeIn ------------------------------
(***************************************************************************)
(* One voice session (packages/go/voice): the ingest goroutine hears the   *)
(* caller, opens turns and interrupts them, a goroutine per turn decides,  *)
(* generates and hands the floor back, its pump delivers the synthesised   *)
(* audio, and a hang-up or a fault stops it all at any moment.             *)
(*                                                                         *)
(* A step is one lock section, one transition of the session's state       *)
(* machine, or one call of a provider.  The three terminal states are one. *)
(***************************************************************************)
EXTENDS Naturals

CONSTANT MaxTurns                 \* bound: turns of one session

ASSUME TurnsAssumption == MaxTurns \in Nat \ {0}

Turns == 1 .. MaxTurns
NoTurn == 0

VARIABLES
  state, turn,     \* the state machine, and the turn it serves
  generation,      \* the generation of output that may be delivered
  stopper,         \* how far stop is; it has begun once it is not "none"
  over,            \* the session's context is cancelled
  ingest,          \* where the ingest goroutine is
  sttOpen,         \* the recogniser that audio goes to
  active,          \* what an interruption abandons: one turn for each part
  job              \* each turn's goroutine, what it has open, and its pump

vars == <<state, turn, generation, stopper, over, ingest, sttOpen, active, job>>

Untouched ==
  [at |-> "none", gen |-> 0, cancelled |-> FALSE, stt |-> FALSE, tts |-> FALSE,
   dispatcher |-> FALSE, pump |-> "none", spoke |-> FALSE]

Init ==
  /\ state = "created" /\ turn = NoTurn /\ generation = 0
  /\ stopper = "none" /\ over = FALSE /\ ingest = "none"
  /\ sttOpen = NoTurn
  /\ active = [cancel |-> NoTurn, tts |-> NoTurn, dispatcher |-> NoTurn]
  /\ job = [t \in Turns |-> Untouched]

----------------------------------------------------------------------------
\* sessionTransitions; any state that is not terminal may end.
Declared ==
  [ created           |-> {"listening", "ended"},
    listening         |-> {"speaking_detected", "ended"},
    speaking_detected |-> {"transcribing", "listening", "ended"},
    transcribing      |-> {"thinking", "listening", "ended"},
    thinking          |-> {"synthesizing", "listening", "ended"},
    synthesizing      |-> {"speaking", "listening", "interrupted", "ended"},
    speaking          |-> {"listening", "interrupted", "ended"},
    interrupted       |-> {"listening", "ended"},
    ended             |-> {} ]

\* SessionFSM.To: where the goroutine goes on, and where when it is refused.
Permitted(to) == to \in Declared[state]
To(to) == state' = IF Permitted(to) THEN to ELSE state

AgentHoldsFloor == state \in {"synthesizing", "speaking"}
Ending == stopper # "none" \/ over

\* A turn's context: its own end, its time-out, or the session's end.
Over(t) == over \/ job[t].cancelled

\* The floor lock is held where a section of it takes several steps.
FloorFree ==
  /\ ingest \notin {"abort", "interrupt", "return", "returned"}
  /\ \A t \in Turns : /\ job[t].at \notin {"read", "handback", "handed"}
                      /\ job[t].pump \notin {"speaking", "spoken"}

At(t, here) == job[t].at = here
\* runTurn's deferred cancel.
Done(t, j) ==
  [j EXCEPT ![t].at = "done", ![t].cancelled = TRUE, ![t].gen = 0]
Go(t, there) == job' = [job EXCEPT ![t].at = there]
Closed(t, j) == IF t = NoTurn THEN j ELSE [j EXCEPT ![t].stt = FALSE]

\* stop begins: the ending flag, the bump of the generation and the end of the
\* turn's context, which a turn can tell apart only in what it reports.
StopBegins ==
  /\ stopper' = "end" /\ generation' = generation + 1
  /\ job' = [t \in Turns |-> [job[t] EXCEPT !.cancelled = @ \/ active.cancel = t]]

----------------------------------------------------------------------------
(* The ingest goroutine *)

\* Refused when stop came first: the context just made is cancelled.
Start ==
  /\ ingest = "none" /\ To("listening")
  /\ ingest' = IF Permitted("listening") THEN "wait" ELSE "done"
  /\ over' = ~Permitted("listening")
  /\ UNCHANGED <<turn, generation, stopper, sttOpen, active, job>>

\* The context that Start was given is cancelled; nobody need call stop.
ContextEnds ==
  /\ ingest # "none" /\ ~over /\ over' = TRUE
  /\ job' = [t \in Turns |-> [job[t] EXCEPT !.cancelled = TRUE]]
  /\ UNCHANGED <<state, turn, generation, stopper, ingest, sttOpen, active>>

\* onFrame tells Analyze who holds the floor: before Analyze runs.  Frames still
\* queued when the session has ended change nothing.
Hear ==
  /\ ingest = "wait" /\ state # "ended"
  /\ ingest' = IF AgentHoldsFloor THEN "overheard" ELSE "analysed"
  /\ UNCHANGED <<state, turn, generation, stopper, over, sttOpen, active, job>>

\* take: the floor's lock, the check, and the generation first of all.
Interrupt ==
  /\ ingest = "overheard" /\ FloorFree /\ AgentHoldsFloor
  /\ ingest' = "abort" /\ generation' = generation + 1
  /\ UNCHANGED <<state, turn, stopper, over, sttOpen, active, job>>

\* No interruption, or one that the floor refuses.
Ignore ==
  /\ ingest = "overheard" /\ ingest' = "analysed"
  /\ UNCHANGED <<state, turn, generation, stopper, over, sttOpen, active, job>>

\* MUTANT of AbortActiveTurn: the turn's context is left alone.
AbortStreams ==
  /\ ingest = "abort" /\ ingest' = "interrupt"
  /\ active' = [cancel |-> NoTurn, tts |-> NoTurn, dispatcher |-> NoTurn]
  /\ job' = [t \in Turns |-> [job[t] EXCEPT
       !.dispatcher = @ /\ active.dispatcher # t,
       !.tts = @ /\ active.tts # t]]
  /\ UNCHANGED <<state, turn, generation, stopper, over, sttOpen>>

\* abortActiveTurn: the dispatcher, the synthesiser and the turn's context.
AbortActiveTurn ==
  /\ ingest = "abort" /\ ingest' = "interrupt"
  /\ active' = [cancel |-> NoTurn, tts |-> NoTurn, dispatcher |-> NoTurn]
  /\ job' = [t \in Turns |-> [job[t] EXCEPT
       !.dispatcher = @ /\ active.dispatcher # t,
       !.tts = @ /\ active.tts # t,
       !.cancelled = @ \/ active.cancel = t]]
  /\ UNCHANGED <<state, turn, generation, stopper, over, sttOpen>>

\* The two transitions of an interruption, and the lock's release once the event
\* of the second is published.
Interrupted ==
  /\ ingest = "interrupt" /\ To("interrupted")
  /\ ingest' = IF Permitted("interrupted") THEN "return" ELSE "analysed"
  /\ UNCHANGED <<turn, generation, stopper, over, sttOpen, active, job>>
Return ==
  /\ ingest = "return" /\ To("listening") /\ ingest' = "returned"
  /\ UNCHANGED <<turn, generation, stopper, over, sttOpen, active, job>>
LetGo ==
  /\ ingest = "returned" /\ ingest' = "analysed"
  /\ UNCHANGED <<state, turn, generation, stopper, over, sttOpen, active, job>>

\* An analysis, a choice of recogniser, its opening or its taking of a frame
\* that fails: the ingest goroutine stops the session, unless it is stopping.
Fails ==
  /\ ingest \in {"analysed", "onset", "open"} /\ ingest' = "failing"
  /\ IF stopper = "none" THEN StopBegins ELSE UNCHANGED <<stopper, generation, job>>
  /\ UNCHANGED <<state, turn, over, sttOpen, active>>

\* An onset while listening opens a turn.
Analysed ==
  /\ ingest = "analysed"
  /\ ingest' \in {"wait"} \cup IF state = "listening" /\ turn < MaxTurns THEN {"onset"} ELSE {}
  /\ UNCHANGED <<state, turn, generation, stopper, over, sttOpen, active, job>>

\* beginTurn: a refused transition is a race lost to stop.
BeginTurn ==
  /\ ingest = "onset" /\ turn' = turn + 1 /\ To("speaking_detected")
  /\ ingest' = IF Permitted("speaking_detected") THEN "open" ELSE "wait"
  /\ UNCHANGED <<generation, stopper, over, sttOpen, active, job>>
OpenSTT ==
  /\ ingest = "open" /\ ingest' = "opened"
  /\ sttOpen' = turn /\ job' = [job EXCEPT ![turn].stt = TRUE]
  /\ UNCHANGED <<state, turn, generation, stopper, over, active>>

Transcribe ==
  /\ ingest = "opened" /\ ingest' = "wait" /\ To("transcribing")
  /\ IF Permitted("transcribing")
     THEN Go(turn, "recognise") /\ UNCHANGED sttOpen
     ELSE job' = Closed(turn, job) /\ sttOpen' = IF sttOpen = turn THEN NoTurn ELSE sttOpen
  /\ UNCHANGED <<turn, generation, stopper, over, active>>

\* The session's context is cancelled, or ingest has stopped the session.
IngestEnds ==
  /\ \/ ingest = "wait" /\ over /\ sttOpen' = NoTurn /\ job' = Closed(sttOpen, job)
     \/ ingest = "failing" /\ stopper = "done" /\ UNCHANGED <<sttOpen, job>>
  /\ ingest' = "done"
  /\ UNCHANGED <<state, turn, generation, stopper, over, active>>

----------------------------------------------------------------------------
(* stop, which whoever comes first runs *)

Stop ==
  /\ stopper = "none" /\ StopBegins
  /\ UNCHANGED <<state, turn, over, ingest, sttOpen, active>>

\* The end of the session, the session's context and so every turn's, and the
\* recogniser.
StopStep ==
  \/ /\ stopper = "end" /\ stopper' = "cancel" /\ To("ended")
     /\ UNCHANGED <<over, sttOpen, job>>
  \/ /\ stopper = "cancel" /\ stopper' = "done" /\ over' = (ingest # "none")
     /\ job' = [t \in Turns |-> [Closed(sttOpen, job)[t] EXCEPT !.cancelled = @ \/ over']]
     /\ sttOpen' = NoTurn /\ UNCHANGED state

StopSteps == StopStep /\ UNCHANGED <<turn, generation, ingest, active>>

----------------------------------------------------------------------------
(* A turn's goroutine *)

\* emptyTurn and a turn with a transcript close whichever recogniser is open.
CloseRecognition(t, there) ==
  /\ job' = [Closed(sttOpen, job) EXCEPT ![t].at = there] /\ sttOpen' = NoTurn

\* recognize: the recogniser finishes with a transcript, with none, or the
\* session ends.
Recognised(t) ==
  /\ At(t, "recognise")
  /\ \/ \E there \in {"quit", "think"} : CloseRecognition(t, there)
     \/ over /\ job' = Done(t, Closed(t, job)) /\ UNCHANGED sttOpen
  /\ UNCHANGED <<state, turn, generation, stopper, over, ingest, active>>

Think(t) ==
  /\ At(t, "think") /\ To("thinking")
  /\ IF Permitted("thinking") THEN Go(t, "register") ELSE job' = Done(t, job)
  /\ UNCHANGED <<turn, generation, stopper, over, ingest, sttOpen, active>>

Register(t) ==
  /\ At(t, "register") /\ Go(t, "decide") /\ active' = [active EXCEPT !.cancel = t]
  /\ UNCHANGED <<state, turn, generation, stopper, over, ingest, sttOpen>>

\* The plan, the governor's decision and the choice of a voice: nothing to
\* say, or a refusal, a fault, or speech.
Decide(t) ==
  /\ At(t, "decide")
  /\ \/ CloseRecognition(t, "quit")
     \/ \E there \in {"leave", "quit", "floor"} : Go(t, there) /\ UNCHANGED sttOpen
  /\ UNCHANGED <<state, turn, generation, stopper, over, ingest, active>>

\* emptyTurn and failTurn leave the session to a stop that has begun ...
Quit(t) ==
  /\ At(t, "quit") /\ IF Ending THEN job' = Done(t, job) ELSE Go(t, "leave")
  /\ UNCHANGED <<state, turn, generation, stopper, over, ingest, sttOpen, active>>

\* ... and otherwise move it, no floor being held.
Leave(t) ==
  /\ At(t, "leave") /\ To("listening") /\ job' = Done(t, job)
  /\ UNCHANGED <<turn, generation, stopper, over, ingest, sttOpen, active>>

\* runTurn takes the floor, and reads the generation before it lets go.
TakeFloor(t) ==
  /\ At(t, "floor") /\ FloorFree /\ To("synthesizing")
  /\ IF Permitted("synthesizing") THEN Go(t, "read") ELSE job' = Done(t, job)
  /\ UNCHANGED <<turn, generation, stopper, over, ingest, sttOpen, active>>

ReadGeneration(t) ==
  /\ At(t, "read") /\ job' = [job EXCEPT ![t].at = "open", ![t].gen = generation]
  /\ UNCHANGED <<state, turn, generation, stopper, over, ingest, sttOpen, active>>

OpenTTS(t) ==
  /\ At(t, "open")
  /\ \/ job' = [job EXCEPT ![t].at = "voice", ![t].tts = TRUE]
     \/ Go(t, "failing")
  /\ UNCHANGED <<state, turn, generation, stopper, over, ingest, sttOpen, active>>

\* The voice is registered and its pump started; generation may not start.
Generate(t) ==
  /\ At(t, "voice") /\ active' = [active EXCEPT !.tts = t]
  /\ \/ job' = [job EXCEPT ![t].at = "store", ![t].pump = "wait", ![t].dispatcher = TRUE]
     \/ job' = [job EXCEPT ![t].at = "failed", ![t].pump = "wait", ![t].tts = FALSE]
  /\ UNCHANGED <<state, turn, generation, stopper, over, ingest, sttOpen>>

Store(t) ==
  /\ At(t, "store") /\ Go(t, "await") /\ active' = [active EXCEPT !.dispatcher = t]
  /\ UNCHANGED <<state, turn, generation, stopper, over, ingest, sttOpen>>

\* The dispatcher ends, or is aborted with the turn's context.
Await(t) ==
  /\ At(t, "await") /\ (~job[t].dispatcher \/ Over(t))
  /\ job' = [job EXCEPT ![t].at = "drain", ![t].dispatcher = FALSE]
  /\ UNCHANGED <<state, turn, generation, stopper, over, ingest, sttOpen, active>>

\* audioDone; completeTurn clears what is still its own.
Release(t) ==
  /\ job[t].at \in {"drain", "failed"} /\ job[t].pump = "none"
  /\ Go(t, "failing")
  /\ active' = IF At(t, "failed") THEN active
               ELSE [active EXCEPT !.tts = IF @ = t THEN NoTurn ELSE @,
                                   !.dispatcher = IF @ = t THEN NoTurn ELSE @]
  /\ UNCHANGED <<state, turn, generation, stopper, over, ingest, sttOpen>>

\* completeTurn and failSynthesis leave a session that ends to stop.
Conclude(t) ==
  /\ At(t, "failing") /\ IF Ending THEN job' = Done(t, job) ELSE Go(t, "yield")
  /\ UNCHANGED <<state, turn, generation, stopper, over, ingest, sttOpen, active>>

\* MUTANT of YieldFloor: a turn whose context ended is taken for interrupted.
YieldUnlessOver(t) ==
  /\ At(t, "yield") /\ FloorFree
  /\ IF job[t].gen # generation \/ Over(t) THEN job' = Done(t, job) ELSE Go(t, "handback")
  /\ UNCHANGED <<state, turn, generation, stopper, over, ingest, sttOpen, active>>

\* yieldFloor: an interrupted turn has no floor to hand back ...
YieldFloor(t) ==
  /\ At(t, "yield") /\ FloorFree
  /\ IF job[t].gen # generation THEN job' = Done(t, job) ELSE Go(t, "handback")
  /\ UNCHANGED <<state, turn, generation, stopper, over, ingest, sttOpen, active>>

\* ... and any other does, still under the lock, which it keeps while the event
\* is published.
HandBack(t) ==
  /\ At(t, "handback") /\ To("listening")
  /\ IF Permitted("listening") THEN Go(t, "handed") ELSE job' = Done(t, job)
  /\ UNCHANGED <<turn, generation, stopper, over, ingest, sttOpen, active>>
HandedBack(t) ==
  /\ At(t, "handed") /\ job' = Done(t, job)
  /\ UNCHANGED <<state, turn, generation, stopper, over, ingest, sttOpen, active>>

\* TurnTimeout, where it can be told, and the model's end.
TimeOut(t) ==
  /\ job[t].at \in {"open", "voice", "store", "await", "drain", "failed"}
  /\ ~job[t].cancelled /\ job' = [job EXCEPT ![t].cancelled = TRUE]
  /\ UNCHANGED <<state, turn, generation, stopper, over, ingest, sttOpen, active>>
GenerationEnds(t) ==
  /\ At(t, "await") /\ job[t].dispatcher /\ job' = [job EXCEPT ![t].dispatcher = FALSE]
  /\ UNCHANGED <<state, turn, generation, stopper, over, ingest, sttOpen, active>>

----------------------------------------------------------------------------
(* pumpAudio *)

\* Whether it has spoken is forgotten with the pump's loop.
PumpVars(t, there) == [job EXCEPT ![t].pump = there,
                                  ![t].tts = @ /\ there # "none",
                                  ![t].spoke = @ /\ there \notin {"closing", "none"}]
Pumps(t, there) ==
  /\ job' = PumpVars(t, there)
  /\ UNCHANGED <<turn, generation, stopper, over, ingest, sttOpen, active>>

\* The stream ends, or the turn's or the session's context does; the stream is
\* closed before the turn's goroutine hears of it.
PumpEnds(t) == job[t].pump = "wait" /\ Pumps(t, "closing") /\ UNCHANGED state
PumpCloses(t) == job[t].pump = "closing" /\ Pumps(t, "none") /\ UNCHANGED state

\* A frame of a superseded turn is withheld, and any other goes on.
Frame(t) ==
  /\ job[t].pump = "wait" /\ job[t].gen = generation /\ ~Over(t)
  /\ job' = [job EXCEPT ![t].pump = IF job[t].spoke THEN "hand" ELSE "speak", ![t].spoke = TRUE]
  /\ UNCHANGED <<state, turn, generation, stopper, over, ingest, sttOpen, active>>

\* startSpeaking, under the floor lock.
StartSpeaking(t) ==
  /\ job[t].pump = "speak" /\ FloorFree
  /\ Pumps(t, IF job[t].gen # generation \/ Over(t) THEN "wait" ELSE "speaking")
  /\ UNCHANGED state
Speaking(t) ==
  /\ job[t].pump = "speaking" /\ To("speaking")
  /\ Pumps(t, IF Permitted("speaking") THEN "spoken" ELSE "closing")
Spoken(t) == job[t].pump = "spoken" /\ Pumps(t, "hand") /\ UNCHANGED state

\* The sink takes the frame, refuses it, or fails; it refuses a frame whose
\* context has ended.
Deliver(t) ==
  /\ job[t].pump = "hand"
  /\ \/ ~Over(t) /\ Pumps(t, "wait")
     \/ Pumps(t, "closing")
  /\ UNCHANGED state

----------------------------------------------------------------------------
InterruptStep == AbortActiveTurn \/ Interrupted \/ Return \/ LetGo

IngestStep ==
  \/ Start \/ Hear \/ Interrupt \/ Ignore \/ InterruptStep \/ Analysed \/ Fails
  \/ BeginTurn \/ OpenSTT \/ Transcribe \/ IngestEnds

TurnStep(t) ==
  \/ Think(t) \/ Register(t) \/ Decide(t) \/ Quit(t) \/ Leave(t)
  \/ TakeFloor(t) \/ ReadGeneration(t) \/ OpenTTS(t) \/ Generate(t)
  \/ Store(t) \/ Await(t) \/ Release(t) \/ Conclude(t)
  \/ YieldFloor(t) \/ HandBack(t) \/ HandedBack(t)

PumpStep(t) ==
  \/ PumpEnds(t) \/ PumpCloses(t) \/ Frame(t)
  \/ StartSpeaking(t) \/ Speaking(t) \/ Spoken(t) \/ Deliver(t)

Next ==
  \/ IngestStep \/ ContextEnds \/ Stop \/ StopSteps
  \/ \E t \in Turns : \/ Recognised(t) \/ TurnStep(t) \/ TimeOut(t)
                      \/ GenerationEnds(t) \/ PumpStep(t)

Spec == Init /\ [][Next]_vars

\* Somebody else's code keeps a goroutine: the publication of an event, which
\* follows a transition and is awaited with the floor's lock when that is held ...
Publishing ==
  \/ ingest \in {"return", "returned"} \/ stopper = "cancel"
  \/ \E t \in Turns : job[t].at \in {"register", "read", "handed"} \/ job[t].pump = "spoken"

\* ... or a call that is given no context, or one that has ended: of the speech
\* controller, the planner, the synthesiser, the model and the sink.
Detained ==
  \/ ingest = "abort"
  \/ \E t \in Turns :
       \/ At(t, "decide") \/ job[t].pump = "closing"
       \/ Over(t) /\ (job[t].at \in {"open", "voice", "await"} \/ job[t].pump = "hand")

\* What the goroutines of a turn do by themselves.
GoesOn(t) ==
  \/ Think(t) \/ Quit(t) \/ Leave(t) \/ TakeFloor(t) \/ Store(t)
  \/ (~job[t].dispatcher /\ Await(t))
  \/ Release(t) \/ Conclude(t) \/ YieldFloor(t) \/ HandBack(t)
PumpGoesOn(t) == (Over(t) /\ PumpEnds(t)) \/ StartSpeaking(t) \/ Speaking(t)

\* Nothing is fair about a caller, a recogniser, a model, a voice, a sink, a
\* broker, or whoever may call stop.
FairSpec ==
  /\ Spec /\ WF_vars(Interrupted) /\ WF_vars(stopper = "end" /\ StopSteps)
  /\ \A t \in Turns : WF_vars(GoesOn(t)) /\ WF_vars(PumpGoesOn(t)) /\ WF_vars(TimeOut(t))

----------------------------------------------------------------------------
(* What is checked *)

Locations ==
  {"none", "recognise", "think", "register", "decide", "quit", "leave",
   "floor", "read", "open", "voice", "store", "await", "failed", "drain", "failing",
   "yield", "handback", "handed", "done"}
Pumping == {"none", "wait", "speak", "speaking", "spoken", "hand", "closing"}

TypeOK ==
  /\ state \in DOMAIN Declared /\ turn \in 0 .. MaxTurns /\ generation \in Nat
  /\ stopper \in {"none", "end", "cancel", "done"}
  /\ over \in BOOLEAN
  /\ ingest \in {"none", "wait", "overheard", "abort", "interrupt", "return", "returned",
                 "analysed",
                 "onset", "open", "opened", "failing", "done"}
  /\ sttOpen \in 0 .. MaxTurns
  /\ active \in [cancel : 0 .. MaxTurns, tts : 0 .. MaxTurns, dispatcher : 0 .. MaxTurns]
  /\ job \in [Turns -> [at : Locations, gen : Nat, cancelled : BOOLEAN,
                        stt : BOOLEAN, tts : BOOLEAN, dispatcher : BOOLEAN,
                        pump : Pumping, spoke : BOOLEAN]]

\* While the call lasts, whoever is about to move the session moves it from the
\* state, and for the turn, that it believes in: an interrupted turn never moves
\* the next one's session, and no transition is refused (Pipeline.floor).
MoversOwnTheSession ==
  state # "ended" =>
    /\ ingest = "interrupt" => AgentHoldsFloor
    /\ ingest = "return" => state = "interrupted"
    /\ ingest \in {"open", "opened"} => state = "speaking_detected"
    /\ \A t \in Turns :
         /\ job[t].at \in {"recognise", "think"} => turn = t /\ state = "transcribing"
         /\ job[t].at \in {"quit", "leave"} =>
              turn = t /\ state \in {"transcribing", "thinking"}
         /\ job[t].at \in {"register", "decide", "floor"} => turn = t /\ state = "thinking"
         /\ job[t].pump = "speaking" => turn = t /\ state = "synthesizing"
         /\ At(t, "handback") => turn = t /\ AgentHoldsFloor

\* A frame that the sink would still accept is of the turn that is speaking:
\* after an interruption has returned, nothing of the abandoned turn is heard
\* (pumpAudio's two guards).
AudioFollowsTheFloor ==
  \A t \in Turns :
    job[t].pump = "hand" /\ ~Over(t) =>
      turn = t /\ (state = "speaking" \/ (state = "ended" /\ stopper = "cancel"))

\* When every goroutine has finished, no recogniser, synthesiser or generation
\* of the call is left open (stop, closeRecognition, pumpAudio's deferred close).
NothingIsLeftOpen ==
  /\ ingest = "done" /\ stopper = "done"
  /\ \A t \in Turns : job[t].at \in {"none", "done"}
  => \A t \in Turns : ~job[t].stt /\ ~job[t].tts /\ ~job[t].dispatcher

VoiceInv == TypeOK /\ MoversOwnTheSession /\ AudioFollowsTheFloor /\ NothingIsLeftOpen

\* The caller is answered or gets the floor back: a turn that has a transcript
\* never leaves the session in the agent's hands, whatever the model and the
\* voice do before its time is up (TurnTimeout, completeTurn).  It is promised
\* where every publication returns, and so does every call whose context has
\* ended or that was given none, and where a session whose context is cancelled
\* is stopped as well: without any one of these three the turn may stay.
TurnsEnd ==
  []<>~Publishing /\ []<>~Detained /\ []<>(over => stopper # "none") =>
    (state \in {"thinking", "synthesizing", "speaking", "interrupted"}
       ~> state \in {"listening", "ended"})

----------------------------------------------------------------------------
(* What a comment says and the code does not do *)

\* "a frame in flight cannot overtake the teardown and reach the caller after
\* the session ended" (pipeline.go:583): a turn that takes the floor between
\* stop's bump and its end of the session reads the generation after the bump.
NothingIsHeardAfterTheEnd ==
  \A t \in Turns : state = "ended" => ~(job[t].pump = "hand" /\ ~Over(t))

============================================================================
