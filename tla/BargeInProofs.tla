---------------------------- MODULE BargeInProofs ---------------------------
(***************************************************************************)
(* For any number of turns: whoever is about to move the session of a call *)
(* that lasts owns it, no abandoned turn is heard, and nothing stays open. *)
(*                                                                         *)
(* What one goroutine may be in the middle of is a predicate over values,  *)
(* so that a step changes its arguments and nothing else.  VoiceIInv says  *)
(* what a turn believes of the session while the call lasts; AudioIInv,    *)
(* on top of it, what an interruption and the end of the call find.        *)
(***************************************************************************)
EXTENDS BargeIn, TLAPS

AgentStates == {"synthesizing", "speaking"}
Interrupting == {"abort", "interrupt", "return", "returned"}

\* Where a turn's pump may run, and where its generation may be the current one.
Voiced == {"store", "await", "failed", "drain"}
Holding == Voiced \cup {"open", "voice", "failing", "yield"}

\* What the ingest goroutine at i may believe of the state s.
IngestOK(s, i) ==
  /\ i = "none" => s = "created"
  /\ i \in {"abort", "interrupt"} => s \in AgentStates
  /\ i = "return" => s = "interrupted"
  /\ i \in {"returned", "onset"} => s = "listening"
  /\ i \in {"open", "opened"} => s = "speaking_detected"

\* What turn t, whose record is j, may believe of the state s, the session's
\* turn n, its generation g and its ingest goroutine at i: a turn that holds the
\* current generation has the floor, and nobody is interrupting it.
TurnOK(s, n, g, i, t, j) ==
  /\ t > n => j.at = "none"
  /\ s = "speaking_detected" /\ n = t => j.at = "none"
  /\ j.at \in {"recognise", "think"} => n = t /\ s = "transcribing"
  /\ j.at \in {"quit", "leave"} => n = t /\ s \in {"transcribing", "thinking"}
  /\ j.at \in {"register", "decide", "floor"} => n = t /\ s = "thinking"
  /\ j.at = "read" => n = t /\ s = "synthesizing" /\ i \notin Interrupting
  /\ j.at \in Holding /\ j.gen = g => n = t /\ s \in AgentStates /\ i \notin Interrupting
  /\ j.at = "handback" => n = t /\ s \in AgentStates /\ i \notin Interrupting
  /\ j.pump = "speaking" => n = t /\ s = "synthesizing" /\ i \notin Interrupting
  /\ j.pump # "none" => j.at \in Voiced
  /\ j.pump \in {"speak", "speaking", "spoken"} => j.spoke
  /\ s = "speaking" /\ n = t =>
       /\ j.at \in Voiced \cup {"failing", "yield", "handback", "done"}
       /\ j.pump \notin {"speak", "speaking"}
       /\ j.pump \notin {"none", "closing"} => j.spoke

\* A turn that is heard or answers knows a generation that has been.
GenerationsArePast == \A t \in Turns : job[t].gen <= generation

EverybodyAgrees ==
  state # "ended" =>
    /\ IngestOK(state, ingest)
    /\ \A t \in Turns : TurnOK(state, turn, generation, ingest, t, job[t])

\* A turn is only opened within the bound.
OnsetsFit == ingest = "onset" => turn < MaxTurns

VoiceIInv == TypeOK /\ OnsetsFit /\ GenerationsArePast /\ EverybodyAgrees

\* Where a turn has not yet let an interruption find it, serves its transcript,
\* and has taken the floor.
Fresh == {"none", "recognise", "think", "register"}
OnFloor == Holding \cup {"read", "handback"}
Serving == OnFloor \cup {"register", "decide", "floor"}

\* What a turn has open, with the recogniser o that audio goes to: each part has
\* a place of the turn's goroutine or a pump that will close it.
OpenOK(n, i, o, t, j) ==
  /\ j.stt => o = t /\ \/ j.at = "recognise" /\ i \notin {"onset", "open", "opened"}
                       \/ i = "opened" /\ n = t
  /\ j.tts => j.at = "voice" \/ j.pump # "none"
  /\ j.dispatcher => j.at \in {"store", "await"}
  /\ j.pump # "none" => j.at \in Voiced
  /\ j.spoke => j.pump \notin {"none", "closing"}

\* A turn that serves and whose context c lasts: an interruption would find it,
\* and what it puts into the sink's hands is heard in its own time.
LiveOK(s, n, g, i, c, t, j) ==
  /\ n = t /\ i \notin {"interrupt", "return", "returned", "onset"}
  /\ j.at # "register" => c = t
  /\ j.at \in {"register", "decide", "floor"} => i # "abort"
  /\ j.at \in OnFloor => s \in {"synthesizing", "speaking", "ended"}
  /\ j.pump \in {"spoken", "hand"} => s \in {"speaking", "ended"}
  /\ j.at \in Voiced /\ j.gen = g /\ j.spoke /\ j.pump \notin {"speak", "speaking"} =>
       s \in {"speaking", "ended"}

\* v tells whether the session's context is cancelled.
LifeOK(s, n, g, i, c, o, v, t, j) ==
  /\ OpenOK(n, i, o, t, j)
  /\ j.at \in Fresh => c # t /\ (j.cancelled => v)
  /\ j.at \in Serving /\ ~j.cancelled /\ ~v => LiveOK(s, n, g, i, c, t, j)

LivesAgree ==
  \A t \in Turns :
    LifeOK(state, turn, generation, ingest, active.cancel, sttOpen, over, t, job[t])

\* stop ends the session, and its context when there is one.
EndsAgree ==
  /\ state = "ended" <=> stopper \in {"cancel", "done"}
  /\ ingest = "none" => ~over /\ \A t \in Turns : job[t].at = "none"
  /\ stopper = "done" /\ ~over => ingest = "none"

AudioIInv == LivesAgree /\ EndsAgree

----------------------------------------------------------------------------
(* How what a turn believes survives the steps of others *)

Records == [at : Locations, gen : Nat, cancelled : BOOLEAN, stt : BOOLEAN, tts : BOOLEAN,
            dispatcher : BOOLEAN, pump : Pumping, spoke : BOOLEAN]

\* Only what it has open, or whether it is cancelled, is new.
Alike(j, k) == j.at = k.at /\ j.gen = k.gen /\ j.pump = k.pump /\ j.spoke = k.spoke

LEMMA AlikeKeeps ==
  ASSUME NEW s, NEW n, NEW g, NEW i, NEW t, NEW j, NEW k,
         TurnOK(s, n, g, i, t, j), Alike(j, k)
  PROVE  TurnOK(s, n, g, i, t, k)
BY DEF TurnOK, Alike

\* A turn that is not the session's believes nothing of the state.
LEMMA BystanderKeeps ==
  ASSUME NEW s, NEW r, NEW n, NEW g, NEW i, NEW h, NEW t, NEW j,
         TurnOK(s, n, g, i, t, j), n # t
  PROVE  TurnOK(r, n, g, h, t, j)
BY DEF TurnOK

\* No turn believes anything of a state before a transcript, or of an
\* interruption that has come so far.
LEMMA IdleKeeps ==
  ASSUME NEW s \in {"created", "listening", "speaking_detected", "interrupted"},
         NEW n \in Nat, NEW m \in Nat, NEW t \in Nat, m = n \/ m = n + 1,
         NEW r, r # "speaking", r = "speaking_detected" => m = n + 1,
         NEW g, NEW i, NEW h, NEW j, TurnOK(s, n, g, i, t, j)
  PROVE  TurnOK(r, m, g, h, t, j)
BY DEF TurnOK, AgentStates

LEMMA InterruptedKeeps ==
  ASSUME NEW s \in AgentStates, NEW i \in Interrupting, NEW n, NEW g, NEW h, NEW t, NEW j,
         TurnOK(s, n, g, i, t, j)
  PROVE  TurnOK("interrupted", n, g, h, t, j)
BY DEF TurnOK, AgentStates

\* Whoever starts an interruption leaves every turn's generation behind.
LEMMA ComingKeeps ==
  ASSUME NEW s, NEW n, NEW t, NEW g \in Nat, NEW f \in Nat, NEW i, NEW h,
         NEW j \in Records, j.gen <= g, TurnOK(s, n, g, i, t, j),
         f = g \/ f = g + 1,
         h \in Interrupting =>
           \/ i \in Interrupting
           \/ f = g + 1 /\ j.at \notin {"read", "handback"} /\ j.pump # "speaking"
  PROVE  TurnOK(s, n, f, h, t, j)
<1>1. j.gen \in Nat  BY DEF Records
<1>2. j.gen = f => f = g  BY <1>1
<1> QED  BY <1>2 DEF TurnOK

----------------------------------------------------------------------------
(* The three kinds of step *)

\* A step that leaves the state, the turn and what every turn is doing alone.
QuietStep ==
  /\ state' = state /\ turn' = turn
  /\ generation' = generation \/ generation' = generation + 1
  /\ state # "ended" => IngestOK(state, ingest')
  /\ ingest' \in Interrupting =>
       \/ ingest \in Interrupting
       \/ /\ generation' = generation + 1
          /\ \A t \in Turns : job[t].at \notin {"read", "handback"} /\ job[t].pump # "speaking"
  /\ \A t \in Turns : Alike(job[t], job'[t])

LEMMA QuietStepKeeps ==
  ASSUME VoiceIInv, QuietStep
  PROVE  GenerationsArePast' /\ EverybodyAgrees'
<1>1. /\ generation \in Nat /\ generation' \in Nat /\ generation <= generation'
      /\ \A t \in Turns : job[t] \in Records /\ job[t].gen \in Nat /\ job[t].gen <= generation
  BY DEF VoiceIInv, TypeOK, GenerationsArePast, QuietStep, Records
<1>2. GenerationsArePast'
  BY <1>1 DEF QuietStep, Alike, GenerationsArePast
<1>3. ASSUME state' # "ended", NEW t \in Turns
      PROVE  TurnOK(state', turn', generation', ingest', t, job'[t])
  <2>1. TurnOK(state, turn, generation, ingest, t, job[t])
    BY <1>3 DEF VoiceIInv, EverybodyAgrees, QuietStep
  <2>2. TurnOK(state, turn, generation', ingest', t, job[t])
    BY <1>1, <2>1, ComingKeeps DEF QuietStep
  <2> QED  BY <2>2, AlikeKeeps DEF QuietStep
<1> QED  BY <1>2, <1>3 DEF EverybodyAgrees, QuietStep

\* A step of one turn that leaves the state, the generation and ingest alone.
OwnStep(t) ==
  /\ state' = state /\ turn' = turn /\ generation' = generation /\ ingest' = ingest
  /\ \A u \in Turns \ {t} : Alike(job[u], job'[u])
  /\ job'[t].gen <= generation
  /\ state # "ended" => TurnOK(state, turn, generation, ingest, t, job'[t])

LEMMA OwnStepKeeps ==
  ASSUME VoiceIInv, NEW t \in Turns, OwnStep(t)
  PROVE  GenerationsArePast' /\ EverybodyAgrees'
<1>1. GenerationsArePast'
  BY DEF VoiceIInv, GenerationsArePast, OwnStep, Alike
<1>2. ASSUME state' # "ended", NEW u \in Turns
      PROVE  TurnOK(state', turn', generation', ingest', u, job'[u])
  <2>1. TurnOK(state, turn, generation, ingest, u, job[u])
    BY <1>2 DEF VoiceIInv, EverybodyAgrees, OwnStep
  <2>2. CASE u = t  BY <1>2, <2>2 DEF OwnStep
  <2>3. CASE u # t  BY <2>1, <2>3, AlikeKeeps DEF OwnStep
  <2> QED  BY <2>2, <2>3
<1> QED  BY <1>1, <1>2 DEF VoiceIInv, EverybodyAgrees, OwnStep

\* A step of the session's own turn that moves the state.
MoveStep(t) ==
  /\ turn' = turn /\ generation' = generation /\ ingest' = ingest
  /\ state' # "ended" => state # "ended" /\ turn = t /\ IngestOK(state', ingest)
  /\ \A u \in Turns \ {t} : Alike(job[u], job'[u])
  /\ job'[t].gen <= generation
  /\ state' # "ended" => TurnOK(state', turn, generation, ingest, t, job'[t])

LEMMA MoveStepKeeps ==
  ASSUME VoiceIInv, NEW t \in Turns, MoveStep(t)
  PROVE  GenerationsArePast' /\ EverybodyAgrees'
<1>1. GenerationsArePast'
  BY DEF VoiceIInv, GenerationsArePast, MoveStep, Alike
<1>2. ASSUME state' # "ended", NEW u \in Turns
      PROVE  TurnOK(state', turn', generation', ingest', u, job'[u])
  <2>1. TurnOK(state, turn, generation, ingest, u, job[u]) /\ turn = t
    BY <1>2 DEF VoiceIInv, EverybodyAgrees, MoveStep
  <2>2. CASE u = t  BY <1>2, <2>2 DEF MoveStep
  <2>3. CASE u # t
    <3>1. TurnOK(state', turn, generation, ingest, u, job[u])
      BY <2>1, <2>3, BystanderKeeps
    <3> QED  BY <2>3, <3>1, AlikeKeeps DEF MoveStep
  <2> QED  BY <2>2, <2>3
<1> QED  BY <1>1, <1>2 DEF EverybodyAgrees, MoveStep

----------------------------------------------------------------------------
(* Quiet steps *)

LEMMA Values ==
  ASSUME VoiceIInv
  PROVE  /\ generation \in Nat /\ turn \in Nat /\ turn \in 0 .. MaxTurns
         /\ state \in DOMAIN Declared
         /\ job \in [Turns -> Records] /\ \A t \in Turns : job[t].gen \in Nat /\ t \in Nat
BY TurnsAssumption DEF VoiceIInv, TypeOK, Records, Turns

LEMMA AlikeIsReflexive == ASSUME NEW j  PROVE Alike(j, j)
BY DEF Alike

LEMMA HearingIsQuiet ==
  ASSUME VoiceIInv, Hear \/ Ignore \/ Analysed \/ Interrupt \/ LetGo
  PROVE  QuietStep
<1> USE AlikeIsReflexive DEF QuietStep, VoiceIInv, EverybodyAgrees, IngestOK, Interrupting
<1>1. CASE Hear  BY <1>1 DEF Hear
<1>2. CASE Ignore  BY <1>2 DEF Ignore
<1>3. CASE Analysed  BY <1>3 DEF Analysed
<1>4. CASE Interrupt
  BY <1>4 DEF Interrupt, FloorFree, AgentHoldsFloor, AgentStates
<1>5. CASE LetGo  BY <1>5 DEF LetGo
<1> QED  BY <1>1, <1>2, <1>3, <1>4, <1>5

\* A record that changes only in what it has open or whether it is cancelled.
LEMMA StopBeginsAlike ==
  ASSUME VoiceIInv, StopBegins
  PROVE  generation' = generation + 1 /\ \A t \in Turns : Alike(job[t], job'[t])
BY Values DEF StopBegins, Alike, Records

LEMMA ClosedAlike ==
  ASSUME VoiceIInv, NEW u
  PROVE  \A t \in Turns : Alike(job[t], Closed(u, job)[t])
BY Values DEF Closed, Alike, Records

LEMMA ClosedTyped ==
  ASSUME NEW j \in [Turns -> Records], NEW u
  PROVE  Closed(u, j) \in [Turns -> Records]
<1>1. CASE u \in Turns
  <2>1. [j[u] EXCEPT !.stt = FALSE] \in Records  BY <1>1 DEF Records
  <2>2. [j EXCEPT ![u] = [j[u] EXCEPT !.stt = FALSE]] \in [Turns -> Records]  BY <1>1, <2>1
  <2> QED  BY <2>2 DEF Closed
<1>2. CASE u \notin Turns  BY <1>2 DEF Closed
<1> QED  BY <1>1, <1>2

LEMMA StoppingIsQuiet ==
  ASSUME VoiceIInv, Fails \/ Stop \/ ContextEnds \/ (StopSteps /\ stopper = "cancel")
  PROVE  QuietStep
<1> USE AlikeIsReflexive DEF QuietStep, VoiceIInv, EverybodyAgrees, IngestOK, Interrupting
<1>1. CASE Fails  BY <1>1, StopBeginsAlike DEF Fails
<1>2. CASE Stop  BY <1>2, StopBeginsAlike DEF Stop
<1>3. CASE StopSteps /\ stopper = "cancel"
  <2>1. \A t \in Turns : Alike(job[t], Closed(sttOpen, job)[t]) /\ Closed(sttOpen, job)[t] \in Records
    BY ClosedAlike, ClosedTyped, Values
  <2>2. \A t \in Turns : Alike(job[t], job'[t])
    BY <1>3, <2>1 DEF StopSteps, StopStep, Alike, Records
  <2> QED  BY <1>3, <2>2 DEF StopSteps, StopStep
<1>4. CASE ContextEnds
  <2>1. \A t \in Turns : Alike(job[t], job'[t])
    BY <1>4, Values DEF ContextEnds, Alike, Records
  <2> QED  BY <1>4, <2>1 DEF ContextEnds
<1> QED  BY <1>1, <1>2, <1>3, <1>4

LEMMA ClosingIsQuiet ==
  ASSUME VoiceIInv,
         \/ AbortActiveTurn \/ OpenSTT \/ IngestEnds
         \/ \E t \in Turns : TimeOut(t) \/ GenerationEnds(t)
  PROVE  QuietStep
<1> USE AlikeIsReflexive DEF QuietStep, VoiceIInv, EverybodyAgrees, IngestOK, Interrupting
<1>1. CASE AbortActiveTurn
  <2>1. ASSUME NEW t \in Turns  PROVE Alike(job[t], job'[t])
    <3>1. job[t] \in Records  BY Values
    <3> DEFINE d == job[t].dispatcher /\ active.dispatcher # t
               v == job[t].tts /\ active.tts # t
               o == job[t].cancelled \/ active.cancel = t
    <3>2. job'[t] = [job[t] EXCEPT !.dispatcher = d, !.tts = v, !.cancelled = o]
      BY <1>1, <3>1 DEF AbortActiveTurn
    <3> HIDE DEF d, v, o
    <3> QED  BY <3>1, <3>2 DEF Alike, Records
  <2> QED  BY <1>1, <2>1 DEF AbortActiveTurn
<1>2. CASE OpenSTT
  <2>1. \A t \in Turns : Alike(job[t], job'[t])
    BY <1>2, Values DEF OpenSTT, Alike, Records
  <2> QED  BY <1>2, <2>1 DEF OpenSTT
<1>3. CASE IngestEnds  BY <1>3, ClosedAlike DEF IngestEnds
<1>4. ASSUME NEW t \in Turns, TimeOut(t) \/ GenerationEnds(t)  PROVE QuietStep
  <2>1. \A u \in Turns : Alike(job[u], job'[u])
    BY <1>4, Values DEF TimeOut, GenerationEnds, Alike, Records
  <2> QED  BY <1>4, <2>1 DEF TimeOut, GenerationEnds
<1> QED  BY <1>1, <1>2, <1>3, <1>4

----------------------------------------------------------------------------
(* Steps of one turn *)

\* What is known of a turn while the call lasts.
LEMMA Believes ==
  ASSUME VoiceIInv, NEW t \in Turns
  PROVE  /\ job[t] \in Records /\ job[t].gen <= generation /\ 0 <= generation
         /\ state # "ended" => TurnOK(state, turn, generation, ingest, t, job[t])
         /\ state # "ended" => IngestOK(state, ingest)
BY Values DEF VoiceIInv, EverybodyAgrees, GenerationsArePast

LEMMA SettingUpIsOwn ==
  ASSUME VoiceIInv, NEW t \in Turns,
         Register(t) \/ Quit(t) \/ ReadGeneration(t) \/ OpenTTS(t) \/ Generate(t) \/ Store(t)
  PROVE  OwnStep(t)
<1> USE Values, Believes, AlikeIsReflexive
    DEF OwnStep, At, Go, Done, TurnOK, Holding, Voiced, AgentStates, Interrupting, Records
<1>1. CASE Register(t)  BY <1>1 DEF Register
<1>2. CASE Quit(t)  BY <1>2 DEF Quit
<1>3. CASE ReadGeneration(t)  BY <1>3 DEF ReadGeneration
<1>4. CASE OpenTTS(t)  BY <1>4 DEF OpenTTS
<1>5. CASE Generate(t)  BY <1>5 DEF Generate
<1>6. CASE Store(t)  BY <1>6 DEF Store
<1> QED  BY <1>1, <1>2, <1>3, <1>4, <1>5, <1>6

LEMMA FinishingIsOwn ==
  ASSUME VoiceIInv, NEW t \in Turns,
         Await(t) \/ Release(t) \/ Conclude(t) \/ YieldFloor(t) \/ HandedBack(t)
  PROVE  OwnStep(t)
<1> USE Values, Believes, AlikeIsReflexive
    DEF OwnStep, At, Go, Done, TurnOK, Holding, Voiced, AgentStates, Interrupting, Records
<1>1. CASE Await(t)  BY <1>1 DEF Await
<1>2. CASE Release(t)  BY <1>2 DEF Release
<1>3. CASE Conclude(t)  BY <1>3 DEF Conclude
<1>4. CASE YieldFloor(t)  BY <1>4 DEF YieldFloor
<1>5. CASE HandedBack(t)  BY <1>5 DEF HandedBack
<1> QED  BY <1>1, <1>2, <1>3, <1>4, <1>5

LEMMA RecognisingIsOwn ==
  ASSUME VoiceIInv, NEW t \in Turns, Recognised(t) \/ Decide(t)
  PROVE  OwnStep(t)
<1> DEFINE k == Closed(sttOpen, job)
           c == Closed(t, job)
<1>1. /\ \A u \in Turns : Alike(job[u], k[u]) /\ Alike(job[u], c[u])
      /\ k \in [Turns -> Records] /\ c \in [Turns -> Records]
  BY ClosedAlike, ClosedTyped, Values
<1> HIDE DEF k, c
<1> USE Values, Believes, AlikeIsReflexive
    DEF OwnStep, At, Go, Done, TurnOK, Holding, Voiced, AgentStates, Interrupting, Records, Alike
<1>2. ASSUME NEW there \in {"quit", "think"}, At(t, "recognise") \/ (At(t, "decide") /\ there = "quit"),
             CloseRecognition(t, there),
             UNCHANGED <<state, turn, generation, ingest>>
      PROVE  OwnStep(t)
  BY <1>1, <1>2 DEF CloseRecognition, k
<1>3. CASE Recognised(t)
  <2>1. CASE job' = Done(t, c)  BY <1>1, <1>3, <2>1 DEF Recognised
  <2>2. ASSUME NEW there \in {"quit", "think"}, CloseRecognition(t, there)  PROVE OwnStep(t)
    <3>1. At(t, "recognise") /\ UNCHANGED <<state, turn, generation, ingest>>  BY <1>3 DEF Recognised
    <3> QED  BY ONLY <1>2, <2>2, <3>1
  <2>3. job' = Done(t, c) \/ \E there \in {"quit", "think"} : CloseRecognition(t, there)
    BY ONLY <1>3 DEF Recognised, c
  <2> QED  BY ONLY <2>1, <2>2, <2>3
<1>4. CASE Decide(t)
  <2>1. CASE \E there \in {"leave", "quit", "floor"} : Go(t, there) /\ UNCHANGED sttOpen
    BY <1>4, <2>1 DEF Decide
  <2> QED  BY <1>2, <1>4, <2>1 DEF Decide
<1> QED  BY <1>3, <1>4

LEMMA PumpingIsOwn ==
  ASSUME VoiceIInv, NEW t \in Turns,
         \/ PumpEnds(t) \/ PumpCloses(t) \/ Frame(t) \/ StartSpeaking(t) \/ Spoken(t)
         \/ Deliver(t)
  PROVE  OwnStep(t)
<1> USE Values, Believes, AlikeIsReflexive
    DEF OwnStep, Pumps, PumpVars, TurnOK, Holding, Voiced, AgentStates, Interrupting, Records
<1>1. CASE PumpEnds(t)  BY <1>1 DEF PumpEnds
<1>2. CASE Frame(t)  BY <1>2 DEF Frame
<1>3. CASE StartSpeaking(t)  BY <1>3 DEF StartSpeaking
<1>4. CASE Deliver(t)  BY <1>4 DEF Deliver
<1>5. CASE PumpCloses(t)  BY <1>5 DEF PumpCloses
<1>6. CASE Spoken(t)  BY <1>6 DEF Spoken
<1> QED  BY <1>1, <1>2, <1>3, <1>4, <1>5, <1>6

----------------------------------------------------------------------------
(* Steps that move the state *)

LEMMA TurnsMove ==
  ASSUME VoiceIInv, NEW t \in Turns,
         Think(t) \/ Leave(t) \/ TakeFloor(t) \/ HandBack(t) \/ Speaking(t)
  PROVE  MoveStep(t)
<1> USE Values, Believes, AlikeIsReflexive
    DEF MoveStep, At, Go, Done, To, Permitted, Declared, TurnOK, IngestOK, Holding, Voiced,
        AgentStates, Interrupting, Records
<1>1. CASE Think(t)  BY <1>1 DEF Think
<1>2. CASE Leave(t)  BY <1>2 DEF Leave
<1>3. CASE TakeFloor(t)  BY <1>3 DEF TakeFloor, FloorFree
<1>4. CASE HandBack(t)  BY <1>4 DEF HandBack
<1>5. CASE Speaking(t)  BY <1>5 DEF Speaking, Pumps, PumpVars
<1> QED  BY <1>1, <1>2, <1>3, <1>4, <1>5

\* The end of the call; nothing is left to agree on.
LEMMA EndKeeps ==
  ASSUME VoiceIInv, StopSteps /\ stopper = "end"
  PROVE  GenerationsArePast' /\ EverybodyAgrees'
<1>1. state' = "ended" /\ generation' = generation /\ job' = job
  BY Values DEF StopSteps, StopStep, To, Permitted, Declared
<1> QED  BY <1>1 DEF VoiceIInv, GenerationsArePast, EverybodyAgrees

\* A session that has ended has ended.
LEMMA EndIsFinal ==
  ASSUME state = "ended", NEW to, To(to)
  PROVE  state' = "ended"
BY DEF To, Permitted, Declared

LEMMA IngestMoves ==
  ASSUME VoiceIInv, Start \/ Interrupted \/ Return \/ BeginTurn
  PROVE  GenerationsArePast' /\ EverybodyAgrees'
<1>1. generation' = generation /\ job' = job
  BY DEF Start, Interrupted, Return, BeginTurn
<1>2. GenerationsArePast'  BY <1>1 DEF VoiceIInv, GenerationsArePast
<1>3. CASE state = "ended"
  <2>1. state' = "ended"
    BY <1>3, EndIsFinal DEF Start, Interrupted, Return, BeginTurn
  <2> QED  BY <1>2, <2>1 DEF EverybodyAgrees
<1>4. CASE state # "ended"
  <2>0. /\ generation \in Nat /\ turn \in Nat /\ \A t \in Turns : t \in Nat
        /\ IngestOK(state, ingest)
        /\ \A t \in Turns : TurnOK(state, turn, generation, ingest, t, job[t])
    BY <1>4, Values DEF VoiceIInv, EverybodyAgrees
  <2>1. CASE Start
    <3>1. state = "created" /\ state' = "listening" /\ ingest' = "wait" /\ turn' = turn
      BY <2>0, <2>1 DEF Start, To, Permitted, Declared, IngestOK
    <3>2. IngestOK(state', ingest')  BY <3>1 DEF IngestOK
    <3>3. \A t \in Turns : TurnOK(state', turn', generation', ingest', t, job'[t])
      BY <1>1, <2>0, <3>1, IdleKeeps
    <3> QED  BY <1>2, <3>2, <3>3 DEF EverybodyAgrees
  <2>2. CASE Interrupted
    <3>1. state \in AgentStates /\ state' = "interrupted" /\ ingest' = "return" /\ turn' = turn
      BY <2>0, <2>2 DEF Interrupted, To, Permitted, Declared, IngestOK, AgentStates
    <3>2. IngestOK(state', ingest')  BY <3>1 DEF IngestOK
    <3>3. ingest \in Interrupting  BY <2>2 DEF Interrupted, Interrupting
    <3>4. \A t \in Turns : TurnOK(state', turn', generation', ingest', t, job'[t])
      BY <1>1, <2>0, <3>1, <3>3, InterruptedKeeps
    <3> QED  BY <1>2, <3>2, <3>4 DEF EverybodyAgrees
  <2>3. CASE Return
    <3>1. state = "interrupted" /\ state' = "listening" /\ ingest' = "returned" /\ turn' = turn
      BY <2>0, <2>3 DEF Return, To, Permitted, Declared, IngestOK
    <3>2. IngestOK(state', ingest')  BY <3>1 DEF IngestOK
    <3>3. \A t \in Turns : TurnOK(state', turn', generation', ingest', t, job'[t])
      BY <1>1, <2>0, <3>1, IdleKeeps
    <3> QED  BY <1>2, <3>2, <3>3 DEF EverybodyAgrees
  <2>4. CASE BeginTurn
    <3>1. /\ state = "listening" /\ state' = "speaking_detected" /\ ingest' = "open"
          /\ turn' = turn + 1 /\ turn' \in Nat
      BY <2>0, <2>4 DEF BeginTurn, To, Permitted, Declared, IngestOK
    <3>2. IngestOK(state', ingest')  BY <3>1 DEF IngestOK
    <3>3. \A t \in Turns : TurnOK(state', turn', generation', ingest', t, job'[t])
      BY <1>1, <2>0, <3>1, IdleKeeps
    <3> QED  BY <1>2, <3>2, <3>3 DEF EverybodyAgrees
  <2> QED  BY <2>1, <2>2, <2>3, <2>4
<1> QED  BY <1>3, <1>4

\* The recogniser's goroutine is the first thing a new turn has.
LEMMA TranscribeKeeps ==
  ASSUME VoiceIInv, Transcribe
  PROVE  GenerationsArePast' /\ EverybodyAgrees'
<1>1. CASE state = "ended"
  <2>1. state' = "ended" /\ generation' = generation /\ job' = Closed(turn, job)
    BY <1>1 DEF Transcribe, To, Permitted, Declared
  <2>2. \A t \in Turns : Alike(job[t], job'[t])  BY <2>1, ClosedAlike
  <2> QED  BY <2>1, <2>2 DEF VoiceIInv, GenerationsArePast, EverybodyAgrees, Alike
<1>2. CASE state # "ended"
  <2>1. /\ IngestOK(state, ingest)
        /\ \A t \in Turns : TurnOK(state, turn, generation, ingest, t, job[t])
    BY <1>2 DEF VoiceIInv, EverybodyAgrees
  <2>2. /\ state = "speaking_detected" /\ state' = "transcribing" /\ ingest' = "wait"
        /\ turn' = turn /\ generation' = generation
        /\ job' = [job EXCEPT ![turn].at = "recognise"]
    BY <2>1 DEF Transcribe, To, Permitted, Declared, IngestOK, Go
  <2>3. IngestOK(state', ingest')  BY <2>2 DEF IngestOK
  <2>4. ASSUME NEW t \in Turns
        PROVE  /\ TurnOK(state', turn', generation', ingest', t, job'[t])
               /\ job'[t].gen = job[t].gen
    <3>1. TurnOK(state, turn, generation, ingest, t, job[t]) /\ job \in [Turns -> Records]
      BY <2>1, Values
    <3>2. CASE t = turn
      <4>1. job'[t] = [job[t] EXCEPT !.at = "recognise"]  BY <2>2, <3>1, <3>2
      <4>2. job[t].at = "none" /\ job[t].pump = "none"
        BY <2>2, <3>1, <3>2 DEF TurnOK, Voiced
      <4>3. /\ job'[t].at = "recognise" /\ job'[t].pump = "none"
            /\ job'[t].gen = job[t].gen
        BY <3>1, <4>1, <4>2 DEF Records
      <4> QED  BY <2>2, <3>2, <4>3, Values DEF TurnOK, Holding, Voiced
    <3>3. CASE t # turn
      <4>1. job'[t] = job[t]  BY <2>2, <3>1, <3>3
      <4> QED  BY <2>2, <3>1, <3>3, <4>1, BystanderKeeps
    <3> QED  BY <3>2, <3>3
  <2> QED  BY <2>2, <2>3, <2>4 DEF VoiceIInv, GenerationsArePast, EverybodyAgrees
<1> QED  BY <1>1, <1>2

----------------------------------------------------------------------------
(* Types *)

IngestTyped ==
  /\ state' \in DOMAIN Declared /\ turn' \in 0 .. MaxTurns /\ generation' \in Nat
  /\ stopper' \in {"none", "end", "cancel", "done"}
  /\ over' \in BOOLEAN
  /\ ingest' \in {"none", "wait", "overheard", "abort", "interrupt", "return", "returned",
                 "analysed",
                 "onset", "open", "opened", "failing", "done"}
  /\ sttOpen' \in 0 .. MaxTurns
  /\ active' \in [cancel : 0 .. MaxTurns, tts : 0 .. MaxTurns, dispatcher : 0 .. MaxTurns]

LEMMA ToTyped ==
  ASSUME VoiceIInv, NEW to \in DOMAIN Declared, To(to)
  PROVE  state' \in DOMAIN Declared
BY Values DEF To

LEMMA IngestStepTyped ==
  ASSUME VoiceIInv, IngestStep \/ ContextEnds \/ Stop \/ StopSteps
  PROVE  IngestTyped /\ OnsetsFit'
<1> USE ToTyped, TurnsAssumption DEF IngestTyped, OnsetsFit, VoiceIInv, TypeOK, Declared
<1>1. CASE Start  BY <1>1 DEF Start
<1>2. CASE Hear  BY <1>2 DEF Hear
<1>3. CASE Interrupt  BY <1>3 DEF Interrupt
<1>4. CASE Ignore  BY <1>4 DEF Ignore
<1>5. CASE AbortActiveTurn
  <2>1. 0 \in 0 .. MaxTurns  OBVIOUS
  <2>2. active' = [cancel |-> 0, tts |-> 0, dispatcher |-> 0]  BY <1>5 DEF AbortActiveTurn, NoTurn
  <2>3. active' \in [cancel : 0 .. MaxTurns, tts : 0 .. MaxTurns, dispatcher : 0 .. MaxTurns]
    BY ONLY <2>1, <2>2
  <2>4. /\ ingest' = "interrupt"
        /\ UNCHANGED <<state, turn, generation, stopper, over, sttOpen>>
    BY <1>5 DEF AbortActiveTurn
  <2> QED  BY <2>3, <2>4
<1>6. CASE Interrupted  BY <1>6 DEF Interrupted
<1>7. CASE Return  BY <1>7 DEF Return
<1>8. CASE Analysed  BY <1>8 DEF Analysed
<1>9. CASE Fails  BY <1>9 DEF Fails, StopBegins
<1>10. CASE BeginTurn  BY <1>10 DEF BeginTurn
<1>11. CASE OpenSTT  BY <1>11 DEF OpenSTT
<1>12. CASE Transcribe  BY <1>12 DEF Transcribe, NoTurn
<1>13. CASE IngestEnds  BY <1>13 DEF IngestEnds, NoTurn
<1>14. CASE Stop  BY <1>14 DEF Stop, StopBegins
<1>15. CASE StopSteps
  <2>1. UNCHANGED <<turn, generation, ingest, active>>  BY <1>15 DEF StopSteps
  <2>2. over' \in BOOLEAN  BY <1>15 DEF StopSteps, StopStep
  <2>3. stopper' \in {"cancel", "done"} /\ sttOpen' \in 0 .. MaxTurns
    BY <1>15 DEF StopSteps, StopStep, NoTurn
  <2>4. state' \in DOMAIN Declared  BY <1>15 DEF StopSteps, StopStep
  <2> QED  BY <2>1, <2>2, <2>3, <2>4
<1>16. CASE ContextEnds  BY <1>16 DEF ContextEnds
<1>17. CASE LetGo  BY <1>17 DEF LetGo
<1> QED
  BY <1>1, <1>2, <1>3, <1>4, <1>5, <1>6, <1>7, <1>8, <1>9, <1>10, <1>11, <1>12, <1>13, <1>14,
     <1>15, <1>16, <1>17 DEF IngestStep, InterruptStep

TurnNext(t) ==
  Recognised(t) \/ TurnStep(t) \/ TimeOut(t) \/ GenerationEnds(t) \/ PumpStep(t)

LEMMA TurnStepTyped ==
  ASSUME VoiceIInv, NEW t \in Turns, TurnNext(t)
  PROVE  IngestTyped /\ OnsetsFit'
<1> USE ToTyped, TurnsAssumption
    DEF IngestTyped, OnsetsFit, VoiceIInv, TypeOK, Declared, Turns, CloseRecognition, NoTurn
<1>1. CASE Recognised(t)  BY <1>1 DEF Recognised
<1>2. CASE Think(t)  BY <1>2 DEF Think
<1>3. CASE Register(t)  BY <1>3 DEF Register
<1>4. CASE Decide(t)  BY <1>4 DEF Decide
<1>5. CASE Quit(t)  BY <1>5 DEF Quit
<1>6. CASE Leave(t)  BY <1>6 DEF Leave
<1>7. CASE TakeFloor(t)  BY <1>7 DEF TakeFloor
<1>8. CASE ReadGeneration(t) \/ OpenTTS(t) \/ Await(t) \/ Conclude(t) \/ YieldFloor(t)
  BY <1>8 DEF ReadGeneration, OpenTTS, Await, Conclude, YieldFloor
<1>9. CASE Generate(t)
  <2>1. /\ UNCHANGED <<state, turn, generation, stopper, over, ingest, sttOpen>>
        /\ active' = [active EXCEPT !.tts = t]
    BY <1>9 DEF Generate
  <2> QED  BY <2>1
<1>10. CASE Store(t)  BY <1>10 DEF Store
<1>11. CASE Release(t)
  <2>1. UNCHANGED <<state, turn, generation, stopper, over, ingest, sttOpen>>
    BY <1>11 DEF Release
  <2>2. 0 \in 0 .. MaxTurns  OBVIOUS
  <2>3. active' \in [cancel : 0 .. MaxTurns, tts : 0 .. MaxTurns, dispatcher : 0 .. MaxTurns]
    <3>1. CASE active' = active  BY <3>1
    <3>2. CASE active' = [active EXCEPT !.tts = IF @ = t THEN 0 ELSE @,
                                        !.dispatcher = IF @ = t THEN 0 ELSE @]
      BY <2>2, <3>2
    <3> QED  BY <1>11, <3>1, <3>2 DEF Release
  <2> QED  BY <2>1, <2>3
<1>12. CASE HandBack(t) \/ HandedBack(t)  BY <1>12 DEF HandBack, HandedBack
<1>13. CASE TimeOut(t) \/ GenerationEnds(t)  BY <1>13 DEF TimeOut, GenerationEnds
<1>14. CASE \/ PumpEnds(t) \/ PumpCloses(t) \/ Frame(t) \/ StartSpeaking(t) \/ Spoken(t)
            \/ Deliver(t)
  BY <1>14 DEF PumpEnds, PumpCloses, Frame, StartSpeaking, Spoken, Deliver, Pumps
<1>15. CASE Speaking(t)  BY <1>15 DEF Speaking, Pumps
<1> QED
  BY <1>1, <1>2, <1>3, <1>4, <1>5, <1>6, <1>7, <1>8, <1>9, <1>10, <1>11, <1>12, <1>13, <1>14,
     <1>15 DEF TurnNext, TurnStep, PumpStep

\* A turn's record replaced.
LEMMA Replaced ==
  ASSUME NEW j \in [Turns -> Records], NEW t \in Turns, NEW r \in Records
  PROVE  [j EXCEPT ![t] = r] \in [Turns -> Records]
OBVIOUS

LEMMA DoneTyped ==
  ASSUME NEW j \in [Turns -> Records], NEW t \in Turns
  PROVE  Done(t, j) \in [Turns -> Records]
<1> DEFINE r == [j[t] EXCEPT !.at = "done", !.cancelled = TRUE, !.gen = 0]
<1>1. r \in Records  BY DEF Records, Locations
<1>2. Done(t, j) = [j EXCEPT ![t] = r]  BY DEF Done
<1> QED  BY <1>1, <1>2, Replaced

LEMMA PumpVarsTyped ==
  ASSUME NEW t \in Turns, job \in [Turns -> Records],
         NEW there \in Pumping
  PROVE  PumpVars(t, there) \in [Turns -> Records]
<1> DEFINE b == job[t].tts /\ there # "none"
           c == job[t].spoke /\ there \notin {"closing", "none"}
           r == [job[t] EXCEPT !.pump = there, !.tts = b, !.spoke = c]
<1>1. b \in BOOLEAN /\ c \in BOOLEAN  OBVIOUS
<1>2. PumpVars(t, there) = [job EXCEPT ![t] = r]  BY DEF PumpVars
<1> HIDE DEF b, c
<1>3. r \in Records  BY <1>1 DEF Records
<1> QED  BY <1>2, <1>3, Replaced

\* The records stay records.
LEMMA TurnRecords ==
  ASSUME VoiceIInv, NEW t \in Turns, TurnNext(t)
  PROVE  job' \in [Turns -> Records]
<1>0. job \in [Turns -> Records] /\ job[t] \in Records /\ generation \in Nat  BY Values
<1>1. Done(t, job) \in [Turns -> Records]  BY <1>0, DoneTyped
<1>2. \A there \in Locations : [job EXCEPT ![t].at = there] \in [Turns -> Records]
  BY <1>0 DEF Records
<1>3. CASE Think(t) \/ Leave(t) \/ TakeFloor(t) \/ HandBack(t) \/ HandedBack(t)
  BY <1>1, <1>2, <1>3 DEF Think, Leave, TakeFloor, HandBack, HandedBack, Go, Locations
<1>4. CASE Register(t) \/ Quit(t) \/ Conclude(t) \/ YieldFloor(t) \/ Store(t) \/ Release(t)
  BY <1>1, <1>2, <1>4 DEF Register, Quit, Conclude, YieldFloor, Store, Release, Go, Locations
<1>5. CASE ReadGeneration(t)
  <2> DEFINE r == [job[t] EXCEPT !.at = "open", !.gen = generation]
  <2>1. r \in Records  BY <1>0 DEF Records, Locations
  <2>2. job' = [job EXCEPT ![t] = r]  BY <1>5 DEF ReadGeneration
  <2> QED  BY <1>0, <2>1, <2>2, Replaced
<1>6. CASE OpenTTS(t)
  <2> DEFINE r == [job[t] EXCEPT !.at = "voice", !.tts = TRUE]
  <2>1. r \in Records  BY <1>0 DEF Records, Locations
  <2>2. job' = [job EXCEPT ![t] = r] \/ Go(t, "failing")  BY <1>6 DEF OpenTTS
  <2>3. [job EXCEPT ![t] = r] \in [Turns -> Records]  BY <1>0, <2>1, Replaced
  <2> HIDE DEF r
  <2>4. "failing" \in Locations  BY DEF Locations
  <2> QED  BY <1>2, <2>2, <2>3, <2>4 DEF Go
<1>7. CASE Generate(t)
  <2> DEFINE r == [job[t] EXCEPT !.at = "store", !.pump = "wait", !.dispatcher = TRUE]
             q == [job[t] EXCEPT !.at = "failed", !.pump = "wait", !.tts = FALSE]
  <2>1. r \in Records /\ q \in Records  BY <1>0 DEF Records, Locations, Pumping
  <2>2. job' = [job EXCEPT ![t] = r] \/ job' = [job EXCEPT ![t] = q]  BY <1>7 DEF Generate
  <2> QED  BY <1>0, <2>1, <2>2, Replaced
<1>8. CASE Await(t)
  <2> DEFINE r == [job[t] EXCEPT !.at = "drain", !.dispatcher = FALSE]
  <2>1. r \in Records  BY <1>0 DEF Records, Locations
  <2>2. job' = [job EXCEPT ![t] = r]  BY <1>8 DEF Await
  <2> QED  BY <1>0, <2>1, <2>2, Replaced
<1>9. CASE TimeOut(t) \/ GenerationEnds(t)
  <2> DEFINE r == [job[t] EXCEPT !.cancelled = TRUE]
             q == [job[t] EXCEPT !.dispatcher = FALSE]
  <2>1. r \in Records /\ q \in Records  BY <1>0 DEF Records
  <2>2. job' = [job EXCEPT ![t] = r] \/ job' = [job EXCEPT ![t] = q]
    BY <1>9 DEF TimeOut, GenerationEnds
  <2> QED  BY <1>0, <2>1, <2>2, Replaced
<1>10. CASE \/ PumpEnds(t) \/ PumpCloses(t) \/ StartSpeaking(t) \/ Speaking(t) \/ Spoken(t)
            \/ Deliver(t)
  <2>1. PICK there \in Pumping : job' = PumpVars(t, there)
    BY <1>10 DEF PumpEnds, PumpCloses, StartSpeaking, Speaking, Spoken, Deliver, Pumps, Pumping
  <2> QED  BY <1>0, <2>1, PumpVarsTyped
<1>11. CASE Frame(t)
  <2> DEFINE r == [job[t] EXCEPT !.pump = "hand", !.spoke = TRUE]
             q == [job[t] EXCEPT !.pump = "speak", !.spoke = TRUE]
  <2>1. r \in Records /\ q \in Records  BY <1>0 DEF Records, Pumping
  <2>2. job' = [job EXCEPT ![t] = r] \/ job' = [job EXCEPT ![t] = q]
    BY <1>0, <1>11 DEF Frame
  <2> QED  BY <1>0, <2>1, <2>2, Replaced
<1>12. CASE Recognised(t) \/ Decide(t)
  <2> DEFINE k == Closed(sttOpen, job)
             c == Closed(t, job)
  <2>1. k \in [Turns -> Records] /\ c \in [Turns -> Records]  BY <1>0, ClosedTyped
  <2> HIDE DEF k, c
  <2>2. \/ \E there \in Locations : job' = [k EXCEPT ![t].at = there]
        \/ job' = Done(t, c)
        \/ \E there \in Locations : job' = [job EXCEPT ![t].at = there]
    BY <1>12 DEF Recognised, Decide, CloseRecognition, Go, Locations, k, c
  <2>3. \A there \in Locations : [k EXCEPT ![t].at = there] \in [Turns -> Records]
    BY <2>1 DEF Records
  <2> QED  BY <1>2, <2>1, <2>2, <2>3, DoneTyped
<1> QED
  BY <1>3, <1>4, <1>5, <1>6, <1>7, <1>8, <1>9, <1>10, <1>11, <1>12 DEF TurnNext, TurnStep, PumpStep

LEMMA IngestRecords ==
  ASSUME VoiceIInv, IngestStep \/ ContextEnds \/ Stop \/ StopSteps
  PROVE  job' \in [Turns -> Records]
<1>0. job \in [Turns -> Records]  BY Values
<1>1. ASSUME NEW j \in [Turns -> Records], NEW f \in [Turns -> BOOLEAN],
             job' = [t \in Turns |-> [j[t] EXCEPT !.cancelled = f[t]]]
      PROVE  job' \in [Turns -> Records]
  BY <1>1 DEF Records
<1>2. ASSUME StopBegins  PROVE job' \in [Turns -> Records]
  <2> DEFINE f == [t \in Turns |-> job[t].cancelled \/ active.cancel = t]
  <2>1. f \in [Turns -> BOOLEAN]  OBVIOUS
  <2>2. job' = [t \in Turns |-> [job[t] EXCEPT !.cancelled = f[t]]]  BY <1>2 DEF StopBegins
  <2> HIDE DEF f
  <2> QED  BY <1>0, <1>1, <2>1, <2>2
<1>3. CASE AbortActiveTurn
  <2> DEFINE d == [t \in Turns |-> job[t].dispatcher /\ active.dispatcher # t]
             v == [t \in Turns |-> job[t].tts /\ active.tts # t]
             o == [t \in Turns |-> job[t].cancelled \/ active.cancel = t]
  <2>1. d \in [Turns -> BOOLEAN] /\ v \in [Turns -> BOOLEAN] /\ o \in [Turns -> BOOLEAN]
    OBVIOUS
  <2>2. job' = [t \in Turns |-> [job[t] EXCEPT !.dispatcher = d[t], !.tts = v[t],
                                                !.cancelled = o[t]]]
    BY <1>3 DEF AbortActiveTurn
  <2> HIDE DEF d, v, o
  <2> QED  BY <1>0, <2>1, <2>2 DEF Records
<1>4. CASE OpenSTT
  <2>1. \A b \in BOOLEAN : [job EXCEPT ![turn].stt = b] \in [Turns -> Records]
    BY <1>0 DEF Records
  <2> QED  BY <1>4, <2>1 DEF OpenSTT
<1>5. CASE Transcribe \/ IngestEnds
  <2>1. \A u : Closed(u, job) \in [Turns -> Records]  BY <1>0, ClosedTyped
  <2>2. [job EXCEPT ![turn].at = "recognise"] \in [Turns -> Records]
    BY <1>0 DEF Records, Locations
  <2> QED  BY <1>0, <1>5, <2>1, <2>2 DEF Transcribe, IngestEnds, Go
<1>6. CASE StopSteps
  <2> DEFINE k == Closed(sttOpen, job)
             f == [t \in Turns |-> k[t].cancelled \/ over']
  <2>1. k \in [Turns -> Records] /\ f \in [Turns -> BOOLEAN]  BY <1>0, ClosedTyped
  <2>2. job' = job \/ job' = [t \in Turns |-> [k[t] EXCEPT !.cancelled = f[t]]]
    BY <1>6 DEF StopSteps, StopStep
  <2> HIDE DEF k, f
  <2> QED  BY <1>0, <1>1, <2>1, <2>2
<1>7. CASE ContextEnds  BY <1>0, <1>7 DEF ContextEnds, Records
<1> QED
  BY <1>0, <1>2, <1>3, <1>4, <1>5, <1>6, <1>7 DEF IngestStep, InterruptStep, Start, Hear,
     Interrupt, Ignore, Interrupted, Return, LetGo, Analysed, Fails, BeginTurn, Stop

----------------------------------------------------------------------------
(* The goroutines agree at first, and after every step *)

LEMMA VoiceInit ==
  ASSUME Init  PROVE VoiceIInv
<1>1. \A t \in Turns : t \in Nat /\ t > 0  BY TurnsAssumption DEF Turns
<1>2. Untouched \in Records  BY DEF Untouched, Records, Locations, Pumping
<1>3. TypeOK
  <2>1. 0 \in 0 .. MaxTurns  BY TurnsAssumption
  <2>2. job \in [Turns -> Records]  BY <1>2 DEF Init
  <2>3. active \in [cancel : 0 .. MaxTurns, tts : 0 .. MaxTurns, dispatcher : 0 .. MaxTurns]
    BY <2>1 DEF Init, NoTurn
  <2> QED  BY <2>1, <2>2, <2>3 DEF Init, TypeOK, Declared, NoTurn, Records
<1>4. GenerationsArePast /\ OnsetsFit
  BY <1>2 DEF Init, GenerationsArePast, OnsetsFit, Untouched
<1>5. IngestOK(state, ingest)  BY DEF Init, IngestOK
<1>6. \A t \in Turns : TurnOK(state, turn, generation, ingest, t, job[t])
  BY DEF Init, TurnOK, Untouched, Holding, Voiced
<1> QED  BY <1>3, <1>4, <1>5, <1>6 DEF VoiceIInv, EverybodyAgrees

LEMMA VoiceStep ==
  ASSUME VoiceIInv, [Next]_vars  PROVE VoiceIInv'
<1>1. CASE IngestStep \/ ContextEnds \/ Stop \/ StopSteps
  <2>1. TypeOK' /\ OnsetsFit'
    BY <1>1, IngestStepTyped, IngestRecords DEF IngestTyped, TypeOK, Records
  <2>2. GenerationsArePast' /\ EverybodyAgrees'
    <3>1. CASE Hear \/ Ignore \/ Analysed \/ Interrupt \/ LetGo
      BY <3>1, HearingIsQuiet, QuietStepKeeps
    <3>2. CASE Fails \/ Stop \/ ContextEnds \/ (StopSteps /\ stopper = "cancel")
      BY <3>2, StoppingIsQuiet, QuietStepKeeps
    <3>3. CASE AbortActiveTurn \/ OpenSTT \/ IngestEnds
      BY <3>3, ClosingIsQuiet, QuietStepKeeps
    <3>4. CASE StopSteps /\ stopper = "end"  BY <3>4, EndKeeps
    <3>5. CASE Start \/ Interrupted \/ Return \/ BeginTurn  BY <3>5, IngestMoves
    <3>6. CASE Transcribe  BY <3>6, TranscribeKeeps
    <3>7. StopSteps => stopper \in {"end", "cancel"}  BY DEF StopSteps, StopStep
    <3> QED  BY <1>1, <3>1, <3>2, <3>3, <3>4, <3>5, <3>6, <3>7 DEF IngestStep, InterruptStep
  <2> QED  BY <2>1, <2>2 DEF VoiceIInv
<1>2. ASSUME NEW t \in Turns, TurnNext(t)  PROVE VoiceIInv'
  <2>1. TypeOK' /\ OnsetsFit'
    BY <1>2, TurnStepTyped, TurnRecords DEF IngestTyped, TypeOK, Records
  <2>2. GenerationsArePast' /\ EverybodyAgrees'
    <3>1. CASE Register(t) \/ Quit(t) \/ ReadGeneration(t) \/ OpenTTS(t) \/ Generate(t) \/ Store(t)
      BY <3>1, SettingUpIsOwn, OwnStepKeeps
    <3>2. CASE Await(t) \/ Release(t) \/ Conclude(t) \/ YieldFloor(t) \/ HandedBack(t)
      BY <3>2, FinishingIsOwn, OwnStepKeeps
    <3>3. CASE Recognised(t) \/ Decide(t)  BY <3>3, RecognisingIsOwn, OwnStepKeeps
    <3>4. CASE \/ PumpEnds(t) \/ PumpCloses(t) \/ Frame(t) \/ StartSpeaking(t) \/ Spoken(t)
               \/ Deliver(t)
      BY <3>4, PumpingIsOwn, OwnStepKeeps
    <3>5. CASE TimeOut(t) \/ GenerationEnds(t)  BY <3>5, ClosingIsQuiet, QuietStepKeeps
    <3>6. CASE Think(t) \/ Leave(t) \/ TakeFloor(t) \/ HandBack(t) \/ Speaking(t)
      BY <3>6, TurnsMove, MoveStepKeeps
    <3> QED  BY <1>2, <3>1, <3>2, <3>3, <3>4, <3>5, <3>6 DEF TurnNext, TurnStep, PumpStep
  <2> QED  BY <2>1, <2>2 DEF VoiceIInv
<1>3. CASE UNCHANGED vars
  BY <1>3 DEF vars, VoiceIInv, TypeOK, OnsetsFit, GenerationsArePast, EverybodyAgrees
<1> QED  BY <1>1, <1>2, <1>3 DEF Next, TurnNext

----------------------------------------------------------------------------
(* What a turn has open, and what is heard of it *)

\* Another's step may close what a turn has open.
Lesser(j, k) ==
  /\ k.at = j.at /\ k.gen = j.gen /\ k.pump = j.pump /\ k.spoke = j.spoke
  /\ k.cancelled = j.cancelled
  /\ k.stt => j.stt
  /\ k.tts => j.tts
  /\ k.dispatcher => j.dispatcher

LEMMA OthersLife ==
  ASSUME NEW s, NEW r, NEW n, NEW g, NEW i, NEW c, NEW d, NEW o, NEW p, NEW v, NEW t,
         NEW j, NEW k, LifeOK(s, n, g, i, c, o, v, t, j), Lesser(j, k), k.stt => p = o,
         r = s \/ n # t \/ v, d = c \/ (d # t /\ (n # t \/ v))
  PROVE  LifeOK(r, n, g, i, d, p, v, t, k)
BY DEF LifeOK, OpenOK, LiveOK, Lesser

\* A step of one turn.
TurnsLife(t) ==
  /\ turn' = turn /\ generation' = generation /\ ingest' = ingest
  /\ stopper' = stopper /\ over' = over
  /\ job[t].at # "none" /\ job'[t].at # "none"
  /\ state' = "ended" <=> state = "ended"
  /\ state' = state \/ turn = t
  /\ active'.cancel = active.cancel \/ (active'.cancel = t /\ (turn = t \/ over))
  /\ \A u \in Turns \ {t} : Lesser(job[u], job'[u]) /\ (job'[u].stt => sttOpen' = sttOpen)
  /\ LifeOK(state', turn, generation, ingest, active'.cancel, sttOpen', over, t, job'[t])

LEMMA TurnsLifeKeeps ==
  ASSUME AudioIInv, NEW t \in Turns, TurnsLife(t)
  PROVE  AudioIInv'
<1>1. ASSUME NEW u \in Turns
      PROVE  LifeOK(state', turn', generation', ingest', active'.cancel, sttOpen', over', u, job'[u])
  <2>1. CASE u = t  BY <2>1 DEF TurnsLife
  <2>2. CASE u # t
    <3>1. LifeOK(state, turn, generation, ingest, active.cancel, sttOpen, over, u, job[u])
      BY DEF AudioIInv, LivesAgree
    <3>2. /\ Lesser(job[u], job'[u]) /\ (job'[u].stt => sttOpen' = sttOpen)
          /\ state' = state \/ turn # u
          /\ active'.cancel = active.cancel \/ (active'.cancel # u /\ (turn # u \/ over))
          /\ turn' = turn /\ generation' = generation /\ ingest' = ingest /\ over' = over
      BY <2>2 DEF TurnsLife
    <3> QED  BY <3>1, <3>2, OthersLife
  <2> QED  BY <2>1, <2>2
<1>2. EndsAgree'
  <2>1. ingest # "none" /\ ~(stopper = "done" /\ ~over)
    BY DEF AudioIInv, EndsAgree, TurnsLife
  <2> QED  BY <2>1 DEF AudioIInv, EndsAgree, TurnsLife
<1> QED  BY <1>1, <1>2 DEF AudioIInv, LivesAgree

\* What is known of a turn, whether the call lasts or not.
LEMMA Lives ==
  ASSUME VoiceIInv, AudioIInv, NEW t \in Turns
  PROVE  /\ job[t] \in Records /\ t # 0
         /\ LifeOK(state, turn, generation, ingest, active.cancel, sttOpen, over, t, job[t])
         /\ state # "ended" => TurnOK(state, turn, generation, ingest, t, job[t])
         /\ state # "ended" => IngestOK(state, ingest)
BY Believes, TurnsAssumption DEF AudioIInv, LivesAgree, Turns

LEMMA LesserIsReflexive == ASSUME NEW j  PROVE Lesser(j, j)
BY DEF Lesser

\* Closing the recogniser that is open leaves none.
LEMMA NoneRecognises ==
  ASSUME VoiceIInv, AudioIInv
  PROVE  \A t \in Turns : Lesser(job[t], Closed(sttOpen, job)[t]) /\ ~Closed(sttOpen, job)[t].stt
<1> TAKE t \in Turns
<1>1. job \in [Turns -> Records] /\ job[t] \in Records  BY Values
<1>2. job[t].stt => sttOpen = t /\ t # 0  BY Lives DEF LifeOK, OpenOK
<1>3. CASE sttOpen = t  BY <1>1, <1>2, <1>3, Lives DEF Closed, Lesser, NoTurn, Records
<1>4. CASE sttOpen # t
  <2>1. Closed(sttOpen, job)[t] = job[t]  BY <1>1, <1>4 DEF Closed
  <2>2. ~job[t].stt  BY <1>2, <1>4
  <2> QED  BY <2>1, <2>2, LesserIsReflexive
<1> QED  BY <1>3, <1>4

LEMMA AudioOfSteps ==
  ASSUME VoiceIInv, AudioIInv, NEW t \in Turns,
         \/ Register(t) \/ Quit(t) \/ ReadGeneration(t) \/ OpenTTS(t) \/ Generate(t) \/ Store(t)
         \/ Await(t) \/ Release(t) \/ Conclude(t) \/ YieldFloor(t) \/ HandedBack(t)
  PROVE  TurnsLife(t)
<1> USE Values, Lives, LesserIsReflexive
    DEF TurnsLife, At, Go, Done, LifeOK, OpenOK, LiveOK, TurnOK, OnFloor, Serving, Fresh, Holding,
        Voiced, AgentStates, Records
<1>1. CASE Register(t)  BY <1>1 DEF Register
<1>2. CASE Quit(t)  BY <1>2 DEF Quit
<1>3. CASE ReadGeneration(t)  BY <1>3 DEF ReadGeneration
<1>4. CASE OpenTTS(t)  BY <1>4 DEF OpenTTS
<1>5. CASE Generate(t)  BY <1>5 DEF Generate
<1>6. CASE Store(t)  BY <1>6 DEF Store
<1>7. CASE Await(t)  BY <1>7 DEF Await
<1>8. CASE Release(t)  BY <1>8 DEF Release
<1>9. CASE Conclude(t)  BY <1>9 DEF Conclude
<1>10. CASE YieldFloor(t)  BY <1>10 DEF YieldFloor
<1>11. CASE HandedBack(t)  BY <1>11 DEF HandedBack
<1> QED  BY <1>1, <1>2, <1>3, <1>4, <1>5, <1>6, <1>7, <1>8, <1>9, <1>10, <1>11

LEMMA AudioOfPumps ==
  ASSUME VoiceIInv, AudioIInv, NEW t \in Turns,
         \/ PumpEnds(t) \/ PumpCloses(t) \/ Frame(t) \/ StartSpeaking(t) \/ Spoken(t)
         \/ Deliver(t)
  PROVE  TurnsLife(t)
<1> USE Values, Lives, LesserIsReflexive
    DEF TurnsLife, Over, Pumps, PumpVars, LifeOK, OpenOK, LiveOK, TurnOK, OnFloor, Serving, Fresh,
        Holding, Voiced, AgentStates, Records
<1>1. CASE PumpEnds(t)  BY <1>1 DEF PumpEnds
<1>2. CASE Frame(t)  BY <1>2 DEF Frame
<1>3. CASE StartSpeaking(t)  BY <1>3 DEF StartSpeaking
<1>4. CASE Deliver(t)  BY <1>4 DEF Deliver
<1>5. CASE PumpCloses(t)  BY <1>5 DEF PumpCloses
<1>6. CASE Spoken(t)  BY <1>6 DEF Spoken
<1> QED  BY <1>1, <1>2, <1>3, <1>4, <1>5, <1>6

LEMMA AudioOfMoves ==
  ASSUME VoiceIInv, AudioIInv, NEW t \in Turns,
         Think(t) \/ Leave(t) \/ TakeFloor(t) \/ HandBack(t) \/ Speaking(t)
  PROVE  TurnsLife(t)
<1> USE Values, Lives, LesserIsReflexive
    DEF TurnsLife, At, Go, Done, To, Permitted, Declared, LifeOK, OpenOK, LiveOK, TurnOK, IngestOK,
        OnFloor, Serving, Fresh, Holding, Voiced, AgentStates, Interrupting, Records
<1>1. CASE Think(t)
  <2>1. /\ UNCHANGED <<turn, generation, stopper, over, ingest, sttOpen, active>>
        /\ job[t].at = "think"
    BY <1>1 DEF Think
  <2>2. CASE Permitted("thinking")
    <3>1. state = "transcribing" /\ state' = "thinking"  BY <1>1, <2>2 DEF Think
    <3>2. job' = [job EXCEPT ![t].at = "register"]  BY <1>1, <2>2 DEF Think
    <3> QED  BY <2>1, <3>1, <3>2
  <2>3. CASE ~Permitted("thinking")
    <3>1. state' = state /\ job' = Done(t, job)  BY <1>1, <2>3 DEF Think
    <3> QED  BY <2>1, <3>1
  <2> QED  BY <2>2, <2>3
<1>2. CASE Leave(t)  BY <1>2 DEF Leave
<1>3. CASE TakeFloor(t)  BY <1>3 DEF TakeFloor, FloorFree
<1>4. CASE HandBack(t)  BY <1>4 DEF HandBack
<1>5. CASE Speaking(t)  BY <1>5 DEF Speaking, Pumps, PumpVars
<1> QED  BY <1>1, <1>2, <1>3, <1>4, <1>5

LEMMA AudioOfEnds ==
  ASSUME VoiceIInv, AudioIInv, NEW t \in Turns, TimeOut(t) \/ GenerationEnds(t)
  PROVE  TurnsLife(t)
<1> USE Values, Lives, LesserIsReflexive
    DEF TurnsLife, LifeOK, OpenOK, LiveOK, OnFloor, Serving, Fresh, Holding, Voiced, Records
<1>1. CASE TimeOut(t)  BY <1>1 DEF TimeOut
<1>2. CASE GenerationEnds(t)  BY <1>2 DEF GenerationEnds
<1> QED  BY <1>1, <1>2

LEMMA AudioOfDecisions ==
  ASSUME VoiceIInv, AudioIInv, NEW t \in Turns, Recognised(t) \/ Decide(t)
  PROVE  TurnsLife(t)
<1> DEFINE k == Closed(sttOpen, job)
           c == Closed(t, job)
<1>1. /\ k \in [Turns -> Records] /\ c \in [Turns -> Records]
      /\ \A u \in Turns : Lesser(job[u], k[u]) /\ ~k[u].stt
  BY Values, ClosedTyped, NoneRecognises
<1>2. /\ \A u \in Turns \ {t} : c[u] = job[u]
      /\ Lesser(job[t], c[t]) /\ ~c[t].stt
  BY Values, Lives DEF Closed, NoTurn, Lesser, Records
<1> HIDE DEF k, c
<1>3. ASSUME NEW there,
             \/ At(t, "recognise") /\ there \in {"quit", "think"}
             \/ At(t, "decide") /\ there = "quit",
             job' = [k EXCEPT ![t].at = there],
             UNCHANGED <<state, turn, generation, stopper, over, ingest, active>>
      PROVE  TurnsLife(t)
  <2>1. \A u \in Turns \ {t} : Lesser(job[u], job'[u]) /\ ~job'[u].stt
    BY <1>1, <1>3
  <2>2. job'[t] = [k[t] EXCEPT !.at = there] /\ k[t] \in Records  BY <1>1, <1>3
  <2>3. Lesser(job[t], k[t]) /\ ~k[t].stt  BY <1>1
  <2> QED
    BY <1>3, <2>1, <2>2, <2>3, Lives DEF TurnsLife, Lesser, At, LifeOK, OpenOK, LiveOK, OnFloor,
       Serving, Fresh, Holding, Voiced, Records
<1>4. ASSUME At(t, "recognise"), job' = Done(t, c),
             UNCHANGED <<state, turn, generation, stopper, over, ingest, active, sttOpen>>
      PROVE  TurnsLife(t)
  <2>1. \A u \in Turns \ {t} : job'[u] = job[u]  BY <1>1, <1>2, <1>4 DEF Done
  <2>2. job'[t] = [c[t] EXCEPT !.at = "done", !.cancelled = TRUE, !.gen = 0]
    BY <1>1, <1>4 DEF Done
  <2>3. c[t] \in Records  BY <1>1
  <2> QED
    BY <1>2, <1>4, <2>1, <2>2, <2>3, Lives, LesserIsReflexive DEF TurnsLife, Lesser, At, LifeOK,
       OpenOK, LiveOK, OnFloor, Serving, Fresh, Holding, Voiced, Records
<1>5. ASSUME At(t, "decide"), NEW there \in {"leave", "quit", "floor"}, Go(t, there),
             UNCHANGED <<state, turn, generation, stopper, over, ingest, active, sttOpen>>
      PROVE  TurnsLife(t)
  BY <1>5, Values, Lives, LesserIsReflexive DEF TurnsLife, Go, At, LifeOK, OpenOK, LiveOK, OnFloor,
     Serving, Fresh, Holding, Voiced, Records
<1>6. CASE Recognised(t)
  <2>1. At(t, "recognise") /\ UNCHANGED <<state, turn, generation, stopper, over, ingest, active>>
    BY <1>6 DEF Recognised
  <2>2. \/ \E there \in {"quit", "think"} : job' = [k EXCEPT ![t].at = there]
        \/ job' = Done(t, c) /\ UNCHANGED sttOpen
    BY <1>6 DEF Recognised, CloseRecognition, k, c
  <2> QED  BY <1>3, <1>4, <2>1, <2>2
<1>7. CASE Decide(t)
  <2>1. At(t, "decide") /\ UNCHANGED <<state, turn, generation, stopper, over, ingest, active>>
    BY <1>7 DEF Decide
  <2>2. \/ job' = [k EXCEPT ![t].at = "quit"]
        \/ \E there \in {"leave", "quit", "floor"} : Go(t, there) /\ UNCHANGED sttOpen
    BY <1>7 DEF Decide, CloseRecognition, k
  <2> QED  BY <1>3, <1>5, <2>1, <2>2
<1> QED  BY <1>6, <1>7

\* A step of the ingest goroutine or of stop: every turn's life, and the ends.
LEMMA AudioOfHearing ==
  ASSUME VoiceIInv, AudioIInv, Start \/ Hear \/ Interrupt \/ Ignore \/ Analysed
                               \/ Interrupted \/ Return \/ LetGo \/ BeginTurn
  PROVE  AudioIInv'
<1>1. ASSUME NEW t \in Turns
      PROVE  LifeOK(state', turn', generation', ingest', active'.cancel, sttOpen', over', t, job'[t])
  <2> USE Values, Lives DEF LifeOK, OpenOK, LiveOK, TurnOK, IngestOK, OnFloor, Serving, Fresh,
          Holding, Voiced, AgentStates, Records, To, Permitted, Declared
  <2>1. CASE Start
    <3>1. job[t].at = "none" /\ ~over  BY <2>1 DEF Start, AudioIInv, EndsAgree
    <3>2. /\ UNCHANGED <<turn, generation, sttOpen, active, job>>
          /\ ingest = "none" /\ ingest' \in {"wait", "done"}
      BY <2>1 DEF Start
    <3> QED  BY <3>1, <3>2
  <2>2. CASE Hear  BY <2>2 DEF Hear
  <2>3. CASE Interrupt
    <3>1. job[t].gen <= generation /\ job[t].gen \in Nat  BY Believes
    <3> QED  BY <2>3, <3>1 DEF Interrupt, AgentHoldsFloor
  <2>4. CASE Ignore  BY <2>4 DEF Ignore
  <2>5. CASE Analysed  BY <2>5 DEF Analysed
  <2>6. CASE Interrupted  BY <2>6 DEF Interrupted
  <2>7. CASE Return  BY <2>7 DEF Return
  <2>8. CASE BeginTurn  BY <2>8 DEF BeginTurn
  <2>9. CASE LetGo  BY <2>9 DEF LetGo
  <2> QED  BY <2>1, <2>2, <2>3, <2>4, <2>5, <2>6, <2>7, <2>8, <2>9
<1>2. EndsAgree'
  <2>1. CASE Start
    <3>1. /\ UNCHANGED <<stopper, job>> /\ ingest' # "none"
          /\ ~over' => Permitted("listening")
          /\ state' = IF Permitted("listening") THEN "listening" ELSE state
      BY <2>1 DEF Start, To
    <3>2. Permitted("listening") => state # "ended"  BY DEF Permitted, Declared
    <3> QED  BY <3>1, <3>2 DEF AudioIInv, EndsAgree
  <2>2. CASE Hear \/ Interrupt \/ Ignore \/ Analysed \/ LetGo
    BY <2>2 DEF AudioIInv, EndsAgree, Hear, Interrupt, Ignore, Analysed, LetGo
  <2>3. CASE Interrupted \/ Return \/ BeginTurn
    BY <2>3, Values DEF AudioIInv, EndsAgree, Interrupted, Return, BeginTurn, To, Permitted, Declared
  <2> QED  BY <2>1, <2>2, <2>3
<1> QED  BY <1>1, <1>2 DEF AudioIInv, LivesAgree

LEMMA AudioOfStopping ==
  ASSUME VoiceIInv, AudioIInv, Fails \/ Stop
  PROVE  AudioIInv'
<1>1. CASE StopBegins /\ stopper = "none"
  <2> DEFINE f == [t \in Turns |-> job[t].cancelled \/ active.cancel = t]
  <2>1. f \in [Turns -> BOOLEAN]  OBVIOUS
  <2>2. job' = [t \in Turns |-> [job[t] EXCEPT !.cancelled = f[t]]]  BY <1>1 DEF StopBegins
  <2>3. \A t \in Turns : f[t] <=> job[t].cancelled \/ active.cancel = t
    BY Values DEF Records
  <2> HIDE DEF f
  <2>4. /\ UNCHANGED <<state, turn, over, sttOpen, active>> /\ stopper = "none" /\ stopper' = "end"
        /\ generation' = generation + 1 /\ generation \in Nat
        /\ ingest' = ingest \/ ingest' = "failing"
        /\ ingest' = "failing" => ingest' = ingest \/ ingest \in {"analysed", "onset", "open"}
    <3>1. stopper = "none" /\ UNCHANGED <<state, turn, over, sttOpen, active>>
      BY <1>1 DEF Fails, Stop, StopBegins
    <3>2. stopper' = "end" /\ generation' = generation + 1 /\ generation \in Nat
      BY <1>1, Values DEF StopBegins
    <3>3. /\ ingest' = ingest \/ ingest' = "failing"
          /\ ingest' = "failing" => ingest' = ingest \/ ingest \in {"analysed", "onset", "open"}
      BY DEF Fails, Stop
    <3> QED  BY <3>1, <3>2, <3>3
  <2>5. ASSUME NEW t \in Turns
        PROVE  /\ LifeOK(state', turn', generation', ingest', active'.cancel, sttOpen', over', t, job'[t])
               /\ job'[t].at = job[t].at
    <3>1. /\ job'[t].at = job[t].at /\ job'[t].gen = job[t].gen
          /\ job'[t].cancelled = f[t]
          /\ job'[t].stt = job[t].stt /\ job'[t].tts = job[t].tts
          /\ job'[t].dispatcher = job[t].dispatcher
          /\ job'[t].pump = job[t].pump /\ job'[t].spoke = job[t].spoke
      <4>1. job'[t] = [job[t] EXCEPT !.cancelled = f[t]] /\ job[t] \in Records  BY <2>2, Values
      <4> QED  BY <4>1 DEF Records
    <3>2. job[t].gen # generation + 1  BY Believes, Values
    <3> QED  BY <2>3, <2>4, <3>1, <3>2, Lives DEF LifeOK, OpenOK, LiveOK, Serving, OnFloor, Fresh
  <2>6. EndsAgree'  BY <2>4, <2>5 DEF AudioIInv, EndsAgree
  <2> QED  BY <2>5, <2>6 DEF AudioIInv, LivesAgree
<1>2. CASE Fails /\ UNCHANGED <<stopper, generation, job>>
  <2>1. \A t \in Turns :
          LifeOK(state', turn', generation', ingest', active'.cancel, sttOpen', over', t, job'[t])
    BY <1>2, Lives DEF Fails, LifeOK, OpenOK, LiveOK
  <2>2. EndsAgree'  BY <1>2 DEF AudioIInv, EndsAgree, Fails
  <2> QED  BY <2>1, <2>2 DEF AudioIInv, LivesAgree
<1> QED  BY <1>1, <1>2 DEF Fails, Stop

LEMMA AudioOfStopSteps ==
  ASSUME VoiceIInv, AudioIInv, StopSteps
  PROVE  AudioIInv'
<1>1. CASE stopper = "end"
  <2>1. /\ state' = "ended" /\ stopper' = "cancel"
        /\ UNCHANGED <<turn, generation, ingest, active, over, sttOpen, job>>
    BY <1>1, Values DEF StopSteps, StopStep, To, Permitted, Declared
  <2>2. \A t \in Turns :
          LifeOK(state', turn', generation', ingest', active'.cancel, sttOpen', over', t, job'[t])
    BY <2>1, Lives DEF LifeOK, OpenOK, LiveOK
  <2>3. EndsAgree'  BY <1>1, <2>1 DEF AudioIInv, EndsAgree
  <2> QED  BY <2>2, <2>3 DEF AudioIInv, LivesAgree
<1>2. CASE stopper = "cancel"
  <2> DEFINE k == Closed(sttOpen, job)
             f == [t \in Turns |-> k[t].cancelled \/ over']
  <2>1. k \in [Turns -> Records] /\ f \in [Turns -> BOOLEAN]  BY Values, ClosedTyped
  <2>2. /\ job' = [t \in Turns |-> [k[t] EXCEPT !.cancelled = f[t]]]
        /\ UNCHANGED <<state, turn, generation, ingest, active>>
        /\ stopper' = "done" /\ over' = (ingest # "none") /\ sttOpen' = NoTurn
    BY <1>2 DEF StopSteps, StopStep
  <2>3. state = "ended"  BY <1>2 DEF AudioIInv, EndsAgree
  <2>4. \A t \in Turns : f[t] <=> k[t].cancelled \/ over'  BY <2>1 DEF Records
  <2>5. \A t \in Turns : Lesser(job[t], k[t]) /\ ~k[t].stt  BY NoneRecognises
  <2> HIDE DEF k, f
  <2>6. ASSUME NEW t \in Turns
        PROVE  /\ LifeOK(state', turn', generation', ingest', active'.cancel, sttOpen', over', t, job'[t])
               /\ job'[t].at = job[t].at
    <3>1. /\ job'[t].at = k[t].at /\ job'[t].gen = k[t].gen
          /\ job'[t].cancelled = f[t]
          /\ job'[t].stt = k[t].stt /\ job'[t].tts = k[t].tts
          /\ job'[t].dispatcher = k[t].dispatcher
          /\ job'[t].pump = k[t].pump /\ job'[t].spoke = k[t].spoke
      <4>1. job'[t] = [k[t] EXCEPT !.cancelled = f[t]] /\ k[t] \in Records  BY <2>1, <2>2
      <4> QED  BY <4>1 DEF Records
    <3>2. /\ ~over' => job[t].at = "none"
          /\ over => over'
      BY <2>2 DEF AudioIInv, EndsAgree
    <3>3. Lesser(job[t], k[t]) /\ ~k[t].stt /\ (f[t] <=> k[t].cancelled \/ over')
      BY <2>4, <2>5
    <3>5. OpenOK(turn', ingest', sttOpen', t, job'[t])
      BY <2>2, <3>1, <3>3, Lives DEF LifeOK, OpenOK, Lesser
    <3>6. job'[t].at \in Fresh => active'.cancel # t /\ (job'[t].cancelled => over')
      <4>1. job[t].at \in Fresh => active.cancel # t /\ (job[t].cancelled => over)
        BY Lives DEF LifeOK
      <4> QED  BY <2>2, <3>1, <3>2, <3>3, <4>1 DEF Lesser
    <3>7. ~(job'[t].at \in Serving /\ ~job'[t].cancelled /\ ~over')
      BY <3>1, <3>2, <3>3 DEF Lesser, Serving, OnFloor, Holding, Voiced
    <3> QED  BY <3>1, <3>3, <3>5, <3>6, <3>7 DEF LifeOK, Lesser
  <2>7. EndsAgree'  BY <2>2, <2>3, <2>6 DEF AudioIInv, EndsAgree
  <2> QED  BY <2>6, <2>7 DEF AudioIInv, LivesAgree
<1> QED  BY <1>1, <1>2 DEF StopSteps, StopStep

\* The caller's context is cancelled: every turn's is with it.
LEMMA AudioOfContext ==
  ASSUME VoiceIInv, AudioIInv, ContextEnds
  PROVE  AudioIInv'
<1>1. ASSUME NEW t \in Turns
      PROVE  /\ LifeOK(state', turn', generation', ingest', active'.cancel, sttOpen', over', t, job'[t])
             /\ job'[t].at = job[t].at
  <2>1. job'[t] = [job[t] EXCEPT !.cancelled = TRUE] /\ job[t] \in Records
    BY Values DEF ContextEnds
  <2>2. /\ job'[t].at = job[t].at /\ job'[t].gen = job[t].gen /\ job'[t].cancelled
        /\ job'[t].stt = job[t].stt /\ job'[t].tts = job[t].tts
        /\ job'[t].dispatcher = job[t].dispatcher
        /\ job'[t].pump = job[t].pump /\ job'[t].spoke = job[t].spoke
    BY <2>1 DEF Records
  <2> QED  BY <2>2, Lives DEF ContextEnds, LifeOK, OpenOK
<1>2. EndsAgree'  BY <1>1 DEF ContextEnds, AudioIInv, EndsAgree
<1> QED  BY <1>1, <1>2 DEF AudioIInv, LivesAgree

LEMMA AudioOfAbort ==
  ASSUME VoiceIInv, AudioIInv, AbortActiveTurn
  PROVE  AudioIInv'
<1>1. /\ UNCHANGED <<state, turn, generation, stopper, over, sttOpen>>
      /\ ingest = "abort" /\ ingest' = "interrupt"
      /\ active' = [cancel |-> NoTurn, tts |-> NoTurn, dispatcher |-> NoTurn]
  BY DEF AbortActiveTurn
<1>2. ASSUME NEW t \in Turns
      PROVE  /\ LifeOK(state', turn', generation', ingest', active'.cancel, sttOpen', over', t, job'[t])
             /\ job'[t].at = job[t].at
  <2>1. job[t] \in Records  BY Values
  <2> DEFINE d == job[t].dispatcher /\ active.dispatcher # t
             v == job[t].tts /\ active.tts # t
             o == job[t].cancelled \/ active.cancel = t
  <2>2. job'[t] = [job[t] EXCEPT !.dispatcher = d, !.tts = v, !.cancelled = o]
    BY <2>1 DEF AbortActiveTurn
  <2>3. /\ d => job[t].dispatcher
        /\ v => job[t].tts
        /\ o <=> job[t].cancelled \/ active.cancel = t
    OBVIOUS
  <2> HIDE DEF d, v, o
  <2>4. /\ job'[t].at = job[t].at /\ job'[t].gen = job[t].gen /\ job'[t].cancelled = o
        /\ job'[t].stt = job[t].stt /\ job'[t].tts = v /\ job'[t].dispatcher = d
        /\ job'[t].pump = job[t].pump /\ job'[t].spoke = job[t].spoke
    BY <2>1, <2>2 DEF Records
  <2>5. active'.cancel # t  BY <1>1, Lives DEF NoTurn
  <2>6. OpenOK(turn', ingest', sttOpen', t, job'[t])
    BY <1>1, <2>3, <2>4, Lives DEF LifeOK, OpenOK
  <2>7. job'[t].at \in Fresh => (job'[t].cancelled => over')
    BY <1>1, <2>3, <2>4, Lives DEF LifeOK
  <2>8. ~(job'[t].at \in Serving /\ ~job'[t].cancelled /\ ~over')
    BY <1>1, <2>3, <2>4, Lives DEF LifeOK, LiveOK, Serving
  <2> QED  BY <2>4, <2>5, <2>6, <2>7, <2>8 DEF LifeOK
<1>3. EndsAgree'  BY <1>1, <1>2 DEF AudioIInv, EndsAgree
<1> QED  BY <1>2, <1>3 DEF AudioIInv, LivesAgree

LEMMA AudioOfRecognisers ==
  ASSUME VoiceIInv, AudioIInv, OpenSTT \/ Transcribe \/ IngestEnds
  PROVE  AudioIInv'
<1>1. CASE OpenSTT
  <2>1. /\ ingest = "open" /\ ingest' = "opened" /\ sttOpen' = turn
        /\ job' = [job EXCEPT ![turn].stt = TRUE]
        /\ UNCHANGED <<state, turn, generation, stopper, over, active>>
    BY <1>1 DEF OpenSTT
  <2>2. ASSUME NEW t \in Turns
        PROVE  /\ LifeOK(state', turn', generation', ingest', active'.cancel, sttOpen', over', t, job'[t])
               /\ job'[t].at = job[t].at
    <3>1. ~job[t].stt  BY <2>1, Lives DEF LifeOK, OpenOK
    <3>2. CASE t # turn
      <4>1. job'[t] = job[t]  BY <2>1, <3>2, Values
      <4> QED  BY <2>1, <3>1, <4>1, Lives DEF LifeOK, OpenOK, LiveOK
    <3>3. CASE t = turn
      <4>1. job'[t] = [job[t] EXCEPT !.stt = TRUE] /\ job[t] \in Records  BY <2>1, <3>3, Values
      <4>2. /\ job'[t].at = job[t].at /\ job'[t].gen = job[t].gen
            /\ job'[t].cancelled = job[t].cancelled
            /\ job'[t].tts = job[t].tts /\ job'[t].dispatcher = job[t].dispatcher
            /\ job'[t].pump = job[t].pump /\ job'[t].spoke = job[t].spoke
        BY <4>1 DEF Records
      <4> QED  BY <2>1, <3>3, <4>2, Lives DEF LifeOK, OpenOK, LiveOK
    <3> QED  BY <3>2, <3>3
  <2>3. EndsAgree'  BY <2>1, <2>2 DEF AudioIInv, EndsAgree
  <2> QED  BY <2>2, <2>3 DEF AudioIInv, LivesAgree
<1>2. CASE Transcribe /\ Permitted("transcribing")
  <2>1. /\ ingest = "opened" /\ ingest' = "wait" /\ sttOpen' = sttOpen
        /\ job' = [job EXCEPT ![turn].at = "recognise"]
        /\ UNCHANGED <<turn, generation, stopper, over, active>>
        /\ state = "speaking_detected" /\ state' = "transcribing"
    BY <1>2, Values DEF Transcribe, Go, To, Permitted, Declared
  <2>2. ASSUME NEW t \in Turns
        PROVE  LifeOK(state', turn', generation', ingest', active'.cancel, sttOpen', over', t, job'[t])
    <3>1. CASE t # turn
      <4>1. job'[t] = job[t]  BY <2>1, <3>1, Values
      <4> QED  BY <2>1, <3>1, <4>1, Lives DEF LifeOK, OpenOK, LiveOK
    <3>2. CASE t = turn
      <4>1. job[t].at = "none"  BY <2>1, <3>2, Lives DEF TurnOK
      <4>2. job'[t] = [job[t] EXCEPT !.at = "recognise"] /\ job[t] \in Records  BY <2>1, <3>2, Values
      <4>3. /\ job'[t].at = "recognise" /\ job'[t].stt = job[t].stt
            /\ job'[t].cancelled = job[t].cancelled
            /\ job'[t].tts = job[t].tts /\ job'[t].dispatcher = job[t].dispatcher
            /\ job'[t].pump = job[t].pump /\ job'[t].spoke = job[t].spoke
        BY <4>2 DEF Records
      <4> QED  BY <2>1, <4>1, <4>3, Lives DEF LifeOK, OpenOK, Fresh, Serving, OnFloor, Holding, Voiced
    <3> QED  BY <3>1, <3>2
  <2>3. EndsAgree'  BY <2>1 DEF AudioIInv, EndsAgree
  <2> QED  BY <2>2, <2>3 DEF AudioIInv, LivesAgree
<1>3. CASE Transcribe /\ ~Permitted("transcribing")
  <2>1. /\ ingest = "opened" /\ ingest' = "wait" /\ job' = Closed(turn, job)
        /\ UNCHANGED <<state, turn, generation, stopper, over, active>>
    BY <1>3 DEF Transcribe, To
  <2>2. ASSUME NEW t \in Turns
        PROVE  /\ LifeOK(state', turn', generation', ingest', active'.cancel, sttOpen', over', t, job'[t])
               /\ job'[t].at = job[t].at
    <3>1. Lesser(job[t], job'[t]) /\ ~job'[t].stt
      <4>1. job[t].stt => t = turn  BY <2>1, Lives DEF LifeOK, OpenOK
      <4> QED  BY <2>1, <4>1, Values, Lives DEF Closed, NoTurn, Lesser, Records
    <3> QED  BY <2>1, <3>1, Lives DEF Lesser, LifeOK, OpenOK, LiveOK
  <2>3. EndsAgree'  BY <2>1, <2>2 DEF AudioIInv, EndsAgree
  <2> QED  BY <2>2, <2>3 DEF AudioIInv, LivesAgree
<1>4. CASE IngestEnds
  <2>1. /\ ingest \in {"wait", "failing"} /\ ingest' = "done"
        /\ UNCHANGED <<state, turn, generation, stopper, over, active>>
        /\ \/ sttOpen' = NoTurn /\ job' = Closed(sttOpen, job)
           \/ UNCHANGED <<sttOpen, job>>
    BY <1>4 DEF IngestEnds
  <2>2. ASSUME NEW t \in Turns
        PROVE  /\ LifeOK(state', turn', generation', ingest', active'.cancel, sttOpen', over', t, job'[t])
               /\ job'[t].at = job[t].at
    <3>1. Lesser(job[t], job'[t]) /\ (job'[t].stt => sttOpen' = sttOpen)
      BY <2>1, NoneRecognises, LesserIsReflexive
    <3> QED  BY <2>1, <3>1, Lives DEF Lesser, LifeOK, OpenOK, LiveOK
  <2>3. EndsAgree'  BY <2>1, <2>2 DEF AudioIInv, EndsAgree
  <2> QED  BY <2>2, <2>3 DEF AudioIInv, LivesAgree
<1> QED  BY <1>1, <1>2, <1>3, <1>4

LEMMA AudioInit ==
  ASSUME Init  PROVE AudioIInv
<1>1. \A t \in Turns : t # 0  BY TurnsAssumption DEF Turns
<1>2. \A t \in Turns :
        LifeOK(state, turn, generation, ingest, active.cancel, sttOpen, over, t, job[t])
  BY <1>1 DEF Init, Untouched, NoTurn, LifeOK, OpenOK, Serving, OnFloor, Holding, Voiced, Fresh
<1>3. EndsAgree  BY DEF Init, Untouched, EndsAgree
<1> QED  BY <1>2, <1>3 DEF AudioIInv, LivesAgree

LEMMA AudioStep ==
  ASSUME VoiceIInv, AudioIInv, [Next]_vars  PROVE AudioIInv'
<1>1. CASE IngestStep \/ ContextEnds \/ Stop \/ StopSteps
  BY <1>1, AudioOfHearing, AudioOfStopping, AudioOfStopSteps, AudioOfContext, AudioOfAbort,
     AudioOfRecognisers
  DEF IngestStep, InterruptStep
<1>2. ASSUME NEW t \in Turns, TurnNext(t)  PROVE AudioIInv'
  <2>1. TurnsLife(t)
    BY <1>2, AudioOfSteps, AudioOfPumps, AudioOfMoves, AudioOfEnds, AudioOfDecisions
    DEF TurnNext, TurnStep, PumpStep
  <2> QED  BY <2>1, TurnsLifeKeeps
<1>3. CASE UNCHANGED vars
  BY <1>3 DEF vars, AudioIInv, LivesAgree, EndsAgree
<1> QED  BY <1>1, <1>2, <1>3 DEF Next, TurnNext

----------------------------------------------------------------------------
(* The theorems *)

\* At every moment of a call the ingest goroutine and every turn's goroutine and
\* pump agree with the session on what they are doing, with an interruption on
\* what it will find, and with stop on what it has ended.
THEOREM VoiceInductive == Spec => [](VoiceIInv /\ AudioIInv)
<1>1. Init => VoiceIInv /\ AudioIInv  BY VoiceInit, AudioInit
<1>2. VoiceIInv /\ AudioIInv /\ [Next]_vars => (VoiceIInv /\ AudioIInv)'
  BY VoiceStep, AudioStep
<1> QED  BY <1>1, <1>2, PTL DEF Spec

LEMMA MoversFollow ==
  ASSUME VoiceIInv  PROVE MoversOwnTheSession
BY DEF VoiceIInv, EverybodyAgrees, MoversOwnTheSession, IngestOK, TurnOK, AgentStates,
       AgentHoldsFloor, At

\* Whoever is about to move the session, through the floor or without it, moves
\* it from the state and for the turn it believes in (Pipeline.floor): an
\* interrupted turn never moves the next one's session.
THEOREM MoversOwn == Spec => []MoversOwnTheSession
BY MoversFollow, VoiceInductive, PTL

LEMMA AudioFollows ==
  ASSUME VoiceIInv, AudioIInv  PROVE AudioFollowsTheFloor
<1> SUFFICES ASSUME NEW t \in Turns, job[t].pump = "hand", ~Over(t)
             PROVE  turn = t /\ (state = "speaking" \/ (state = "ended" /\ stopper = "cancel"))
  BY DEF AudioFollowsTheFloor
<1>1. job[t].at \in Voiced  BY Lives DEF LifeOK, OpenOK
<1>2. turn = t /\ state \in {"speaking", "ended"}
  BY <1>1, Lives DEF LifeOK, LiveOK, Serving, OnFloor, Holding, Over
<1>3. ~(stopper = "done" /\ ~over)  BY <1>1 DEF AudioIInv, EndsAgree, Voiced
<1> QED  BY <1>2, <1>3 DEF AudioIInv, EndsAgree, Over

\* A frame the sink would still take is of the turn that speaks, or of one that
\* spoke when the call ended (pumpAudio's guards): nothing of an abandoned turn
\* is heard once the interruption has returned.
THEOREM AbandonedTurnsAreSilent == Spec => []AudioFollowsTheFloor
BY AudioFollows, VoiceInductive, PTL

LEMMA OpenFollows ==
  ASSUME VoiceIInv, AudioIInv  PROVE NothingIsLeftOpen
<1> SUFFICES ASSUME ingest = "done", NEW t \in Turns, job[t].at \in {"none", "done"}
             PROVE  ~job[t].stt /\ ~job[t].tts /\ ~job[t].dispatcher
  BY DEF NothingIsLeftOpen
<1> QED  BY Lives DEF LifeOK, OpenOK, Voiced

\* When every goroutine has finished, no recogniser, synthesiser or generation is
\* left open (stop, closeRecognition, pumpAudio's deferred close).
THEOREM EverythingIsClosed == Spec => []NothingIsLeftOpen
BY OpenFollows, VoiceInductive, PTL

\* Types, ownership of the session, silence of abandoned turns, and nothing left
\* open: all that the run checks of every state.
THEOREM VoiceSafe == Spec => []VoiceInv
<1>1. VoiceIInv /\ AudioIInv => VoiceInv
  BY MoversFollow, AudioFollows, OpenFollows DEF VoiceInv, VoiceIInv
<1> QED  BY <1>1, VoiceInductive, PTL

=============================================================================
