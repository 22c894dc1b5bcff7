------------------------------- MODULE Fence -------------------------------
(***************************************************************************)
(* The single-active fence of the telephony gateway                        *)
(* (services/go/telephony-gateway/internal/fence/fence.go).                *)
(*                                                                         *)
(* Every gateway process tries to hold one PostgreSQL session advisory     *)
(* lock.  A process admits work only while Owned: it believes it holds the *)
(* lock, it has believed so for at least Validity (the grace of a new      *)
(* holder), and its last confirmation was SENT less than Validity ago.     *)
(* The processes, the database servers and the network interleave freely:  *)
(* a query is evaluated at any instant between its sending and its         *)
(* receipt, an answer may be lost after it took effect, a server may drop  *)
(* a session its client still believes in, a process may crash, restart or *)
(* be paused anywhere.  One clock is read by every process (the comment of *)
(* the package names this assumption).                                     *)
(***************************************************************************)
EXTENDS Naturals

CONSTANTS
  Proc,       \* the gateway processes
  Server,     \* the database servers behind the one endpoint
  Interval,   \* Config.HeartbeatInterval
  Timeout,    \* Config.HeartbeatTimeout
  MaxClock,   \* bound of the clock
  Free,       \* the lock is held by no session
  Orphan,     \* the lock is held by a session whose client is gone
  NoServer    \* no session, or no writable primary

\* Config.Validate: both durations positive, the timeout the shorter one.
ASSUME TimingAssumption ==
  /\ Interval \in Nat /\ Timeout \in Nat /\ MaxClock \in Nat
  /\ 0 < Timeout /\ Timeout < Interval

ASSUME ValueAssumption ==
  /\ Free \notin Proc /\ Orphan \notin Proc /\ Free # Orphan
  /\ NoServer \notin Server

VARIABLES
  clock,      \* what every f.now() reads
  primary,    \* the server that is not in recovery, if one is
  lock,       \* lock[s]: the session that holds the key on server s
  backend,    \* backend[p]: the server side of p's session
  pc,         \* pc[p]: where p's Run stands
  held, acquired, confirmed,   \* the fields of Fence
  sent, received, answer,      \* holdOnce: the query in flight
  wake,       \* when the current pause ends
  stop,       \* f.stop is closed
  cancelled   \* the context of Run is cancelled

server  == <<primary, lock, backend>>
claim   == <<held, acquired, confirmed>>
query   == <<sent, received, answer>>
halting == <<stop, cancelled>>
fenceVars == <<clock, server, pc, claim, query, wake, halting>>

-----------------------------------------------------------------------------
\* Config.Validity: how long a confirmation lasts and how long the grace is.
Validity == Interval + Timeout

\* ownedLocked (now.Sub(x) >= v is written without the subtraction).
Owned(p) ==
  /\ held[p]
  /\ clock >= acquired[p] + Validity
  /\ clock < confirmed[p] + Validity

\* The steps of Run and holdOnce at which a process can be interleaved.
Querying == {"primary", "lock", "confirm"}
Steps == Querying \cup
         {"init", "dial", "granted", "hold", "release", "unlock", "pause", "done"}

FenceInit ==
  /\ clock = 0
  /\ primary \in Server
  /\ lock = [s \in Server |-> Free]
  /\ backend = [p \in Proc |-> NoServer]
  /\ pc = [p \in Proc |-> "init"]
  /\ held = [p \in Proc |-> FALSE]
  /\ acquired = [p \in Proc |-> 0]
  /\ confirmed = [p \in Proc |-> 0]
  /\ sent = [p \in Proc |-> 0]
  /\ received = [p \in Proc |-> 0]
  /\ answer = [p \in Proc |-> "none"]
  /\ wake = [p \in Proc |-> 0]
  /\ stop = [p \in Proc |-> FALSE]
  /\ cancelled = [p \in Proc |-> FALSE]

Goto(p, step) == pc' = [pc EXCEPT ![p] = step]
Lose(p) == held' = [held EXCEPT ![p] = FALSE]

\* What ending p's session leaves in the lock table: nothing of p.
LockAfter(p, left) ==
  [s \in Server |-> IF lock[s] = p THEN left ELSE lock[s]]

-----------------------------------------------------------------------------
(* Run and holdOnce: acquiring                                             *)

Run(p) ==
  /\ pc[p] = "init"
  /\ Goto(p, "dial")
  /\ UNCHANGED <<clock, server, claim, query, wake, halting>>

\* The dial reaches some server of the endpoint and the Primary query leaves.
Dial(p) ==
  /\ pc[p] = "dial"
  /\ ~cancelled[p]
  /\ \E s \in Server : backend' = [backend EXCEPT ![p] = s]
  /\ answer' = [answer EXCEPT ![p] = "none"]
  /\ Goto(p, "primary")
  /\ UNCHANGED <<clock, primary, lock, claim, sent, received, wake, halting>>

\* No session: holdOnce returns and Run pauses for one interval.
DialFails(p) ==
  /\ pc[p] = "dial"
  /\ wake' = [wake EXCEPT ![p] = clock + Interval]
  /\ Goto(p, "pause")
  /\ UNCHANGED <<clock, server, claim, query, halting>>

\* On a primary: read the send time, then send TryLock.
TryLock(p) ==
  /\ pc[p] = "primary" /\ answer[p] = "yes"
  /\ sent' = [sent EXCEPT ![p] = clock]
  /\ answer' = [answer EXCEPT ![p] = "none"]
  /\ Goto(p, "lock")
  /\ UNCHANGED <<clock, server, claim, received, wake, halting>>

\* The lock was granted: read the receipt time.
Granted(p) ==
  /\ pc[p] = "lock" /\ answer[p] = "yes"
  /\ received' = [received EXCEPT ![p] = clock]
  /\ answer' = [answer EXCEPT ![p] = "none"]
  /\ Goto(p, "granted")
  /\ UNCHANGED <<clock, server, claim, sent, wake, halting>>

\* MUTANT of TakeHold: the grace runs from the sending of TryLock.
MutTakeHold(p) ==
  /\ pc[p] = "granted"
  /\ held' = [held EXCEPT ![p] = TRUE]
  /\ acquired' = [acquired EXCEPT ![p] = sent[p]]
  /\ confirmed' = [confirmed EXCEPT ![p] = sent[p]]
  /\ wake' = [wake EXCEPT ![p] = clock + Interval]
  /\ Goto(p, "hold")
  /\ UNCHANGED <<clock, server, query, halting>>

\* After Granted, under the mutex: believe it.
TakeHold(p) ==
  /\ pc[p] = "granted"
  /\ held' = [held EXCEPT ![p] = TRUE]
  /\ acquired' = [acquired EXCEPT ![p] = received[p]]
  /\ confirmed' = [confirmed EXCEPT ![p] = sent[p]]
  /\ wake' = [wake EXCEPT ![p] = clock + Interval]
  /\ Goto(p, "hold")
  /\ UNCHANGED <<clock, server, query, halting>>

\* Not a primary, or the lock is held elsewhere: give the session up.
Refused(p) ==
  /\ pc[p] \in {"primary", "lock"} /\ answer[p] = "no"
  /\ Goto(p, "release")
  /\ UNCHANGED <<clock, server, claim, query, wake, halting>>

\* An error, a timeout or a cancelled context ends any query, evaluated or not.
QueryFails(p) ==
  /\ pc[p] \in Querying
  /\ Goto(p, "release")
  /\ UNCHANGED <<clock, server, claim, query, wake, halting>>

-----------------------------------------------------------------------------
(* holdOnce: confirming and losing                                         *)

Heartbeat(p) ==
  /\ pc[p] = "hold" /\ clock >= wake[p]
  /\ sent' = [sent EXCEPT ![p] = clock]
  /\ answer' = [answer EXCEPT ![p] = "none"]
  /\ Goto(p, "confirm")
  /\ UNCHANGED <<clock, server, claim, received, wake, halting>>

\* The confirmation was sent after the window had lapsed.
Lapsed(p) == sent[p] >= confirmed[p] + Validity

\* MUTANTS of Confirm: the confirmation counts from its receipt; a lapsed one
\* revives ownership.
MutConfirmReceived(p) ==
  /\ pc[p] = "confirm" /\ answer[p] = "yes" /\ ~Lapsed(p)
  /\ confirmed' = [confirmed EXCEPT ![p] = clock]
  /\ answer' = [answer EXCEPT ![p] = "none"]
  /\ wake' = [wake EXCEPT ![p] = clock + Interval]
  /\ Goto(p, "hold")
  /\ UNCHANGED <<clock, server, held, acquired, sent, received, halting>>
MutConfirmLate(p) ==
  /\ pc[p] = "confirm" /\ answer[p] = "yes"
  /\ confirmed' = [confirmed EXCEPT ![p] = sent[p]]
  /\ answer' = [answer EXCEPT ![p] = "none"]
  /\ wake' = [wake EXCEPT ![p] = clock + Interval]
  /\ Goto(p, "hold")
  /\ UNCHANGED <<clock, server, held, acquired, sent, received, halting>>

Confirm(p) ==
  /\ pc[p] = "confirm" /\ answer[p] = "yes" /\ ~Lapsed(p)
  /\ confirmed' = [confirmed EXCEPT ![p] = sent[p]]
  /\ answer' = [answer EXCEPT ![p] = "none"]
  /\ wake' = [wake EXCEPT ![p] = clock + Interval]
  /\ Goto(p, "hold")
  /\ UNCHANGED <<clock, server, held, acquired, sent, received, halting>>

ConfirmLost(p) ==
  /\ pc[p] = "confirm"
  /\ \/ answer[p] = "no"
     \/ answer[p] = "yes" /\ Lapsed(p)
  /\ Lose(p)
  /\ Goto(p, "release")
  /\ UNCHANGED <<clock, server, acquired, confirmed, query, wake, halting>>

\* The sleep between heartbeats ended because the context did.
StopHolding(p) ==
  /\ pc[p] = "hold" /\ cancelled[p]
  /\ Goto(p, "release")
  /\ UNCHANGED <<clock, server, claim, query, wake, halting>>

\* release: ownership ends first ...
ReleaseLose(p) ==
  /\ pc[p] = "release"
  /\ Lose(p)
  /\ Goto(p, "unlock")
  /\ UNCHANGED <<clock, server, acquired, confirmed, query, wake, halting>>

\* ... then Unlock and Close, which may or may not reach the server.
ReleaseSession(p) ==
  /\ pc[p] = "unlock"
  /\ \E left \in {Free, Orphan} : lock' = LockAfter(p, left)
  /\ backend' = [backend EXCEPT ![p] = NoServer]
  /\ wake' = [wake EXCEPT ![p] = clock + Interval]
  /\ Goto(p, "pause")
  /\ UNCHANGED <<clock, primary, claim, query, halting>>

PauseOver(p) ==
  /\ pc[p] = "pause" /\ ~cancelled[p] /\ clock >= wake[p]
  /\ Goto(p, "dial")
  /\ UNCHANGED <<clock, server, claim, query, wake, halting>>

Return(p) ==
  /\ pc[p] = "pause" /\ cancelled[p]
  /\ Goto(p, "done")
  /\ UNCHANGED <<clock, server, claim, query, wake, halting>>

-----------------------------------------------------------------------------
(* Shutdown, cancellation and crashes                                      *)

\* Shutdown closes stop and drops ownership; Run notices on its own time.
Shutdown(p) ==
  /\ stop' = [stop EXCEPT ![p] = TRUE]
  /\ Lose(p)
  /\ UNCHANGED <<clock, server, pc, acquired, confirmed, query, wake, cancelled>>

\* The goroutine of Run turns the closed channel into a cancellation.
CancelOnStop(p) ==
  /\ stop[p] /\ pc[p] \notin {"init", "done"} /\ ~cancelled[p]
  /\ cancelled' = [cancelled EXCEPT ![p] = TRUE]
  /\ UNCHANGED <<clock, server, pc, claim, query, wake, stop>>

\* The process dies; its session stays behind until the server notices, and
\* the next incarnation starts from New.
Crash(p) ==
  /\ pc[p] # "init"
  /\ lock' = LockAfter(p, Orphan)
  /\ backend' = [backend EXCEPT ![p] = NoServer]
  /\ Lose(p)
  /\ answer' = [answer EXCEPT ![p] = "none"]
  /\ stop' = [stop EXCEPT ![p] = FALSE]
  /\ cancelled' = [cancelled EXCEPT ![p] = FALSE]
  /\ Goto(p, "init")
  /\ UNCHANGED <<clock, primary, acquired, confirmed, sent, received, wake>>

-----------------------------------------------------------------------------
(* The database (external: what pgSession's queries ask of PostgreSQL)     *)

\* pg_is_in_recovery, asked of the session's server.
EvaluatePrimary(p) ==
  /\ pc[p] = "primary" /\ answer[p] = "none" /\ backend[p] # NoServer
  /\ answer' = [answer EXCEPT ![p] = IF backend[p] = primary THEN "yes" ELSE "no"]
  /\ UNCHANGED <<clock, server, pc, claim, sent, received, wake, halting>>

\* pg_try_advisory_lock: never waits, and does not ask whether it is a primary.
EvaluateTryLock(p) ==
  /\ pc[p] = "lock" /\ answer[p] = "none" /\ backend[p] # NoServer
  /\ LET s == backend[p] IN
       \/ /\ lock[s] = Free
          /\ lock' = [lock EXCEPT ![s] = p]
          /\ answer' = [answer EXCEPT ![p] = "yes"]
       \/ /\ lock[s] # Free
          /\ answer' = [answer EXCEPT ![p] = "no"]
          /\ UNCHANGED lock
  /\ UNCHANGED <<clock, primary, backend, pc, claim, sent, received, wake, halting>>

\* Holds: not in recovery, and pg_locks shows the key for this backend.
EvaluateHolds(p) ==
  /\ pc[p] = "confirm" /\ answer[p] = "none" /\ backend[p] # NoServer
  /\ answer' = [answer EXCEPT ![p] =
       IF backend[p] = primary /\ lock[backend[p]] = p THEN "yes" ELSE "no"]
  /\ UNCHANGED <<clock, server, pc, claim, sent, received, wake, halting>>

\* The server gives up on a session (keepalive, idle timeout, administrator):
\* its lock is released while the client may still be within its window.
DropSession(p) ==
  /\ backend[p] # NoServer
  /\ lock' = LockAfter(p, Free)
  /\ backend' = [backend EXCEPT ![p] = NoServer]
  /\ UNCHANGED <<clock, primary, pc, claim, query, wake, halting>>

ReapOrphan(s) ==
  /\ lock[s] = Orphan
  /\ lock' = [lock EXCEPT ![s] = Free]
  /\ UNCHANGED <<clock, primary, backend, pc, claim, query, wake, halting>>

\* The primary fails or is demoted: PostgreSQL enters recovery through a
\* restart, which ends its sessions and clears its advisory locks.
LosePrimary ==
  /\ primary # NoServer
  /\ lock' = [lock EXCEPT ![primary] = Free]
  /\ backend' = [p \in Proc |-> IF backend[p] = primary THEN NoServer ELSE backend[p]]
  /\ primary' = NoServer
  /\ UNCHANGED <<clock, pc, claim, query, wake, halting>>

\* A replica is promoted; the sessions it already has survive.
Promote(s) ==
  /\ primary = NoServer
  /\ primary' = s
  /\ UNCHANGED <<clock, lock, backend, pc, claim, query, wake, halting>>

Tick ==
  /\ clock < MaxClock
  /\ clock' = clock + 1
  /\ UNCHANGED <<server, pc, claim, query, wake, halting>>

-----------------------------------------------------------------------------
\* The steps of the process itself ...
Work(p) ==
  \/ Run(p) \/ Dial(p) \/ DialFails(p) \/ TryLock(p) \/ Granted(p) \/ TakeHold(p)
  \/ Refused(p) \/ QueryFails(p) \/ Heartbeat(p) \/ Confirm(p) \/ ConfirmLost(p)
  \/ StopHolding(p) \/ ReleaseLose(p) \/ ReleaseSession(p) \/ PauseOver(p)
  \/ Return(p) \/ CancelOnStop(p)

\* ... of the server answering it ...
Evaluate(p) == EvaluatePrimary(p) \/ EvaluateTryLock(p) \/ EvaluateHolds(p)

\* ... and of the world around them.
Fault ==
  \/ \E p \in Proc : DropSession(p) \/ Crash(p)
  \/ LosePrimary

FenceNext ==
  \/ \E p \in Proc : Work(p) \/ Evaluate(p) \/ Shutdown(p)
  \/ \E s \in Server : ReapOrphan(s) \/ Promote(s)
  \/ Fault
  \/ Tick

FenceSpec == FenceInit /\ [][FenceNext]_fenceVars

-----------------------------------------------------------------------------
(* Properties                                                              *)

FenceTypeOK ==
  /\ clock \in Nat
  /\ primary \in Server \cup {NoServer}
  /\ lock \in [Server -> Proc \cup {Free, Orphan}]
  /\ backend \in [Proc -> Server \cup {NoServer}]
  /\ pc \in [Proc -> Steps]
  /\ held \in [Proc -> BOOLEAN]
  /\ acquired \in [Proc -> Nat] /\ confirmed \in [Proc -> Nat]
  /\ sent \in [Proc -> Nat] /\ received \in [Proc -> Nat] /\ wake \in [Proc -> Nat]
  /\ answer \in [Proc -> {"none", "yes", "no"}]
  /\ stop \in [Proc -> BOOLEAN] /\ cancelled \in [Proc -> BOOLEAN]

\* Two gateway processes are never the active owner at the same instant (the
\* purpose of the package: the grace of a new holder outlives the window of
\* the old one, through lost sessions, failovers, late answers and crashes).
MutualExclusion ==
  \A p, q \in Proc : Owned(p) /\ Owned(q) => p = q

\* holdOnce "always leaves the fence not-held": no process that pauses, dials
\* or has returned from Run believes it holds the lock, whatever Shutdown did.
NotHeldOutsideHold ==
  \A p \in Proc : held[p] => pc[p] \in {"hold", "confirm", "release"}

\* A confirmation sent after the window had lapsed does not revive ownership:
\* a lapsed owner is an owner again, within the same hold, only through a
\* confirmation that was sent while it still was one.
NoLateRevival ==
  [][\A p \in Proc :
       /\ held[p] /\ clock >= confirmed[p] + Validity
       /\ Owned(p)' /\ acquired'[p] = acquired[p]
       => ~Lapsed(p)]_fenceVars

-----------------------------------------------------------------------------
(* The inductive invariant behind MutualExclusion                          *)

\* p believes it holds the lock, or is on its way to believing it.
Claiming(p) ==
  held[p] \/ pc[p] = "granted" \/ (pc[p] = "lock" /\ answer[p] = "yes")

\* The latest confirmed[p] can become without another answer of the server,
\* and the earliest acquired[p] can become.
Upper(p) ==
  IF pc[p] \in {"lock", "granted"} \/ (pc[p] = "confirm" /\ answer[p] = "yes")
  THEN sent[p] ELSE confirmed[p]
Lower(p) ==
  IF pc[p] = "lock" THEN clock
  ELSE IF pc[p] = "granted" THEN received[p] ELSE acquired[p]

\* p's window is over, at the latest, when q's grace is.
Precedes(p, q) == Upper(p) <= Lower(q)

Holder(p) == \E s \in Server : lock[s] = p

ReadingsArePast ==
  \A p \in Proc :
    /\ sent[p] <= clock /\ received[p] <= clock
    /\ acquired[p] <= clock /\ confirmed[p] <= clock
    /\ pc[p] = "confirm" => confirmed[p] <= sent[p]

\* A session that may take the lock sits on the primary, ...
SeekersOnPrimary ==
  \A p \in Proc :
    /\ backend[p] # NoServer
    /\ pc[p] = "lock" \/ (pc[p] = "primary" /\ answer[p] = "yes")
    => backend[p] = primary

\* ... and so does the one that has it, which knows or has given up.
HolderOnPrimary ==
  \A p \in Proc, s \in Server : lock[s] = p =>
    /\ s = primary /\ backend[p] = s
    /\ pc[p] \in {"granted", "hold", "confirm", "release", "unlock"}
       \/ (pc[p] = "lock" /\ answer[p] = "yes")

\* Of two claims one precedes the other, and the holder's comes last.
ClaimsInOrder ==
  \A p, q \in Proc : p # q /\ Claiming(p) /\ Claiming(q) =>
    /\ Precedes(p, q) \/ Precedes(q, p)
    /\ Holder(q) => Precedes(p, q)

FenceInv ==
  /\ FenceTypeOK
  /\ NotHeldOutsideHold
  /\ ReadingsArePast
  /\ SeekersOnPrimary
  /\ HolderOnPrimary
  /\ ClaimsInOrder
=============================================================================
