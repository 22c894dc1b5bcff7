----------------------------- MODULE ToolProofs -----------------------------
(***************************************************************************)
(* For any plans, keys and limits: the ledger's claims are exclusive, a    *)
(* tool is called twice for one key only when the ledger has lost what it  *)
(* knew of it, replays are true, failed plans are undone last step first,  *)
(* and no plans wait for each other for ever while the queue has its slots.*)
(***************************************************************************)
EXTENDS ToolExecution, FiniteSetTheorems, SequenceTheorems, TLAPS

\* The queue's view of a task and the dispatcher's agree.
Inside == {"admitted", "claiming", "waiting", "entering", "calling", "called",
           "returning", "releasing", "leaving"}

PlacesAgree ==
  \A t \in Task :
    /\ place[t] = "running" <=> pc[t] \in Inside
    /\ place[t] \in {"queued", "granted"} <=> pc[t] = "queued"

\* Claims and calls are counted from nothing, and there is one more to come
\* wherever the executor goes on to one.
CountsLeft ==
  \A t \in Task :
    /\ pc[t] \in {"idle", "queued", "admitted"} => round[t] = 0
    /\ pc[t] = "claiming" => round[t] < MaxRounds
    /\ pc[t] \in {"idle", "queued", "admitted", "claiming", "waiting", "entering"} => attempt[t] = 0
    /\ pc[t] = "calling" => attempt[t] < MaxAttempts

\* Whoever waits for an answer, or got a good one, called the tool.
CallersRan ==
  \A t \in Task :
    /\ pc[t] = "called" => t \in ran
    /\ outcome[t] = "ok" => t \in ran /\ pc[t] \in {"returning", "leaving", "ended"}

\* An entry that says the work was done was written by the one who did it.
DoneWasDone ==
  \A k \in Key : entry[k].state = "completed" =>
    \E u \in ran : KeyOf[u] = k /\ outcome[u] = "ok"

\* Of a key that has not been forgotten, only the claim's owner has called.
OwnerRanAlone ==
  \A k \in Key \ forgotten : entry[k].state = "inFlight" =>
    \A u \in ran : KeyOf[u] = k => u = entry[k].owner

\* The journal of a plan holds the steps that came out well; none is added once
\* the plan has ended, and what is undone is its end, last first.
JournalsAgree ==
  \A p \in Plan :
    /\ Range(journal[p]) = {t \in StepsOf(p) : outcome[t] = "ok"}
    /\ stage[p] # "running" => \A t \in StepsOf(p) : pc[t] \in {"idle", "ended"}
    /\ stage[p] \in {"running", "succeeded"} => undone[p] = <<>>
    /\ stage[p] = "failed" => Len(undone[p]) = Len(journal[p])
    /\ Len(undone[p]) <= Len(journal[p])
    /\ \A i \in 1 .. Len(undone[p]) : undone[p][i] = journal[p][Len(journal[p]) - i + 1]

\* The inductive invariant, in the parts that different steps disturb.
LedgerIInv ==
  /\ ClaimsAreExclusive /\ OrderMatches /\ RanIsRemembered
  /\ CallersRan /\ DoneWasDone /\ OwnerRanAlone
  /\ SecondRunIsExplained /\ ReplaysAreTrue
ToolIInv ==
  TypeOK /\ QueuesHoldTheWaiting /\ PlacesAgree /\ CountsLeft /\ LedgerIInv /\ JournalsAgree

----------------------------------------------------------------------------
(* The admission queue *)

LEMMA RemovedAt ==
  ASSUME NEW s \in Seq(Task), NEW i \in DOMAIN s
  PROVE  /\ RemoveAt(s, i) \in Seq(Task)
         /\ Len(RemoveAt(s, i)) = Len(s) - 1
         /\ \A j \in 1 .. Len(s) - 1 : RemoveAt(s, i)[j] = IF j < i THEN s[j] ELSE s[j + 1]
<1> DEFINE a == SubSeq(s, 1, i - 1)
           b == SubSeq(s, i + 1, Len(s))
<1>0. Len(s) \in Nat /\ i \in 1 .. Len(s) /\ \A j \in 1 .. Len(s) : s[j] \in Task
  BY LenProperties, ElementOfSeq
<1>1. /\ a \in Seq(Task) /\ Len(a) = i - 1
      /\ \A j \in 1 .. i - 1 : a[j] = s[j]
  <2>1. \A j \in 1 .. i - 1 : s[j] \in Task  BY <1>0
  <2> QED  BY <1>0, <2>1, SubSeqProperties
<1>2. /\ b \in Seq(Task) /\ Len(b) = Len(s) - i
      /\ \A j \in 1 .. Len(s) - i : b[j] = s[i + j]
  <2>1. \A j \in i + 1 .. Len(s) : s[j] \in Task  BY <1>0
  <2> QED  BY <1>0, <2>1, SubSeqProperties
<1> HIDE DEF a, b
<1>3. /\ a \o b \in Seq(Task) /\ Len(a \o b) = Len(s) - 1
      /\ \A j \in 1 .. Len(s) - 1 : (a \o b)[j] = IF j <= i - 1 THEN a[j] ELSE b[j - (i - 1)]
  <2>1. /\ a \o b \in Seq(Task) /\ Len(a \o b) = Len(a) + Len(b)
        /\ \A j \in 1 .. Len(a) + Len(b) :
             (a \o b)[j] = IF j <= Len(a) THEN a[j] ELSE b[j - Len(a)]
    BY <1>1, <1>2, ConcatProperties
  <2>2. Len(a) + Len(b) = Len(s) - 1 /\ Len(a) = i - 1  BY <1>0, <1>1, <1>2
  <2> QED  BY <2>1, <2>2
<1>4. RemoveAt(s, i) = a \o b  BY DEF RemoveAt, a, b
<1>5. ASSUME NEW j \in 1 .. Len(s) - 1
      PROVE  (a \o b)[j] = IF j < i THEN s[j] ELSE s[j + 1]
  <2>1. CASE j < i  BY <2>1, <1>0, <1>1, <1>3
  <2>2. CASE j >= i
    <3>1. j - (i - 1) \in 1 .. Len(s) - i /\ i + (j - (i - 1)) = j + 1  BY <2>2, <1>0
    <3>2. (a \o b)[j] = b[j - (i - 1)]  BY <2>2, <1>0, <1>3
    <3>3. b[j - (i - 1)] = s[i + (j - (i - 1))]  BY <3>1, <1>2
    <3>4. (a \o b)[j] = s[j + 1]  BY <3>1, <3>2, <3>3
    <3> QED  BY <3>4, <2>2, <1>0
  <2>3. j < i \/ j >= i  BY <1>0
  <2> QED  BY <2>1, <2>2, <2>3
<1> QED  BY <1>3, <1>4, <1>5

\* A queue's members are those of its places.
LEMMA InQueue ==
  ASSUME QueueTypeOK, NEW c \in Class
  PROVE  /\ Len(queues[c]) \in Nat /\ DOMAIN queues[c] = 1 .. Len(queues[c])
         /\ \A i \in 1 .. Len(queues[c]) : queues[c][i] \in Task
         /\ queues[c] = <<>> <=> Len(queues[c]) = 0
BY LenProperties, ElementOfSeq, EmptySeq DEF QueueTypeOK

QueueIInv == QueueTypeOK /\ QueuesHoldTheWaiting

LEMMA AdmitQueue ==
  ASSUME QueueIInv, NEW t \in Task, Admit(t)  PROVE QueueIInv'
BY QueueAssumption DEF QueueIInv, QueueTypeOK, QueuesHoldTheWaiting, Admit, Place, Waiting

LEMMA TakeGrantQueue ==
  ASSUME QueueIInv, NEW t \in Task, TakeGrant(t)  PROVE QueueIInv'
BY DEF QueueIInv, QueueTypeOK, QueuesHoldTheWaiting, TakeGrant, Place, Waiting

LEMMA EnqueueQueue ==
  ASSUME QueueIInv, NEW t \in Task, NEW c \in Class, Enqueue(t, c)  PROVE QueueIInv'
<1> USE DEF QueueIInv
<1>1. /\ queues'[c] = Append(queues[c], t) /\ queues' \in [Class -> Seq(Task)]
      /\ \A d \in Class \ {c} : queues'[d] = queues[d]
      /\ place' = [place EXCEPT ![t] = "queued"] /\ place[t] = "away"
      /\ inFlight >= MaxConcurrent /\ UNCHANGED <<inFlight, consecutive>>
  BY AppendProperties DEF Enqueue, QueueTypeOK
<1>2. /\ Len(queues[c]) \in Nat /\ DOMAIN queues[c] = 1 .. Len(queues[c])
      /\ DOMAIN queues'[c] = 1 .. Len(queues[c]) + 1
      /\ queues'[c][Len(queues[c]) + 1] = t
      /\ \A i \in 1 .. Len(queues[c]) : queues'[c][i] = queues[c][i]
  BY <1>1, AppendProperties, LenProperties DEF QueueTypeOK
<1>3. QueueTypeOK'  BY <1>1 DEF QueueTypeOK, Place
<1>4. \A d \in Class : t \notin Range(queues[d])
  BY <1>1 DEF QueuesHoldTheWaiting
<1>5. \A d \in Class : \A u \in Task :
        u \in Range(queues'[d]) <=> u \in Range(queues[d]) \/ (d = c /\ u = t)
  <2>1. \A u : u \in Range(queues'[c]) <=> u \in Range(queues[c]) \/ u = t
    <3> TAKE u
    <3>1. u \in Range(queues'[c]) => u \in Range(queues[c]) \/ u = t
      <4> SUFFICES ASSUME NEW j \in 1 .. Len(queues[c]) + 1, u = queues'[c][j]
                   PROVE  u \in Range(queues[c]) \/ u = t
        BY <1>2 DEF Range
      <4>1. CASE j \in 1 .. Len(queues[c])  BY <4>1, <1>2 DEF Range
      <4>2. CASE j = Len(queues[c]) + 1  BY <4>2, <1>2
      <4> QED  BY <4>1, <4>2, <1>2
    <3>2. u \in Range(queues[c]) => u \in Range(queues'[c])
      <4> SUFFICES ASSUME NEW j \in 1 .. Len(queues[c]), u = queues[c][j]
                   PROVE  u \in Range(queues'[c])
        BY <1>2 DEF Range
      <4>1. j \in DOMAIN queues'[c] /\ u = queues'[c][j]  BY <1>2
      <4> QED  BY <4>1 DEF Range
    <3>3. t \in Range(queues'[c])
      <4>1. Len(queues[c]) + 1 \in DOMAIN queues'[c]  BY <1>2
      <4> QED  BY <4>1, <1>2 DEF Range
    <3> QED  BY <3>1, <3>2, <3>3
  <2> QED  BY <1>1, <2>1
<1>6. (\A u \in Task : place[u] = "queued" <=> \E d \in Class : u \in Range(queues[d]))'
  BY <1>1, <1>5 DEF QueuesHoldTheWaiting, QueueTypeOK
<1>7. ASSUME NEW d \in Class, NEW e \in Class, NEW i \in DOMAIN queues'[d],
             NEW j \in DOMAIN queues'[e], queues'[d][i] = queues'[e][j]
      PROVE  d = e /\ i = j
  <2>1. \A f \in Class : \A k \in DOMAIN queues'[f] :
          \/ k \in DOMAIN queues[f] /\ queues'[f][k] = queues[f][k]
          \/ f = c /\ k = Len(queues[c]) + 1 /\ queues'[f][k] = t
    <3> TAKE f \in Class
    <3> TAKE k \in DOMAIN queues'[f]
    <3>1. CASE f = c  BY <3>1, <1>2
    <3>2. CASE f # c  BY <3>2, <1>1
    <3> QED  BY <3>1, <3>2
  <2>2. \A f \in Class : \A k \in DOMAIN queues[f] : queues[f][k] # t
    BY <1>4 DEF Range
  <2> QED  BY <1>7, <2>1, <2>2 DEF QueuesHoldTheWaiting
<1>8. (Waiting # {} => inFlight >= MaxConcurrent)'  BY <1>1
<1> QED  BY <1>3, <1>6, <1>7, <1>8 DEF QueuesHoldTheWaiting

LEMMA GiveUpQueue ==
  ASSUME QueueIInv, NEW t \in Task, GiveUp(t)  PROVE QueueIInv'
<1> USE DEF QueueIInv
<1>1. CASE place[t] = "granted" \/ \A c \in Class : t \notin Range(queues[c])
  <2>1. \A c \in Class : t \notin Range(queues[c])
    BY <1>1 DEF QueuesHoldTheWaiting
  <2>2. queues' = queues /\ place' = [place EXCEPT ![t] = "away"] /\ UNCHANGED <<inFlight, consecutive>>
    BY <2>1 DEF GiveUp, Range
  <2> QED  BY <2>1, <2>2 DEF QueueTypeOK, QueuesHoldTheWaiting, Place, Waiting
<1>2. CASE place[t] = "queued" /\ \E c \in Class : t \in Range(queues[c])
  <2>1. PICK c \in Class : \E i \in DOMAIN queues[c] :
               queues[c][i] = t /\ queues' = [queues EXCEPT ![c] = RemoveAt(@, i)]
    BY <1>2 DEF GiveUp
  <2>2. PICK i \in DOMAIN queues[c] :
               queues[c][i] = t /\ queues' = [queues EXCEPT ![c] = RemoveAt(@, i)]
    BY <2>1
  <2>3. place' = [place EXCEPT ![t] = "away"] /\ UNCHANGED <<inFlight, consecutive>>
    BY DEF GiveUp
  <2>4. /\ queues[c] \in Seq(Task) /\ Len(queues[c]) \in Nat
        /\ DOMAIN queues[c] = 1 .. Len(queues[c]) /\ i \in 1 .. Len(queues[c])
    BY <2>2, InQueue DEF QueueTypeOK
  <2>5. /\ queues'[c] \in Seq(Task) /\ DOMAIN queues'[c] = 1 .. Len(queues[c]) - 1
        /\ \A j \in 1 .. Len(queues[c]) - 1 :
             queues'[c][j] = IF j < i THEN queues[c][j] ELSE queues[c][j + 1]
    BY <2>2, <2>4, RemovedAt, LenProperties DEF QueueTypeOK
  <2>6. \A d \in Class \ {c} : queues'[d] = queues[d]  BY <2>2 DEF QueueTypeOK
  <2>7. QueueTypeOK'  BY <2>2, <2>3, <2>5, <2>6 DEF QueueTypeOK, Place
  <2>8. \A d \in Class : \A j \in DOMAIN queues'[d] :
          \E k \in DOMAIN queues[d] :
            /\ queues'[d][j] = queues[d][k] /\ ~(d = c /\ k = i)
            /\ k = IF d = c /\ j >= i THEN j + 1 ELSE j
    <3> TAKE d \in Class
    <3> TAKE j \in DOMAIN queues'[d]
    <3>1. CASE d # c  BY <3>1, <2>6
    <3>2. CASE d = c /\ j < i
      <4>1. j \in DOMAIN queues[d] /\ queues'[d][j] = queues[d][j] /\ j # i
        BY <3>2, <2>4, <2>5
      <4> QED  BY <4>1, <3>2, <2>4
    <3>3. CASE d = c /\ j >= i
      <4>1. j + 1 \in DOMAIN queues[d] /\ queues'[d][j] = queues[d][j + 1] /\ j + 1 # i
        BY <3>3, <2>4, <2>5
      <4> QED  BY <4>1, <3>3
    <3> QED  BY <3>1, <3>2, <3>3, <2>4, <2>5
  <2>9. \A d \in Class : \A k \in DOMAIN queues[d] : ~(d = c /\ k = i) =>
          \E j \in DOMAIN queues'[d] : queues'[d][j] = queues[d][k]
    <3> SUFFICES ASSUME NEW d \in Class, NEW k \in DOMAIN queues[d], ~(d = c /\ k = i)
                 PROVE  \E j \in DOMAIN queues'[d] : queues'[d][j] = queues[d][k]
      OBVIOUS
    <3>1. CASE d # c  BY <3>1, <2>6
    <3>2. CASE d = c /\ k < i  BY <3>2, <2>4, <2>5
    <3>3. CASE d = c /\ k > i
      <4>1. k - 1 \in DOMAIN queues'[d] /\ queues'[d][k - 1] = queues[d][k]
        BY <3>3, <2>4, <2>5
      <4> QED  BY <4>1
    <3> QED  BY <3>1, <3>2, <3>3, <2>4
  <2>10. \A u \in Task : (\E d \in Class : u \in Range(queues'[d])) <=>
            u # t /\ \E d \in Class : u \in Range(queues[d])
    <3>1. \A d \in Class : \A k \in DOMAIN queues[d] : queues[d][k] = t => d = c /\ k = i
      BY <2>2 DEF QueuesHoldTheWaiting
    <3> QED  BY <2>2, <2>8, <2>9, <3>1 DEF Range
  <2>11. (\A u \in Task : place[u] = "queued" <=> \E d \in Class : u \in Range(queues[d]))'
    BY <2>3, <2>10 DEF QueuesHoldTheWaiting, QueueTypeOK
  <2>12. ASSUME NEW d \in Class, NEW e \in Class, NEW j \in DOMAIN queues'[d],
                NEW k \in DOMAIN queues'[e], queues'[d][j] = queues'[e][k]
         PROVE  d = e /\ j = k
    <3>1. PICK x \in DOMAIN queues[d] :
            queues'[d][j] = queues[d][x] /\ x = IF d = c /\ j >= i THEN j + 1 ELSE j
      BY <2>8
    <3>2. PICK y \in DOMAIN queues[e] :
            queues'[e][k] = queues[e][y] /\ y = IF e = c /\ k >= i THEN k + 1 ELSE k
      BY <2>8
    <3>3. d = e /\ x = y
      <4>1. queues[d][x] = queues[e][y]  BY <2>12, <3>1, <3>2
      <4> QED  BY <4>1 DEF QueuesHoldTheWaiting
    <3>4. j \in Int /\ k \in Int
      BY <2>7, LenProperties DEF QueueTypeOK
    <3> QED  BY <3>1, <3>2, <3>3, <3>4, <2>4
  <2>13. (Waiting # {} => inFlight >= MaxConcurrent)'
    <3>1. ASSUME Waiting' # {}  PROVE Waiting # {}
      BY <2>2, <2>4, <1>2 DEF Waiting, Range
    <3> QED  BY <3>1, <2>3 DEF QueuesHoldTheWaiting
  <2> QED  BY <2>7, <2>11, <2>12, <2>13 DEF QueuesHoldTheWaiting
<1> QED  BY <1>1, <1>2 DEF GiveUp

LEMMA NextIsWaiting ==
  ASSUME Waiting # {}  PROVE NextClass \in Waiting
<1>1. Waiting \subseteq 0 .. 2  BY DEF Waiting, Class
<1>2. \E c \in Waiting : \A d \in Waiting : c >= d
  <2>1. CASE 2 \in Waiting  BY <2>1, <1>1
  <2>2. CASE 2 \notin Waiting /\ 1 \in Waiting  BY <2>2, <1>1
  <2>3. CASE 2 \notin Waiting /\ 1 \notin Waiting
    <3>0. PICK w \in Waiting : TRUE  OBVIOUS
    <3>1. 0 \in Waiting /\ \A d \in Waiting : d = 0  BY <3>0, <2>3, <1>1
    <3> QED  BY <3>1, <1>1
  <2> QED  BY <2>1, <2>2, <2>3
<1>3. \E c \in Waiting : \A d \in Waiting : c =< d
  <2>1. CASE 0 \in Waiting  BY <2>1, <1>1
  <2>2. CASE 0 \notin Waiting /\ 1 \in Waiting  BY <2>2, <1>1
  <2>3. CASE 0 \notin Waiting /\ 1 \notin Waiting
    <3>0. PICK w \in Waiting : TRUE  OBVIOUS
    <3>1. 2 \in Waiting /\ \A d \in Waiting : d = 2  BY <3>0, <2>3, <1>1
    <3> QED  BY <3>1, <1>1
  <2> QED  BY <2>1, <2>2, <2>3
<1> QED  BY <1>2, <1>3 DEF NextClass, Max, Min

LEMMA ReleaseQueue ==
  ASSUME QueueIInv, NEW t \in Task, Release(t)  PROVE QueueIInv'
<1> USE DEF QueueIInv
<1>1. CASE Waiting = {}
  <2>1. /\ queues' = queues /\ place' = [place EXCEPT ![t] = "away"]
        /\ inFlight' \in Nat /\ consecutive' = 0 /\ place[t] = "running" /\ Waiting' = {}
    BY <1>1 DEF Release, QueueTypeOK, Waiting
  <2> QED  BY <2>1 DEF QueueTypeOK, QueuesHoldTheWaiting, Place
<1>2. CASE Waiting # {}
  <2> DEFINE c == NextClass
             next == Head(queues[c])
  <2>1. /\ c \in Waiting /\ c \in Class /\ queues[c] # <<>>
    BY <1>2, NextIsWaiting DEF Waiting
  <2> HIDE DEF c
  <2>2. /\ place' = [place EXCEPT ![t] = "away", ![next] = "granted"]
        /\ queues' = [queues EXCEPT ![c] = Tail(@)]
        /\ consecutive' \in Nat /\ inFlight' = inFlight /\ place[t] = "running"
    BY <1>2 DEF Release, QueueTypeOK, c
  <2>3. /\ queues[c] \in Seq(Task) /\ Len(queues[c]) \in Nat \ {0}
        /\ DOMAIN queues[c] = 1 .. Len(queues[c])
        /\ next \in Task /\ next = queues[c][1]
    BY <2>1, InQueue, HeadTailProperties DEF QueueTypeOK
  <2>4. /\ queues'[c] \in Seq(Task) /\ DOMAIN queues'[c] = 1 .. Len(queues[c]) - 1
        /\ \A j \in 1 .. Len(queues[c]) - 1 : queues'[c][j] = queues[c][j + 1]
    BY <2>1, <2>2, <2>3, HeadTailProperties, LenProperties DEF QueueTypeOK
  <2>5. \A d \in Class \ {c} : queues'[d] = queues[d]  BY <2>2 DEF QueueTypeOK
  <2>6. place[next] = "queued" /\ next # t
    BY <2>1, <2>2, <2>3 DEF QueuesHoldTheWaiting, Range
  <2> HIDE DEF next
  <2>7. QueueTypeOK'  BY <2>1, <2>2, <2>3, <2>4, <2>5 DEF QueueTypeOK, Place
  <2>8. \A d \in Class : \A j \in DOMAIN queues'[d] :
          \E k \in DOMAIN queues[d] :
            /\ queues'[d][j] = queues[d][k] /\ ~(d = c /\ k = 1)
            /\ k = IF d = c THEN j + 1 ELSE j
    <3> TAKE d \in Class
    <3> TAKE j \in DOMAIN queues'[d]
    <3>1. CASE d # c  BY <3>1, <2>5
    <3>2. CASE d = c
      <4>1. j + 1 \in DOMAIN queues[d] /\ queues'[d][j] = queues[d][j + 1] /\ j + 1 # 1
        BY <3>2, <2>3, <2>4
      <4> QED  BY <4>1, <3>2
    <3> QED  BY <3>1, <3>2
  <2>9. \A d \in Class : \A k \in DOMAIN queues[d] : ~(d = c /\ k = 1) =>
          \E j \in DOMAIN queues'[d] : queues'[d][j] = queues[d][k]
    <3> SUFFICES ASSUME NEW d \in Class, NEW k \in DOMAIN queues[d], ~(d = c /\ k = 1)
                 PROVE  \E j \in DOMAIN queues'[d] : queues'[d][j] = queues[d][k]
      OBVIOUS
    <3>1. CASE d # c  BY <3>1, <2>5
    <3>2. CASE d = c
      <4>1. k - 1 \in DOMAIN queues'[d] /\ queues'[d][k - 1] = queues[d][k]
        BY <3>2, <2>3, <2>4
      <4> QED  BY <4>1
    <3> QED  BY <3>1, <3>2
  <2>10. \A u \in Task : (\E d \in Class : u \in Range(queues'[d])) <=>
            u # next /\ \E d \in Class : u \in Range(queues[d])
    <3>1. \A d \in Class : \A k \in DOMAIN queues[d] : queues[d][k] = next => d = c /\ k = 1
      BY <2>1, <2>3 DEF QueuesHoldTheWaiting
    <3> QED  BY <2>1, <2>3, <2>8, <2>9, <3>1 DEF Range
  <2>11. (\A u \in Task : place[u] = "queued" <=> \E d \in Class : u \in Range(queues[d]))'
    BY <2>2, <2>3, <2>6, <2>10 DEF QueuesHoldTheWaiting, QueueTypeOK
  <2>12. ASSUME NEW d \in Class, NEW e \in Class, NEW j \in DOMAIN queues'[d],
                NEW k \in DOMAIN queues'[e], queues'[d][j] = queues'[e][k]
         PROVE  d = e /\ j = k
    <3>1. PICK x \in DOMAIN queues[d] :
            queues'[d][j] = queues[d][x] /\ x = IF d = c THEN j + 1 ELSE j
      BY <2>8
    <3>2. PICK y \in DOMAIN queues[e] :
            queues'[e][k] = queues[e][y] /\ y = IF e = c THEN k + 1 ELSE k
      BY <2>8
    <3>3. d = e /\ x = y
      <4>1. queues[d][x] = queues[e][y]  BY <2>12, <3>1, <3>2
      <4> QED  BY <4>1 DEF QueuesHoldTheWaiting
    <3>4. j \in Int /\ k \in Int
      BY <2>7, LenProperties DEF QueueTypeOK
    <3> QED  BY <3>1, <3>2, <3>3, <3>4
  <2>13. (Waiting # {} => inFlight >= MaxConcurrent)'
    BY <1>2, <2>2 DEF QueuesHoldTheWaiting
  <2> QED  BY <2>7, <2>11, <2>12, <2>13 DEF QueuesHoldTheWaiting
<1> QED  BY <1>1, <1>2

----------------------------------------------------------------------------
(* Types, places and counts *)

LEMMA QueueStep ==
  ASSUME QueueIInv, [Next]_vars  PROVE QueueIInv'
<1>0. ASSUME UNCHANGED queueVars  PROVE QueueIInv'
  BY <1>0 DEF QueueIInv, queueVars, QueueTypeOK, QueuesHoldTheWaiting, Waiting
<1>1. ASSUME NEW t \in Task, Acquire(t)  PROVE QueueIInv'
  <2>1. ClassOf[t] \in Class  BY ToolAssumption
  <2>2. CASE Admit(t)  BY <2>2, AdmitQueue
  <2>3. CASE Enqueue(t, ClassOf[t])  BY <2>1, <2>3, EnqueueQueue
  <2>4. CASE Shed(t, ClassOf[t])  BY <2>4, <1>0 DEF Shed
  <2> QED  BY <1>1, <2>2, <2>3, <2>4 DEF Acquire
<1>2. ASSUME NEW t \in Task, Progress(t) \/ Refusal(t)  PROVE QueueIInv'
  <2>1. CASE Acquire(t)  BY <2>1, <1>1
  <2>2. CASE Granted(t)  BY <2>2, TakeGrantQueue DEF Granted
  <2>3. CASE Leaves(t)  BY <2>3, GiveUpQueue DEF Leaves
  <2>4. CASE Leave(t)  BY <2>4, ReleaseQueue DEF Leave
  <2>5. CASE ~(Acquire(t) \/ Granted(t) \/ Leaves(t) \/ Leave(t))
    <3>1. UNCHANGED queueVars
      BY <1>2, <2>5 DEF Progress, Refusal, Claim, Await, StopsWaiting, Enter, Call, Answer,
           Retry, CallFails, ReturnLease, ReleaseClaim, Unbound, Refuse, NotDispatchable,
           BadAnswer, Stop
    <3> QED  BY <3>1, <1>0
  <2> QED  BY <2>1, <2>2, <2>3, <2>4, <2>5
<1>3. CASE ~(\E t \in Task : Progress(t) \/ Refusal(t))
  <2>1. UNCHANGED queueVars
    BY <1>3 DEF Next, EndContext, RunPlan, Finish, Undo, RolledBack, Expire, Sweep, vars
  <2> QED  BY <2>1, <1>0
<1> QED  BY <1>2, <1>3

\* Whoever releases leaves, and at most one waiter is picked.
LEMMA ReleasePlaces ==
  ASSUME QueueIInv, NEW t \in Task, Release(t)
  PROVE  /\ place'[t] = "away"
         /\ \A u \in Task \ {t} : place'[u] = place[u]
              \/ (place[u] = "queued" /\ place'[u] = "granted")
<1>1. CASE Waiting = {}  BY <1>1 DEF Release, QueueIInv, QueueTypeOK
<1>2. CASE Waiting # {}
  <2> DEFINE next == Head(queues[NextClass])
  <2>1. /\ NextClass \in Class /\ queues[NextClass] # <<>>
        /\ queues[NextClass] \in Seq(Task)
    BY <1>2, NextIsWaiting DEF Waiting, QueueIInv, QueueTypeOK
  <2>2. next \in Task /\ next \in Range(queues[NextClass])
    BY <2>1, HeadTailProperties, LenProperties, EmptySeq DEF Range
  <2>3. place[next] = "queued"
    BY <2>1, <2>2 DEF QueueIInv, QueuesHoldTheWaiting
  <2>4. place' = [place EXCEPT ![t] = "away", ![next] = "granted"] /\ place[t] = "running"
    BY <1>2 DEF Release
  <2> HIDE DEF next
  <2> QED  BY <2>2, <2>3, <2>4 DEF QueueIInv, QueueTypeOK
<1> QED  BY <1>1, <1>2

LEMMA Limits ==
  /\ MaxEntries \in Nat /\ MaxSlots \in Nat
  /\ MaxAttempts \in Nat /\ MaxAttempts > 0 /\ MaxRounds \in Nat /\ MaxRounds > 0
  /\ \A t \in Task : KeyOf[t] \in Key /\ PlanOf[t] \in Plan
BY ToolAssumption

EntryType == [state : {"none", "inFlight", "completed", "failed"}, owner : Task \cup {None}]

LedgerTypeOK ==
  /\ entry \in [Key -> EntryType]
  /\ order \subseteq Key \X Key /\ expired \subseteq Key /\ forgotten \subseteq Key

LEMMA DropTypes ==
  ASSUME LedgerTypeOK, NEW gone \in SUBSET Key, Drop(gone)  PROVE LedgerTypeOK'
BY DEF LedgerTypeOK, Drop, Without, NoEntry, EntryType

LEMMA WriteTypes ==
  ASSUME LedgerTypeOK, NEW k \in Key, NEW t \in Task, NEW gone \in SUBSET Key,
         Write(k, [state |-> "inFlight", owner |-> t], gone)
  PROVE  LedgerTypeOK'
<1>1. entry' \in [Key -> EntryType]
  BY DEF LedgerTypeOK, Write, NoEntry, EntryType
<1>2. order' \subseteq Key \X Key
  BY DEF LedgerTypeOK, Write, Behind, Without, Queued
<1> QED  BY <1>1, <1>2 DEF LedgerTypeOK, Write

LEMMA SettleTypes ==
  ASSUME LedgerTypeOK, NEW k \in Key, NEW s \in {"completed", "failed"}, Settle(k, s)
  PROVE  LedgerTypeOK'
BY DEF LedgerTypeOK, Settle, EntryType

LEMMA GoneAreKeys ==
  /\ StaleHead \in SUBSET Key
  /\ StaleHead \cup Overflow(Queued \ StaleHead) \in SUBSET Key
BY DEF StaleHead, Overflow, Queued

LEMMA LedgerTypesStep ==
  ASSUME TypeOK, [Next]_vars  PROVE LedgerTypeOK'
<1>0. LedgerTypeOK  BY DEF TypeOK, LedgerTypeOK, EntryType
<1>1. ASSUME UNCHANGED ledgerVars  PROVE LedgerTypeOK'
  BY <1>0, <1>1 DEF LedgerTypeOK, ledgerVars
<1>2. ASSUME NEW t \in Task, NEW how, NEW filed, Return(t, how, filed)  PROVE LedgerTypeOK'
  BY <1>0, <1>1, <1>2, SettleTypes, Limits DEF Return
<1>3. ASSUME NEW t \in Task, Progress(t)  PROVE LedgerTypeOK'
  <2>1. CASE Claim(t)
    <3>1. CASE Drop(StaleHead)  BY <3>1, <1>0, DropTypes, GoneAreKeys
    <3>2. CASE Write(KeyOf[t], [state |-> "inFlight", owner |-> t],
                     StaleHead \cup Overflow(Queued \ StaleHead))
      BY <3>2, <1>0, WriteTypes, GoneAreKeys, Limits
    <3> QED  BY <2>1, <3>1, <3>2 DEF Claim
  <2>2. CASE Answer(t)  BY <2>2, <1>0, SettleTypes, Limits DEF Answer
  <2>3. CASE \E how \in Error : CallFails(t, how)  BY <2>3, <1>2 DEF CallFails
  <2>4. CASE ReleaseClaim(t)
    <3>1. {KeyOf[t]} \in SUBSET Key  BY Limits
    <3> QED  BY <2>4, <3>1, <1>0, <1>1, DropTypes DEF ReleaseClaim
  <2>5. CASE ~(Claim(t) \/ Answer(t) \/ (\E how \in Error : CallFails(t, how)) \/ ReleaseClaim(t))
    <3>1. UNCHANGED ledgerVars
      BY <1>3, <2>5 DEF Progress, Acquire, Granted, Leaves, Leave, Await, StopsWaiting, Enter,
           Call, Retry, ReturnLease
    <3> QED  BY <3>1, <1>1
  <2> QED  BY <2>1, <2>2, <2>3, <2>4, <2>5
<1>4. ASSUME NEW t \in Task, Refusal(t)  PROVE LedgerTypeOK'
  <2>1. CASE Unbound(t) \/ Refuse(t)  BY <2>1, <1>1 DEF Unbound, Refuse
  <2>2. CASE NotDispatchable(t)  BY <2>2, <1>2 DEF NotDispatchable
  <2>3. CASE BadAnswer(t)  BY <2>3, <1>2 DEF BadAnswer
  <2>4. CASE \E how \in Error : Stop(t, how)  BY <2>4, <1>2 DEF Stop
  <2> QED  BY <1>4, <2>1, <2>2, <2>3, <2>4 DEF Refusal
<1>5. CASE Expire
  BY <1>5, <1>0 DEF Expire, LedgerTypeOK, Queued
<1>6. CASE Sweep
  <2>1. {k \in expired : Settled(k)} \in SUBSET Key  BY <1>0 DEF LedgerTypeOK
  <2> QED  BY <1>6, <2>1, <1>0, DropTypes DEF Sweep
<1>7. ASSUME NEW p \in Plan, EndContext(p) \/ RunPlan(p)  PROVE LedgerTypeOK'
  BY <1>7, <1>1 DEF EndContext, RunPlan, Finish, Undo, RolledBack
<1>8. CASE UNCHANGED vars  BY <1>8, <1>1 DEF vars
<1> QED  BY <1>3, <1>4, <1>5, <1>6, <1>7, <1>8 DEF Next

StepTypeOK ==
  /\ leases \subseteq Task /\ ran \subseteq Task
  /\ pc \in [Task -> {"idle", "queued", "admitted", "claiming", "waiting", "entering",
                     "calling", "called", "returning", "releasing", "leaving", "ended"}]
  /\ round \in [Task -> 0 .. MaxRounds] /\ holder \in [Task -> Task \cup {None}]
  /\ attempt \in [Task -> 0 .. MaxAttempts]
  /\ phase \in [Task -> {"none", "invoke", "output"}]
  /\ outcome \in [Task -> {"none", "ok", "replayed", "failed", "stopped"}]

PlanTypeOK ==
  /\ stage \in [Plan -> {"running", "rolling", "succeeded", "failed"}] /\ ended \subseteq Plan
  /\ journal \in [Plan -> Seq(Task)]
  /\ undone \in [Plan -> Seq(Task)]

LEMMA TypeParts ==
  /\ TypeOK <=> QueueTypeOK /\ LedgerTypeOK /\ StepTypeOK /\ PlanTypeOK
  /\ TypeOK' <=> QueueTypeOK' /\ LedgerTypeOK' /\ StepTypeOK' /\ PlanTypeOK'
BY DEF TypeOK, LedgerTypeOK, StepTypeOK, PlanTypeOK, EntryType

\* What an execution does, by the place it comes to.
StepIInv == StepTypeOK /\ PlacesAgree /\ CountsLeft

LEMMA ProgressPlaces ==
  ASSUME TypeOK, QueueIInv, StepIInv, NEW t \in Task, Progress(t)  PROVE StepIInv'
<1>0. /\ StepTypeOK /\ place \in [Task -> Place]
      /\ entry \in [Key -> EntryType]
  BY TypeParts DEF QueueTypeOK, LedgerTypeOK
<1> USE <1>0, Limits DEF StepIInv, StepTypeOK, PlacesAgree, CountsLeft, Inside, Place, Error
<1>1. CASE Acquire(t)
  <2>1. CASE Admit(t) /\ pc' = [pc EXCEPT ![t] = "admitted"] /\ UNCHANGED outcome
    BY <1>1, <2>1 DEF Acquire, Startable, Admit
  <2>2. CASE Enqueue(t, ClassOf[t]) /\ pc' = [pc EXCEPT ![t] = "queued"] /\ UNCHANGED outcome
    BY <1>1, <2>2 DEF Acquire, Startable, Enqueue
  <2>3. CASE Shed(t, ClassOf[t]) /\ pc' = [pc EXCEPT ![t] = "ended"] /\ End(t, "failed")
    BY <1>1, <2>3 DEF Acquire, Startable, Shed, End, queueVars
  <2> QED  BY <1>1, <2>1, <2>2, <2>3 DEF Acquire
<1>2. CASE Granted(t)  BY <1>2 DEF Granted, TakeGrant, At, stepVars
<1>3. CASE Leaves(t)  BY <1>3 DEF Leaves, GiveUp, At, End
<1>4. CASE Leave(t)
  <2>1. /\ place'[t] = "away"
        /\ \A u \in Task \ {t} : place'[u] = place[u]
             \/ (place[u] = "queued" /\ place'[u] = "granted")
    BY <1>4, ReleasePlaces DEF Leave
  <2>2. PlacesAgree'  BY <1>4, <2>1 DEF Leave, At
  <2> QED  BY <1>4, <2>2 DEF Leave, At
<1>5. CASE Claim(t)
  <2>1. round'[t] \in 1 .. MaxRounds  BY <1>5 DEF Claim
  <2>2. entry[KeyOf[t]].owner \in Task \cup {None}  BY DEF EntryType
  <2> QED  BY <1>5, <2>1, <2>2 DEF Claim, End, queueVars
<1>6. CASE Await(t)  BY <1>6 DEF Await, End, queueVars
<1>7. CASE StopsWaiting(t)  BY <1>7 DEF StopsWaiting, At, End, queueVars
<1>8. CASE Enter(t)  BY <1>8 DEF Enter, At, End, queueVars
<1>9. CASE Call(t)  BY <1>9 DEF Call, At, queueVars
<1>10. CASE Answer(t)  BY <1>10 DEF Answer, At, End, queueVars
<1>11. CASE Retry(t)  BY <1>11 DEF Retry, At, queueVars
<1>12. ASSUME NEW how \in Error, CallFails(t, how)  PROVE StepIInv'
  BY <1>12 DEF CallFails, Return, End, queueVars
<1>13. CASE ReturnLease(t)  BY <1>13 DEF ReturnLease, At, queueVars, stepVars
<1>14. CASE ReleaseClaim(t)  BY <1>14 DEF ReleaseClaim, At, queueVars, stepVars
<1> QED
  BY <1>1, <1>2, <1>3, <1>4, <1>5, <1>6, <1>7, <1>8, <1>9, <1>10, <1>11, <1>12, <1>13, <1>14
  DEF Progress

LEMMA RefusalPlaces ==
  ASSUME TypeOK, QueueIInv, StepIInv, NEW t \in Task, Refusal(t)  PROVE StepIInv'
<1>0. StepTypeOK /\ place \in [Task -> Place]
  BY TypeParts DEF QueueTypeOK
<1> USE <1>0, Limits DEF StepIInv, StepTypeOK, PlacesAgree, CountsLeft, Inside, Place, Error,
        End, queueVars
<1>1. CASE Unbound(t)  BY <1>1 DEF Unbound, Startable
<1>2. CASE Refuse(t)  BY <1>2 DEF Refuse, At
<1>3. CASE NotDispatchable(t)
  <2>1. attempt'[t] \in 0 .. MaxAttempts  BY <1>3 DEF NotDispatchable
  <2> QED  BY <1>3, <2>1 DEF NotDispatchable, Return
<1>4. CASE BadAnswer(t)  BY <1>4 DEF BadAnswer, Return
<1>5. ASSUME NEW how \in Error, Stop(t, how)  PROVE StepIInv'
  BY <1>5 DEF Stop, Return
<1> QED  BY <1>1, <1>2, <1>3, <1>4, <1>5 DEF Refusal

LEMMA StepsStep ==
  ASSUME TypeOK, QueueIInv, StepIInv, [Next]_vars  PROVE StepIInv'
<1>1. ASSUME NEW t \in Task, Progress(t) \/ Refusal(t)  PROVE StepIInv'
  BY <1>1, ProgressPlaces, RefusalPlaces
<1>2. CASE ~(\E t \in Task : Progress(t) \/ Refusal(t))
  <2>1. UNCHANGED <<pc, place, stepVars, leases, ran>>
    BY <1>2 DEF Next, EndContext, RunPlan, Finish, Undo, RolledBack, Expire, Sweep, vars,
         queueVars, stepVars
  <2> QED  BY <2>1 DEF StepIInv, StepTypeOK, PlacesAgree, CountsLeft, stepVars
<1> QED  BY <1>1, <1>2

LEMMA PlanTypesStep ==
  ASSUME TypeOK, [Next]_vars  PROVE PlanTypeOK'
<1>0. PlanTypeOK  BY TypeParts
<1>1. ASSUME UNCHANGED planVars  PROVE PlanTypeOK'
  BY <1>0, <1>1 DEF PlanTypeOK, planVars
<1>2. ASSUME NEW t \in Task, Answer(t)  PROVE PlanTypeOK'
  BY <1>0, <1>2, AppendProperties, Limits DEF PlanTypeOK, Answer
<1>3. ASSUME NEW t \in Task, Progress(t) \/ Refusal(t), ~Answer(t)  PROVE PlanTypeOK'
  <2>1. UNCHANGED planVars
    BY <1>3 DEF Progress, Refusal, Acquire, Granted, Leaves, Leave, Claim, Await,
         StopsWaiting, Enter, Call, Retry, CallFails, ReturnLease, ReleaseClaim, Unbound,
         Refuse, NotDispatchable, BadAnswer, Stop
  <2> QED  BY <2>1, <1>1
<1>4. ASSUME NEW p \in Plan, EndContext(p)  PROVE PlanTypeOK'
  BY <1>0, <1>4, ToolAssumption DEF EndContext, PlanTypeOK
<1>5. ASSUME NEW p \in Plan, Finish(p) \/ RolledBack(p)  PROVE PlanTypeOK'
  BY <1>0, <1>5 DEF Finish, RolledBack, PlanTypeOK
<1>6. ASSUME NEW p \in Plan, Undo(p)  PROVE PlanTypeOK'
  <2>1. /\ Len(journal[p]) \in Nat /\ Len(undone[p]) \in Nat
        /\ undone[p] \in Seq(Task) /\ journal[p] \in Seq(Task)
    BY <1>0, LenProperties DEF PlanTypeOK
  <2>2. Len(journal[p]) - Len(undone[p]) \in 1 .. Len(journal[p])
    <3>1. Len(journal[p]) - Len(undone[p]) > 0  BY <1>6 DEF Undo
    <3>2. \A m, n \in Nat : m - n > 0 => m - n \in 1 .. m  OBVIOUS
    <3> QED  BY <2>1, <3>1, <3>2
  <2>3. journal[p][Len(journal[p]) - Len(undone[p])] \in Task
    BY <2>1, <2>2, ElementOfSeq
  <2> QED  BY <1>0, <1>6, <2>1, <2>3, AppendProperties DEF Undo, PlanTypeOK
<1>7. CASE Expire \/ Sweep \/ UNCHANGED vars
  BY <1>7, <1>1 DEF Expire, Sweep, vars
<1> QED  BY <1>2, <1>3, <1>4, <1>5, <1>6, <1>7 DEF Next, RunPlan

LEMMA TypeStep ==
  ASSUME TypeOK, QueueIInv, StepIInv, [Next]_vars  PROVE TypeOK'
BY QueueStep, LedgerTypesStep, StepsStep, PlanTypesStep, TypeParts DEF QueueIInv, StepIInv

----------------------------------------------------------------------------
(* The ledger's queue *)

LEMMA DropOrder ==
  ASSUME LedgerTypeOK, OrderMatches, NEW gone \in SUBSET Key, Drop(gone)
  PROVE  OrderMatches'
<1>1. Queued' = Queued \ gone  BY DEF Drop, Without, Queued
<1>2. \A j, k \in Queued' : <<j, k>> \in order' <=> <<j, k>> \in order
  BY <1>1 DEF Drop, Without
<1>3. order' \subseteq Queued' \X Queued'
  BY <1>1 DEF Drop, Without, OrderMatches
<1>4. Queued' = {k \in Key : entry'[k] # NoEntry}
  BY <1>1 DEF Drop, OrderMatches, LedgerTypeOK
<1>5. expired' = expired \ gone  BY DEF Drop
<1> QED  BY <1>1, <1>2, <1>3, <1>4, <1>5 DEF OrderMatches

LEMMA WriteOrder ==
  ASSUME LedgerTypeOK, OrderMatches, NEW k \in Key, NEW t \in Task, NEW gone \in SUBSET Key,
         entry[k] = NoEntry \/ k \in gone,
         Write(k, [state |-> "inFlight", owner |-> t], gone)
  PROVE  OrderMatches'
<1>1. order' = Without(gone) \cup (((Queued \ gone) \cup {k}) \X {k})
  BY DEF Write, Behind
<1>2. k \notin Queued \ gone  BY DEF OrderMatches
<1>3. Queued' = (Queued \ gone) \cup {k}
  <2>1. \A j \in Key : <<j, j>> \in order' <=> (j \in Queued \ gone) \/ j = k
    BY <1>1 DEF Without, Queued
  <2> QED  BY <2>1 DEF Queued
<1>4. \A i, j \in Queued \ gone : <<i, j>> \in order' <=> <<i, j>> \in order
  BY <1>1, <1>2 DEF Without
<1>5. \A i \in Queued' : <<i, k>> \in order'  BY <1>1, <1>3
<1>6. \A i \in Queued \ gone : <<k, i>> \notin order'
  BY <1>1, <1>2 DEF Without, OrderMatches
<1>7. order' \subseteq Queued' \X Queued'
  BY <1>1, <1>3 DEF Without, OrderMatches
<1>8. Queued' = {j \in Key : entry'[j] # NoEntry}
  <2>1. \A j \in Key : entry'[j] # NoEntry <=> (j \in Queued \ gone) \/ j = k
    BY DEF Write, OrderMatches, NoEntry
  <2> QED  BY <2>1, <1>3 DEF Queued
<1>9. expired' = expired \ (gone \cup {k})  BY DEF Write
<1>10. ASSUME NEW i \in Queued', NEW j \in Queued'
       PROVE  /\ <<i, j>> \in order' \/ <<j, i>> \in order'
              /\ <<i, j>> \in order' /\ <<j, i>> \in order' => i = j
              /\ <<i, j>> \in order' /\ j \in expired' => i \in expired'
  <2>1. CASE i = k \/ j = k  BY <2>1, <1>3, <1>5, <1>6, <1>9
  <2>2. CASE i # k /\ j # k  BY <2>2, <1>3, <1>4, <1>9 DEF OrderMatches
  <2> QED  BY <2>1, <2>2
<1>11. ASSUME NEW h \in Queued', NEW i \in Queued', NEW j \in Queued',
              <<h, i>> \in order', <<i, j>> \in order'
       PROVE  <<h, j>> \in order'
  <2>1. CASE j = k  BY <2>1, <1>5
  <2>2. CASE j # k
    <3>1. h # k /\ i # k  BY <2>2, <1>3, <1>6, <1>11
    <3> QED  BY <2>2, <3>1, <1>3, <1>4, <1>11 DEF OrderMatches
  <2> QED  BY <2>1, <2>2
<1>12. expired' \subseteq Queued'  BY <1>3, <1>9 DEF OrderMatches
<1>13. \A i, j \in Queued' :
          /\ <<i, j>> \in order' \/ <<j, i>> \in order'
          /\ <<i, j>> \in order' /\ <<j, i>> \in order' => i = j
          /\ \A h \in Queued' : <<h, i>> \in order' /\ <<i, j>> \in order' => <<h, j>> \in order'
  BY <1>10, <1>11
<1>14. \A i, j \in Queued' : <<i, j>> \in order' /\ j \in expired' => i \in expired'
  BY <1>10
<1> QED  BY <1>7, <1>8, <1>12, <1>13, <1>14 DEF OrderMatches

\* A settled entry is an entry like the one in flight before it.
LEMMA Settling ==
  ASSUME LedgerTypeOK, NEW k \in Key, NEW s \in {"completed", "failed"}, Settle(k, s)
  PROVE  /\ \A j \in Key \ {k} : entry'[j] = entry[j]
         /\ entry'[k] = IF entry[k].state = "inFlight"
                        THEN [state |-> s, owner |-> entry[k].owner] ELSE entry[k]
         /\ entry'[k].state = (IF entry[k].state = "inFlight" THEN s ELSE entry[k].state)
         /\ \A j \in Key : entry'[j] = NoEntry <=> entry[j] = NoEntry
         /\ UNCHANGED <<order, expired, forgotten>>
<1>1. entry[k] \in EntryType  BY DEF LedgerTypeOK
<1>2. entry' = [entry EXCEPT ![k] = [entry[k] EXCEPT !.state = IF @ = "inFlight" THEN s ELSE @]]
  BY DEF Settle
<1>3. entry'[k] = [entry[k] EXCEPT !.state = IF @ = "inFlight" THEN s ELSE @]
  BY <1>2 DEF LedgerTypeOK
<1>4. entry'[k] = [state |-> IF entry[k].state = "inFlight" THEN s ELSE entry[k].state,
                   owner |-> entry[k].owner]
  BY <1>1, <1>3 DEF EntryType
<1>5. entry[k] = [state |-> entry[k].state, owner |-> entry[k].owner]
  BY <1>1 DEF EntryType
<1>6. \A j \in Key \ {k} : entry'[j] = entry[j]  BY <1>2 DEF LedgerTypeOK
<1>7. entry'[k] = NoEntry <=> entry[k] = NoEntry
  BY <1>4, <1>5 DEF NoEntry
<1> QED  BY <1>4, <1>5, <1>6, <1>7 DEF Settle

LEMMA SettleOrder ==
  ASSUME LedgerTypeOK, OrderMatches, NEW k \in Key, NEW s \in {"completed", "failed"},
         Settle(k, s)
  PROVE  OrderMatches'
<1>1. (\A j \in Key : entry'[j] = NoEntry <=> entry[j] = NoEntry) /\ UNCHANGED <<order, expired>>
  BY Settling
<1>2. Queued' = Queued  BY <1>1 DEF Queued
<1>3. Queued' = {j \in Key : entry'[j] # NoEntry}  BY <1>1, <1>2 DEF OrderMatches
<1> QED  BY <1>1, <1>2, <1>3 DEF OrderMatches

LEMMA ExpireOrder ==
  ASSUME LedgerTypeOK, OrderMatches, Expire  PROVE OrderMatches'
<1>1. PICK k \in Queued \ expired :
        /\ \A j \in Key \ {k} : <<j, k>> \in order => j \in expired
        /\ expired' = expired \cup {k}
  BY DEF Expire
<1>2. UNCHANGED <<entry, order>> /\ Queued' = Queued  BY DEF Expire, Queued
<1>3. Queued \subseteq Key  BY DEF Queued
<1>4. \A i, j \in Queued : <<i, j>> \in order /\ j \in expired' => i \in expired'
  BY <1>1, <1>3 DEF OrderMatches
<1>5. expired' \subseteq Queued  BY <1>1 DEF OrderMatches
<1>6. Queued' = {j \in Key : entry'[j] # NoEntry}  BY <1>2 DEF OrderMatches
<1> QED  BY <1>2, <1>4, <1>5, <1>6 DEF OrderMatches

----------------------------------------------------------------------------
(* Claims *)

\* A step that drops settled entries at most, calls no tool and lets every
\* claim be: good outcomes stay, and a replay found one.
LEMMA LedgerKept ==
  ASSUME LedgerTypeOK, StepTypeOK, LedgerIInv, NEW gone \in SUBSET Key,
         \A k \in gone : entry[k].state # "inFlight",
         \A k \in Key : entry'[k] = IF k \in gone THEN NoEntry ELSE entry[k],
         forgotten' = forgotten \cup {k \in gone : Called(k)},
         ran' = ran, OrderMatches', CallersRan',
         \A t \in Task : HoldsClaim(t)' <=> HoldsClaim(t),
         \A t \in Task : outcome[t] = "ok" => outcome'[t] = "ok",
         \A t \in Task : outcome'[t] = "replayed" =>
           outcome[t] = "replayed" \/ entry[KeyOf[t]].state = "completed"
  PROVE  LedgerIInv'
<1> USE DEF LedgerIInv
<1>0. ran \subseteq Task /\ \A t \in Task : KeyOf[t] \in Key
  BY Limits DEF StepTypeOK
<1>1. /\ NoEntry.state = "none"
      /\ \A k \in Key : entry'[k].state \in {"inFlight", "completed"} => entry'[k] = entry[k]
  BY DEF NoEntry
<1>2. ClaimsAreExclusive'
  <2>1. ASSUME NEW t \in Task, HoldsClaim(t)
        PROVE  entry'[KeyOf[t]] = [state |-> "inFlight", owner |-> t]
    <3>1. entry[KeyOf[t]] = [state |-> "inFlight", owner |-> t]
      BY <2>1 DEF ClaimsAreExclusive
    <3>2. KeyOf[t] \notin gone  BY <3>1
    <3> QED  BY <1>0, <3>1, <3>2
  <2>2. ASSUME NEW k \in Key, entry'[k].state = "inFlight"
        PROVE  \E t \in Task : entry'[k].owner = t /\ HoldsClaim(t)' /\ KeyOf[t] = k
    <3>1. entry'[k] = entry[k]  BY <2>2, <1>1
    <3>2. \E t \in Task : entry[k].owner = t /\ HoldsClaim(t) /\ KeyOf[t] = k
      BY <2>2, <3>1 DEF ClaimsAreExclusive
    <3> QED  BY <3>1, <3>2
  <2> QED  BY <2>1, <2>2 DEF ClaimsAreExclusive
<1>3. RanIsRemembered'
  <2> SUFFICES ASSUME NEW t \in ran, KeyOf[t] \notin forgotten'
               PROVE  entry'[KeyOf[t]] # NoEntry
    BY DEF RanIsRemembered
  <2>1. KeyOf[t] \notin forgotten /\ entry[KeyOf[t]] # NoEntry  BY DEF RanIsRemembered
  <2>2. Called(KeyOf[t])  BY DEF Called
  <2>3. KeyOf[t] \notin gone  BY <2>2
  <2> QED  BY <1>0, <2>1, <2>3
<1>4. DoneWasDone'  BY <1>0, <1>1 DEF DoneWasDone
<1>5. OwnerRanAlone'  BY <1>0, <1>1 DEF OwnerRanAlone
<1>6. SecondRunIsExplained'  BY DEF SecondRunIsExplained
<1>7. ReplaysAreTrue'
  <2> SUFFICES ASSUME NEW t \in Task, outcome'[t] = "replayed"
               PROVE  \E u \in ran : KeyOf[u] = KeyOf[t] /\ outcome'[u] = "ok"
    BY DEF ReplaysAreTrue
  <2>1. \E u \in ran : KeyOf[u] = KeyOf[t] /\ outcome[u] = "ok"
    BY <1>0 DEF ReplaysAreTrue, DoneWasDone
  <2> QED  BY <2>1, <1>0
<1> QED  BY <1>2, <1>3, <1>4, <1>5, <1>6, <1>7

\* A step that leaves the ledger alone.
LEMMA LedgerAlone ==
  ASSUME LedgerTypeOK, StepTypeOK, LedgerIInv, UNCHANGED <<ledgerVars, ran>>, CallersRan',
         \A t \in Task : HoldsClaim(t)' <=> HoldsClaim(t),
         \A t \in Task : outcome[t] = "ok" => outcome'[t] = "ok",
         \A t \in Task : outcome'[t] = "replayed" =>
           outcome[t] = "replayed" \/ entry[KeyOf[t]].state = "completed"
  PROVE  LedgerIInv'
<1>1. OrderMatches'
  BY DEF LedgerIInv, OrderMatches, Queued, ledgerVars
<1> DEFINE gone == {}
<1>2. forgotten' = forgotten \cup {k \in gone : Called(k)}  BY DEF ledgerVars
<1>3. \A k \in Key : entry'[k] = IF k \in gone THEN NoEntry ELSE entry[k]  BY DEF ledgerVars
<1>4. gone \in SUBSET Key /\ \A k \in gone : entry[k].state # "inFlight"  OBVIOUS
<1>5. ran' = ran  OBVIOUS
<1> HIDE DEF gone
<1> QED  BY <1>1, <1>2, <1>3, <1>4, <1>5, LedgerKept

\* A step that drops settled entries.
LEMMA LedgerDropped ==
  ASSUME LedgerTypeOK, StepTypeOK, LedgerIInv, NEW gone \in SUBSET Key,
         \A k \in gone : Settled(k), Drop(gone), ran' = ran, CallersRan',
         \A t \in Task : HoldsClaim(t)' <=> HoldsClaim(t),
         \A t \in Task : outcome[t] = "ok" => outcome'[t] = "ok",
         \A t \in Task : outcome'[t] = "replayed" =>
           outcome[t] = "replayed" \/ entry[KeyOf[t]].state = "completed"
  PROVE  LedgerIInv'
<1>1. OrderMatches'  BY DropOrder DEF LedgerIInv
<1>2. \A k \in gone : entry[k].state # "inFlight"  BY DEF Settled
<1>3. /\ \A k \in Key : entry'[k] = IF k \in gone THEN NoEntry ELSE entry[k]
      /\ forgotten' = forgotten \cup {k \in gone : Called(k)}
  BY DEF Drop
<1> QED  BY <1>1, <1>2, <1>3, LedgerKept

\* A step that settles the claim it holds: as done only by the one who did it.
LEMMA LedgerSettled ==
  ASSUME LedgerTypeOK, StepTypeOK, LedgerIInv, NEW t \in Task, HoldsClaim(t),
         NEW s \in {"completed", "failed"}, Settle(KeyOf[t], s), ran' = ran, CallersRan',
         ~HoldsClaim(t)',
         \A u \in Task \ {t} : HoldsClaim(u)' <=> HoldsClaim(u),
         \A u \in Task : outcome[u] = "ok" => outcome'[u] = "ok",
         \A u \in Task : outcome'[u] = "replayed" => outcome[u] = "replayed",
         s = "completed" => t \in ran /\ outcome'[t] = "ok"
  PROVE  LedgerIInv'
<1> USE DEF LedgerIInv
<1> DEFINE k == KeyOf[t]
<1>0. ran \subseteq Task /\ k \in Key /\ \A u \in Task : KeyOf[u] \in Key
  BY Limits DEF StepTypeOK
<1>1. entry[k] = [state |-> "inFlight", owner |-> t]  BY DEF ClaimsAreExclusive
<1> HIDE DEF k
<1>2. /\ \A j \in Key \ {k} : entry'[j] = entry[j]
      /\ entry'[k].state = s
      /\ \A j \in Key : entry'[j] = NoEntry <=> entry[j] = NoEntry
      /\ UNCHANGED <<order, expired, forgotten>>
  <2>1. Settle(k, s) /\ entry[k].state = "inFlight"  BY <1>1 DEF k
  <2> QED  BY <1>0, <2>1, Settling
<1>3. OrderMatches'
  <2>1. Settle(k, s)  BY DEF k
  <2> QED  BY <1>0, <2>1, SettleOrder
<1>4. ClaimsAreExclusive'
  <2>1. ASSUME NEW u \in Task, HoldsClaim(u)'
        PROVE  entry'[KeyOf[u]] = [state |-> "inFlight", owner |-> u]
    <3>1. u # t /\ entry[KeyOf[u]] = [state |-> "inFlight", owner |-> u]
      BY <2>1 DEF ClaimsAreExclusive
    <3>2. KeyOf[u] # k  BY <3>1, <1>1
    <3> QED  BY <1>0, <1>2, <3>1, <3>2
  <2>2. ASSUME NEW j \in Key, entry'[j].state = "inFlight"
        PROVE  \E u \in Task : entry'[j].owner = u /\ HoldsClaim(u)' /\ KeyOf[u] = j
    <3>1. j # k /\ entry'[j] = entry[j]  BY <2>2, <1>2
    <3>2. PICK u \in Task : entry[j].owner = u /\ HoldsClaim(u) /\ KeyOf[u] = j
      BY <2>2, <3>1 DEF ClaimsAreExclusive
    <3>3. u # t  BY <3>1, <3>2 DEF k
    <3> QED  BY <3>1, <3>2, <3>3
  <2> QED  BY <2>1, <2>2 DEF ClaimsAreExclusive
<1>5. RanIsRemembered'  BY <1>0, <1>2 DEF RanIsRemembered
<1>6. DoneWasDone'
  <2> SUFFICES ASSUME NEW j \in Key, entry'[j].state = "completed"
               PROVE  \E u \in ran : KeyOf[u] = j /\ outcome'[u] = "ok"
    BY DEF DoneWasDone
  <2>1. CASE j = k  BY <2>1, <1>2 DEF k
  <2>2. CASE j # k
    <3>1. \E u \in ran : KeyOf[u] = j /\ outcome[u] = "ok"  BY <2>2, <1>2 DEF DoneWasDone
    <3> QED  BY <3>1, <1>0
  <2> QED  BY <2>1, <2>2
<1>7. OwnerRanAlone'
  <2> SUFFICES ASSUME NEW j \in Key \ forgotten, entry'[j].state = "inFlight", NEW u \in ran,
                      KeyOf[u] = j
               PROVE  u = entry'[j].owner
    BY <1>2 DEF OwnerRanAlone
  <2>1. entry'[j] = entry[j]  BY <1>2
  <2> QED  BY <2>1 DEF OwnerRanAlone
<1>8. SecondRunIsExplained'  BY <1>2 DEF SecondRunIsExplained
<1>9. ReplaysAreTrue'
  <2> SUFFICES ASSUME NEW u \in Task, outcome'[u] = "replayed"
               PROVE  \E v \in ran : KeyOf[v] = KeyOf[u] /\ outcome'[v] = "ok"
    BY DEF ReplaysAreTrue
  <2>1. \E v \in ran : KeyOf[v] = KeyOf[u] /\ outcome[v] = "ok"  BY DEF ReplaysAreTrue
  <2> QED  BY <2>1, <1>0
<1> QED  BY <1>3, <1>4, <1>5, <1>6, <1>7, <1>8, <1>9

\* A good outcome is final, and only callers get one.
LEMMA CallersStep ==
  ASSUME StepTypeOK, CallersRan, [Next]_vars
  PROVE  /\ CallersRan'
         /\ \A u \in Task : outcome[u] = "ok" => outcome'[u] = "ok"
<1> DEFINE Goal == CallersRan' /\ \A u \in Task : outcome[u] = "ok" => outcome'[u] = "ok"
<1>0. ASSUME UNCHANGED <<pc, outcome, ran>>  PROVE Goal
  BY <1>0 DEF CallersRan
<1>1. ASSUME NEW t \in Task, Progress(t)  PROVE Goal
  <2> USE DEF CallersRan, StepTypeOK, At, End, stepVars
  <2>1. CASE Acquire(t)
    <3>1. CASE Admit(t) /\ pc' = [pc EXCEPT ![t] = "admitted"] /\ UNCHANGED outcome
      BY <2>1, <3>1 DEF Acquire, Startable
    <3>2. CASE Enqueue(t, ClassOf[t]) /\ pc' = [pc EXCEPT ![t] = "queued"] /\ UNCHANGED outcome
      BY <2>1, <3>2 DEF Acquire, Startable
    <3>3. CASE Shed(t, ClassOf[t]) /\ pc' = [pc EXCEPT ![t] = "ended"] /\ End(t, "failed")
      BY <2>1, <3>3 DEF Acquire, Startable
    <3> QED  BY <2>1, <3>1, <3>2, <3>3 DEF Acquire
  <2>2. CASE Granted(t)  BY <2>2 DEF Granted
  <2>3. CASE Leaves(t)  BY <2>3 DEF Leaves
  <2>4. CASE Leave(t)  BY <2>4 DEF Leave
  <2>5. CASE Claim(t)
    <3>1. ran' = ran /\ pc[t] \in {"admitted", "claiming"}  BY <2>5 DEF Claim
    <3>2. CASE /\ pc' = [pc EXCEPT ![t] = "leaving"]
               /\ End(t, IF entry[KeyOf[t]].state = "completed" THEN "replayed" ELSE "failed")
      BY <3>1, <3>2
    <3>3. CASE \E there \in {"waiting", "entering"} : pc' = [pc EXCEPT ![t] = there] /\ UNCHANGED outcome
      BY <3>1, <3>3
    <3> QED  BY <2>5, <3>2, <3>3 DEF Claim
  <2>6. CASE Await(t)
    <3>1. ran' = ran /\ pc[t] = "waiting"  BY <2>6 DEF Await
    <3>2. CASE \E how \in {"replayed", "failed", "stopped"} :
                 pc' = [pc EXCEPT ![t] = "leaving"] /\ End(t, how)
      BY <3>1, <3>2
    <3>3. CASE pc' = [pc EXCEPT ![t] = "claiming"] /\ UNCHANGED outcome
      BY <3>1, <3>3
    <3> QED  BY <2>6, <3>2, <3>3 DEF Await
  <2>7. CASE StopsWaiting(t)  BY <2>7 DEF StopsWaiting
  <2>8. CASE Enter(t)  BY <2>8 DEF Enter
  <2>9. CASE Call(t)  BY <2>9 DEF Call
  <2>10. CASE Answer(t)  BY <2>10 DEF Answer
  <2>11. CASE Retry(t)  BY <2>11 DEF Retry
  <2>12. ASSUME NEW how \in Error, CallFails(t, how)  PROVE Goal
    BY <2>12 DEF CallFails, Return, Error
  <2>13. CASE ReturnLease(t)  BY <2>13 DEF ReturnLease
  <2>14. CASE ReleaseClaim(t)  BY <2>14 DEF ReleaseClaim
  <2> HIDE DEF Goal
  <2> QED
    BY <1>1, <2>1, <2>2, <2>3, <2>4, <2>5, <2>6, <2>7, <2>8, <2>9, <2>10, <2>11, <2>12, <2>13,
       <2>14 DEF Progress
<1>2. ASSUME NEW t \in Task, Refusal(t)  PROVE Goal
  <2> USE DEF CallersRan, StepTypeOK, At, End
  <2>1. CASE Unbound(t)  BY <2>1 DEF Unbound, Startable
  <2>2. CASE Refuse(t)  BY <2>2 DEF Refuse
  <2>3. CASE NotDispatchable(t)  BY <2>3 DEF NotDispatchable, Return
  <2>4. CASE BadAnswer(t)  BY <2>4 DEF BadAnswer, Return
  <2>5. ASSUME NEW how \in Error, Stop(t, how)  PROVE Goal
    BY <2>5 DEF Stop, Return, Error
  <2> HIDE DEF Goal
  <2> QED  BY <1>2, <2>1, <2>2, <2>3, <2>4, <2>5 DEF Refusal
<1>3. CASE ~(\E t \in Task : Progress(t) \/ Refusal(t))
  <2>1. UNCHANGED <<pc, outcome, ran>>
    BY <1>3 DEF Next, EndContext, RunPlan, Finish, Undo, RolledBack, Expire, Sweep, vars, stepVars
  <2> QED  BY <2>1, <1>0
<1> QED  BY <1>1, <1>2, <1>3

\* The fresh claim: whoever called before, the ledger has lost it.
LEMMA LedgerClaimed ==
  ASSUME LedgerTypeOK, StepTypeOK, LedgerIInv, NEW t \in Task, NEW gone \in SUBSET Key,
         \A k \in gone : Settled(k), entry[KeyOf[t]] = NoEntry \/ KeyOf[t] \in gone,
         Write(KeyOf[t], [state |-> "inFlight", owner |-> t], gone), ran' = ran, CallersRan',
         HoldsClaim(t)', \A u \in Task \ {t} : HoldsClaim(u)' <=> HoldsClaim(u),
         UNCHANGED outcome
  PROVE  LedgerIInv'
<1> USE DEF LedgerIInv
<1> DEFINE k == KeyOf[t]
<1>0. ran \subseteq Task /\ k \in Key /\ \A u \in Task : KeyOf[u] \in Key
  BY Limits DEF StepTypeOK
<1>1. OrderMatches'  BY <1>0, WriteOrder
<1>2. /\ entry'[k] = [state |-> "inFlight", owner |-> t]
      /\ \A j \in Key \ {k} : entry'[j] = IF j \in gone THEN NoEntry ELSE entry[j]
      /\ forgotten' = forgotten \cup {j \in gone : Called(j)}
  BY <1>0 DEF Write
<1>3. \A j \in gone : entry[j].state # "inFlight"  BY DEF Settled
<1>4. entry[k].state # "inFlight"  BY <1>3 DEF NoEntry
<1> HIDE DEF k
<1>5. NoEntry.state = "none"  BY DEF NoEntry
<1>6. ClaimsAreExclusive'
  <2>1. ASSUME NEW u \in Task \ {t}, HoldsClaim(u)
        PROVE  entry'[KeyOf[u]] = [state |-> "inFlight", owner |-> u]
    <3>1. entry[KeyOf[u]] = [state |-> "inFlight", owner |-> u]
      BY <2>1 DEF ClaimsAreExclusive
    <3>2. KeyOf[u] \notin gone /\ KeyOf[u] # k  BY <3>1, <1>3, <1>4
    <3> QED  BY <1>0, <1>2, <3>1, <3>2
  <2>2. ASSUME NEW j \in Key, entry'[j].state = "inFlight"
        PROVE  \E u \in Task : entry'[j].owner = u /\ HoldsClaim(u)' /\ KeyOf[u] = j
    <3>1. CASE j = k
      <4>1. entry'[j].owner = t /\ KeyOf[t] = j  BY <3>1, <1>2 DEF k
      <4> QED  BY <4>1
    <3>2. CASE j # k
      <4>1. entry'[j] = entry[j]  BY <3>2, <2>2, <1>2, <1>5
      <4>2. PICK u \in Task : entry[j].owner = u /\ HoldsClaim(u) /\ KeyOf[u] = j
        BY <4>1, <2>2 DEF ClaimsAreExclusive
      <4>3. u # t  BY <4>2, <3>2 DEF k
      <4> QED  BY <4>1, <4>2, <4>3
    <3> QED  BY <3>1, <3>2
  <2>3. entry'[KeyOf[t]] = [state |-> "inFlight", owner |-> t]  BY <1>2 DEF k
  <2> QED  BY <2>1, <2>2, <2>3 DEF ClaimsAreExclusive
<1>7. \A u \in ran : KeyOf[u] \in forgotten' \/ (KeyOf[u] # k /\ entry'[KeyOf[u]] = entry[KeyOf[u]])
  <2> SUFFICES ASSUME NEW u \in ran, KeyOf[u] \notin forgotten'
               PROVE  KeyOf[u] # k /\ entry'[KeyOf[u]] = entry[KeyOf[u]]
    OBVIOUS
  <2>1. KeyOf[u] \notin gone  BY <1>2 DEF Called
  <2>2. entry[KeyOf[u]] # NoEntry  BY <1>2 DEF RanIsRemembered
  <2>3. KeyOf[u] # k  BY <2>1, <2>2 DEF k
  <2> QED  BY <1>0, <1>2, <2>1, <2>3
<1>8. forgotten \subseteq forgotten'  BY <1>2
<1>9. RanIsRemembered'  BY <1>7, <1>8 DEF RanIsRemembered
<1>10. DoneWasDone'
  <2> SUFFICES ASSUME NEW j \in Key, entry'[j].state = "completed"
               PROVE  \E u \in ran : KeyOf[u] = j /\ outcome[u] = "ok"
    BY DEF DoneWasDone
  <2>1. j # k  BY <1>2
  <2>2. entry'[j] = entry[j]  BY <2>1, <1>2, <1>5
  <2> QED  BY <2>2 DEF DoneWasDone
<1>11. OwnerRanAlone'
  <2> SUFFICES ASSUME NEW j \in Key \ forgotten', entry'[j].state = "inFlight",
                      NEW u \in ran, KeyOf[u] = j
               PROVE  u = entry'[j].owner
    BY DEF OwnerRanAlone
  <2>1. j \notin forgotten /\ entry'[j] = entry[j]  BY <1>7, <1>8
  <2> QED  BY <2>1 DEF OwnerRanAlone
<1>12. SecondRunIsExplained'  BY <1>8 DEF SecondRunIsExplained
<1>13. ReplaysAreTrue'  BY DEF ReplaysAreTrue
<1> QED  BY <1>1, <1>6, <1>9, <1>10, <1>11, <1>12, <1>13

\* The claim that is released without an outcome is its holder's own.
LEMMA LedgerReleased ==
  ASSUME LedgerTypeOK, StepTypeOK, LedgerIInv, NEW t \in Task, HoldsClaim(t),
         Drop({KeyOf[t]}), ran' = ran, CallersRan', ~HoldsClaim(t)',
         \A u \in Task \ {t} : HoldsClaim(u)' <=> HoldsClaim(u), UNCHANGED outcome
  PROVE  LedgerIInv'
<1> USE DEF LedgerIInv
<1> DEFINE k == KeyOf[t]
<1>0. ran \subseteq Task /\ k \in Key /\ \A u \in Task : KeyOf[u] \in Key
  BY Limits DEF StepTypeOK
<1>1. OrderMatches'
  <2>1. {KeyOf[t]} \in SUBSET Key  BY <1>0
  <2> QED  BY <2>1, DropOrder
<1>2. entry[k] = [state |-> "inFlight", owner |-> t]  BY DEF ClaimsAreExclusive
<1>3. /\ entry'[k] = NoEntry /\ \A j \in Key \ {k} : entry'[j] = entry[j]
      /\ forgotten' = forgotten \cup {j \in {k} : Called(j)}
  BY <1>0 DEF Drop
<1> HIDE DEF k
<1>4. NoEntry.state = "none"  BY DEF NoEntry
<1>5. ClaimsAreExclusive'
  <2>1. ASSUME NEW u \in Task, HoldsClaim(u)'
        PROVE  entry'[KeyOf[u]] = [state |-> "inFlight", owner |-> u]
    <3>1. u # t /\ entry[KeyOf[u]] = [state |-> "inFlight", owner |-> u]
      BY <2>1 DEF ClaimsAreExclusive
    <3>2. KeyOf[u] # k  BY <3>1, <1>2
    <3> QED  BY <1>0, <1>3, <3>1, <3>2
  <2>2. ASSUME NEW j \in Key, entry'[j].state = "inFlight"
        PROVE  \E u \in Task : entry'[j].owner = u /\ HoldsClaim(u)' /\ KeyOf[u] = j
    <3>1. j # k /\ entry'[j] = entry[j]  BY <2>2, <1>3, <1>4
    <3>2. PICK u \in Task : entry[j].owner = u /\ HoldsClaim(u) /\ KeyOf[u] = j
      BY <2>2, <3>1 DEF ClaimsAreExclusive
    <3>3. u # t  BY <3>1, <3>2 DEF k
    <3> QED  BY <3>1, <3>2, <3>3
  <2> QED  BY <2>1, <2>2 DEF ClaimsAreExclusive
<1>6. \A u \in ran : KeyOf[u] \in forgotten' \/ (KeyOf[u] # k /\ entry'[KeyOf[u]] = entry[KeyOf[u]])
  <2> SUFFICES ASSUME NEW u \in ran, KeyOf[u] \notin forgotten'
               PROVE  KeyOf[u] # k
    BY <1>0, <1>3
  <2> QED  BY <1>3 DEF Called
<1>7. forgotten \subseteq forgotten'  BY <1>3
<1>8. RanIsRemembered'  BY <1>6, <1>7 DEF RanIsRemembered
<1>9. DoneWasDone'
  <2> SUFFICES ASSUME NEW j \in Key, entry'[j].state = "completed"
               PROVE  \E u \in ran : KeyOf[u] = j /\ outcome[u] = "ok"
    BY DEF DoneWasDone
  <2>1. entry'[j] = entry[j]  BY <1>3, <1>4
  <2> QED  BY <2>1 DEF DoneWasDone
<1>10. OwnerRanAlone'
  <2> SUFFICES ASSUME NEW j \in Key \ forgotten', entry'[j].state = "inFlight",
                      NEW u \in ran, KeyOf[u] = j
               PROVE  u = entry'[j].owner
    BY DEF OwnerRanAlone
  <2>1. j \notin forgotten /\ entry'[j] = entry[j]  BY <1>6, <1>7
  <2> QED  BY <2>1 DEF OwnerRanAlone
<1>11. SecondRunIsExplained'  BY <1>7 DEF SecondRunIsExplained
<1>12. ReplaysAreTrue'  BY DEF ReplaysAreTrue
<1> QED  BY <1>1, <1>5, <1>8, <1>9, <1>10, <1>11, <1>12

\* The tool is called by the one who holds the claim.
LEMMA LedgerCalled ==
  ASSUME LedgerTypeOK, StepTypeOK, LedgerIInv, NEW t \in Task, HoldsClaim(t),
         UNCHANGED <<ledgerVars, outcome>>, ran' = ran \cup {t}, CallersRan',
         \A u \in Task : HoldsClaim(u)' <=> HoldsClaim(u)
  PROVE  LedgerIInv'
<1> USE DEF LedgerIInv, ledgerVars
<1>0. ran \subseteq Task /\ \A u \in Task : KeyOf[u] \in Key
  BY Limits DEF StepTypeOK
<1>1. entry[KeyOf[t]] = [state |-> "inFlight", owner |-> t]  BY DEF ClaimsAreExclusive
<1>2. OrderMatches'  BY DEF OrderMatches, Queued
<1>3. ClaimsAreExclusive'  BY DEF ClaimsAreExclusive
<1>4. RanIsRemembered'  BY <1>1 DEF RanIsRemembered, NoEntry
<1>5. DoneWasDone'  BY DEF DoneWasDone
<1>6. OwnerRanAlone'  BY <1>1 DEF OwnerRanAlone
<1>7. SecondRunIsExplained'  BY <1>0, <1>1 DEF SecondRunIsExplained, OwnerRanAlone
<1>8. ReplaysAreTrue'  BY DEF ReplaysAreTrue
<1> QED  BY <1>2, <1>3, <1>4, <1>5, <1>6, <1>7, <1>8

\* What another execution does takes no claim away.
LEMMA OthersKeepClaims ==
  ASSUME StepTypeOK, NEW t \in Task,
         \A u \in Task \ {t} : pc'[u] = pc[u] /\ outcome'[u] = outcome[u] /\ phase'[u] = phase[u]
  PROVE  \A u \in Task \ {t} : HoldsClaim(u)' <=> HoldsClaim(u)
BY DEF HoldsClaim, Stored

\* A call that comes back settles its claim or leaves it to be released.
LEMMA LedgerReturns ==
  ASSUME LedgerTypeOK, StepTypeOK, LedgerIInv, CallersRan', ran' = ran,
         NEW t \in Task, pc[t] \in {"calling", "called"}, NEW how \in Error, NEW filed,
         Return(t, how, filed)
  PROVE  LedgerIInv'
<1>1. /\ pc' = [pc EXCEPT ![t] = "returning"] /\ outcome' = [outcome EXCEPT ![t] = how]
      /\ phase' = [phase EXCEPT ![t] = filed]
  BY DEF Return, End
<1>2. \A u \in Task \ {t} : HoldsClaim(u)' <=> HoldsClaim(u)
  BY <1>1, OthersKeepClaims DEF StepTypeOK
<1>3. HoldsClaim(t) /\ (HoldsClaim(t)' <=> filed # "invoke")
  BY <1>1 DEF HoldsClaim, Stored, StepTypeOK, Error
<1>4. outcome[t] # "ok"  BY DEF LedgerIInv, CallersRan
<1>5. /\ \A u \in Task : outcome[u] = "ok" => outcome'[u] = "ok"
      /\ \A u \in Task : outcome'[u] = "replayed" => outcome[u] = "replayed"
  BY <1>1, <1>4 DEF StepTypeOK, Error
<1>6. CASE filed = "invoke" /\ Settle(KeyOf[t], "failed")
  <2>1. ~HoldsClaim(t)'  BY <1>3, <1>6
  <2> QED  BY <1>2, <1>3, <1>5, <1>6, <2>1, LedgerSettled
<1>7. CASE filed # "invoke" /\ UNCHANGED ledgerVars
  <2>1. \A u \in Task : HoldsClaim(u)' <=> HoldsClaim(u)  BY <1>2, <1>3, <1>7
  <2>2. UNCHANGED <<ledgerVars, ran>>  BY <1>7
  <2> QED  BY <1>5, <2>1, <2>2, LedgerAlone
<1> QED  BY <1>6, <1>7 DEF Return

LEMMA ClaimStep ==
  ASSUME LedgerTypeOK, StepTypeOK, LedgerIInv, CallersRan', NEW t \in Task, Claim(t)
  PROVE  LedgerIInv'
<1> DEFINE k == KeyOf[t]
           present == entry[k] # NoEntry /\ k \notin StaleHead
<1>0. ran' = ran /\ phase' = phase /\ pc[t] \in {"admitted", "claiming"}
  BY DEF Claim
<1>1. outcome[t] # "ok"  BY <1>0 DEF LedgerIInv, CallersRan
<1>2. \A j \in StaleHead : Settled(j)
  BY DEF StaleHead, Queued
<1>3. CASE /\ present /\ Settled(k) /\ Drop(StaleHead)
           /\ End(t, IF entry[k].state = "completed" THEN "replayed" ELSE "failed")
           /\ pc' = [pc EXCEPT ![t] = "leaving"]
  <2>1. \A u \in Task \ {t} : HoldsClaim(u)' <=> HoldsClaim(u)
    BY <1>3, <1>0, OthersKeepClaims DEF End, StepTypeOK
  <2>2. ~HoldsClaim(t) /\ ~HoldsClaim(t)'
    BY <1>3, <1>0 DEF HoldsClaim, StepTypeOK
  <2>3. /\ \A u \in Task : outcome[u] = "ok" => outcome'[u] = "ok"
        /\ \A u \in Task : outcome'[u] = "replayed" =>
             outcome[u] = "replayed" \/ entry[KeyOf[u]].state = "completed"
    BY <1>3, <1>1 DEF End, StepTypeOK
  <2>4. \A u \in Task : HoldsClaim(u)' <=> HoldsClaim(u)  BY <2>1, <2>2
  <2>5. StaleHead \in SUBSET Key /\ Drop(StaleHead)  BY <1>3, GoneAreKeys
  <2> QED  BY <1>0, <1>2, <2>3, <2>4, <2>5, LedgerDropped
<1>4. CASE /\ present /\ ~Settled(k) /\ Drop(StaleHead)
           /\ pc' = [pc EXCEPT ![t] = "waiting"] /\ UNCHANGED outcome
  <2>1. \A u \in Task \ {t} : HoldsClaim(u)' <=> HoldsClaim(u)
    BY <1>4, <1>0, OthersKeepClaims DEF StepTypeOK
  <2>2. ~HoldsClaim(t) /\ ~HoldsClaim(t)'
    BY <1>4, <1>0 DEF HoldsClaim, StepTypeOK
  <2>3. \A u \in Task : HoldsClaim(u)' <=> HoldsClaim(u)  BY <2>1, <2>2
  <2>4. StaleHead \in SUBSET Key /\ Drop(StaleHead) /\ outcome' = outcome  BY <1>4, GoneAreKeys
  <2> QED  BY <1>0, <1>2, <2>3, <2>4, LedgerDropped
<1>5. CASE /\ ~present
           /\ Write(k, [state |-> "inFlight", owner |-> t],
                    StaleHead \cup Overflow(Queued \ StaleHead))
           /\ pc' = [pc EXCEPT ![t] = "entering"] /\ UNCHANGED outcome
  <2> DEFINE gone == StaleHead \cup Overflow(Queued \ StaleHead)
  <2>1. gone \in SUBSET Key /\ \A j \in gone : Settled(j)
    BY <1>2, GoneAreKeys DEF Overflow
  <2>2. entry[k] = NoEntry \/ k \in gone  BY <1>5
  <2>3. Write(KeyOf[t], [state |-> "inFlight", owner |-> t], gone)  BY <1>5
  <2> HIDE DEF gone
  <2>4. HoldsClaim(t)'  BY <1>5 DEF HoldsClaim, StepTypeOK
  <2>5. \A u \in Task \ {t} : HoldsClaim(u)' <=> HoldsClaim(u)
    BY <1>5, <1>0, OthersKeepClaims DEF StepTypeOK
  <2>6. entry[KeyOf[t]] = NoEntry \/ KeyOf[t] \in gone  BY <2>2
  <2>7. UNCHANGED outcome  BY <1>5
  <2> QED  BY <1>0, <2>1, <2>3, <2>4, <2>5, <2>6, <2>7, LedgerClaimed
<1> QED  BY <1>3, <1>4, <1>5 DEF Claim

\* Executions that neither claim nor call, and leave the ledger alone.
LEMMA QuietStep ==
  ASSUME LedgerTypeOK, StepTypeOK, LedgerIInv, CallersRan', NEW t \in Task,
         \/ Acquire(t) \/ Granted(t) \/ Leaves(t) \/ Leave(t) \/ Unbound(t) \/ Refuse(t)
         \/ Await(t) \/ StopsWaiting(t) \/ Enter(t) \/ Retry(t) \/ ReturnLease(t),
         \A u \in Task : outcome[u] = "ok" => outcome'[u] = "ok"
  PROVE  LedgerIInv'
<1> DEFINE Goal ==
      /\ UNCHANGED <<ledgerVars, ran>>
      /\ \A u \in Task \ {t} : pc'[u] = pc[u] /\ outcome'[u] = outcome[u] /\ phase'[u] = phase[u]
      /\ HoldsClaim(t)' <=> HoldsClaim(t)
      /\ outcome'[t] = "replayed" =>
           outcome[t] = "replayed" \/ entry[KeyOf[t]].state = "completed"
<1>1. Goal
  <2> USE DEF StepTypeOK, HoldsClaim, Stored, At, End, stepVars
  <2>1. CASE Acquire(t)
    <3>1. CASE Admit(t) /\ pc' = [pc EXCEPT ![t] = "admitted"] /\ UNCHANGED outcome
      BY <2>1, <3>1 DEF Acquire, Startable
    <3>2. CASE Enqueue(t, ClassOf[t]) /\ pc' = [pc EXCEPT ![t] = "queued"] /\ UNCHANGED outcome
      BY <2>1, <3>2 DEF Acquire, Startable
    <3>3. CASE Shed(t, ClassOf[t]) /\ pc' = [pc EXCEPT ![t] = "ended"] /\ End(t, "failed")
      BY <2>1, <3>3 DEF Acquire, Startable
    <3> QED  BY <2>1, <3>1, <3>2, <3>3 DEF Acquire
  <2>2. CASE Granted(t)  BY <2>2 DEF Granted
  <2>3. CASE Leaves(t)  BY <2>3 DEF Leaves
  <2>4. CASE Leave(t)  BY <2>4 DEF Leave
  <2>5. CASE Unbound(t)  BY <2>5 DEF Unbound, Startable
  <2>6. CASE Refuse(t)  BY <2>6 DEF Refuse
  <2>7. CASE Await(t)
    <3>1. ran' = ran /\ pc[t] = "waiting" /\ phase' = phase /\ UNCHANGED ledgerVars
      BY <2>7 DEF Await
    <3>2. CASE /\ pc' = [pc EXCEPT ![t] = "leaving"]
               /\ End(t, IF entry[KeyOf[t]].state = "completed" THEN "replayed" ELSE "failed")
      BY <3>1, <3>2
    <3>3. CASE \E how \in {"failed", "stopped"} :
                 pc' = [pc EXCEPT ![t] = "leaving"] /\ End(t, how)
      BY <3>1, <3>3
    <3>4. CASE pc' = [pc EXCEPT ![t] = "claiming"] /\ UNCHANGED outcome
      BY <3>1, <3>4
    <3> QED  BY <2>7, <3>2, <3>3, <3>4 DEF Await
  <2>8. CASE StopsWaiting(t)  BY <2>8 DEF StopsWaiting
  <2>9. CASE Enter(t)  BY <2>9 DEF Enter
  <2>10. CASE Retry(t)  BY <2>10 DEF Retry
  <2>11. CASE ReturnLease(t)  BY <2>11 DEF ReturnLease
  <2> HIDE DEF Goal
  <2> QED  BY <2>1, <2>2, <2>3, <2>4, <2>5, <2>6, <2>7, <2>8, <2>9, <2>10, <2>11
<1>2. UNCHANGED <<ledgerVars, ran>>  BY <1>1
<1>3. \A u \in Task : HoldsClaim(u)' <=> HoldsClaim(u)
  <2> QED  BY <1>1, OthersKeepClaims
<1>4. \A u \in Task : outcome'[u] = "replayed" =>
         outcome[u] = "replayed" \/ entry[KeyOf[u]].state = "completed"
  BY <1>1
<1> HIDE DEF Goal
<1> QED  BY <1>2, <1>3, <1>4, LedgerAlone

LEMMA LedgerStep ==
  ASSUME LedgerTypeOK, StepTypeOK, LedgerIInv, [Next]_vars  PROVE LedgerIInv'
<1>0. CallersRan' /\ \A u \in Task : outcome[u] = "ok" => outcome'[u] = "ok"
  BY CallersStep DEF LedgerIInv
<1>1. ASSUME NEW t \in Task, Progress(t)  PROVE LedgerIInv'
  <2>1. CASE \/ Acquire(t) \/ Granted(t) \/ Leaves(t) \/ Leave(t)
             \/ Await(t) \/ StopsWaiting(t) \/ Enter(t) \/ Retry(t) \/ ReturnLease(t)
    BY <2>1, <1>0, QuietStep
  <2>2. CASE Claim(t)  BY <2>2, <1>0, ClaimStep
  <2>3. CASE Call(t)
    <3>1. /\ pc[t] = "calling" /\ pc' = [pc EXCEPT ![t] = "called"]
          /\ UNCHANGED <<ledgerVars, outcome, phase>> /\ ran' = ran \cup {t}
      BY <2>3 DEF Call, At
    <3>2. HoldsClaim(t) /\ HoldsClaim(t)'  BY <3>1 DEF HoldsClaim, StepTypeOK
    <3>3. \A u \in Task \ {t} : HoldsClaim(u)' <=> HoldsClaim(u)
      BY <3>1, OthersKeepClaims DEF StepTypeOK
    <3>4. \A u \in Task : HoldsClaim(u)' <=> HoldsClaim(u)  BY <3>2, <3>3
    <3>5. UNCHANGED <<ledgerVars, outcome>>  BY <3>1
    <3> QED  BY <1>0, <3>1, <3>2, <3>4, <3>5, LedgerCalled
  <2>4. CASE Answer(t)
    <3>1. /\ pc[t] = "called" /\ pc' = [pc EXCEPT ![t] = "returning"]
          /\ outcome' = [outcome EXCEPT ![t] = "ok"] /\ Settle(KeyOf[t], "completed")
          /\ UNCHANGED <<phase, ran>>
      BY <2>4 DEF Answer, At, End
    <3>2. HoldsClaim(t) /\ ~HoldsClaim(t)'  BY <3>1 DEF HoldsClaim, StepTypeOK
    <3>3. \A u \in Task \ {t} : HoldsClaim(u)' <=> HoldsClaim(u)
      BY <3>1, OthersKeepClaims DEF StepTypeOK
    <3>4. /\ t \in ran /\ outcome'[t] = "ok"
          /\ \A u \in Task : outcome'[u] = "replayed" => outcome[u] = "replayed"
      BY <3>1 DEF LedgerIInv, CallersRan, StepTypeOK
    <3>5. ran' = ran  BY <3>1
    <3> QED  BY <1>0, <3>1, <3>2, <3>3, <3>4, <3>5, LedgerSettled
  <2>5. ASSUME NEW how \in Error, CallFails(t, how)  PROVE LedgerIInv'
    <3>1. pc[t] \in {"calling", "called"} /\ Return(t, how, "invoke") /\ ran' = ran
      BY <2>5 DEF CallFails
    <3> QED  BY <1>0, <3>1, LedgerReturns
  <2>6. CASE ReleaseClaim(t)
    <3>1. /\ pc[t] = "releasing" /\ pc' = [pc EXCEPT ![t] = "leaving"]
          /\ UNCHANGED <<phase, outcome, ran>>
      BY <2>6 DEF ReleaseClaim, At, stepVars
    <3>2. HoldsClaim(t) /\ ~HoldsClaim(t)'  BY <3>1 DEF HoldsClaim, StepTypeOK
    <3>3. \A u \in Task \ {t} : HoldsClaim(u)' <=> HoldsClaim(u)
      BY <3>1, OthersKeepClaims DEF StepTypeOK
    <3>4. ~Settled(KeyOf[t])
      <4>1. ClaimsAreExclusive  BY DEF LedgerIInv
      <4>2. entry[KeyOf[t]] = [state |-> "inFlight", owner |-> t]
        BY <3>2, <4>1 DEF ClaimsAreExclusive
      <4> QED  BY <4>2 DEF Settled
    <3>5. Drop({KeyOf[t]}) /\ ran' = ran /\ UNCHANGED outcome
      BY <2>6, <3>1, <3>4 DEF ReleaseClaim
    <3> QED  BY <1>0, <3>2, <3>3, <3>5, LedgerReleased
  <2> QED  BY <1>1, <2>1, <2>2, <2>3, <2>4, <2>5, <2>6 DEF Progress
<1>2. ASSUME NEW t \in Task, Refusal(t)  PROVE LedgerIInv'
  <2>1. CASE Unbound(t) \/ Refuse(t)  BY <2>1, <1>0, QuietStep
  <2>2. CASE NotDispatchable(t)
    <3>1. pc[t] \in {"calling", "called"} /\ Return(t, "failed", "invoke") /\ ran' = ran
      BY <2>2 DEF NotDispatchable
    <3>2. "failed" \in Error  BY DEF Error
    <3> QED  BY <1>0, <3>1, <3>2, LedgerReturns
  <2>3. CASE BadAnswer(t)
    <3>1. pc[t] \in {"calling", "called"} /\ Return(t, "failed", "output") /\ ran' = ran
      BY <2>3 DEF BadAnswer
    <3>2. "failed" \in Error  BY DEF Error
    <3> QED  BY <1>0, <3>1, <3>2, LedgerReturns
  <2>4. ASSUME NEW how \in Error, Stop(t, how)  PROVE LedgerIInv'
    <3>1. pc[t] \in {"calling", "called"} /\ Return(t, how, phase[t]) /\ ran' = ran
      BY <2>4 DEF Stop
    <3> QED  BY <1>0, <3>1, LedgerReturns
  <2> QED  BY <1>2, <2>1, <2>2, <2>3, <2>4 DEF Refusal
<1>3. ASSUME UNCHANGED <<pc, outcome, phase, ran>>
      PROVE  /\ \A t \in Task : HoldsClaim(t)' <=> HoldsClaim(t)
             /\ \A t \in Task : outcome'[t] = outcome[t]
             /\ ran' = ran
  BY <1>3 DEF HoldsClaim, Stored
<1>4. CASE Expire
  <2>1. UNCHANGED <<pc, outcome, phase, ran>> /\ UNCHANGED <<entry, forgotten>>
    BY <1>4 DEF Expire, stepVars
  <2>2. OrderMatches'  BY <1>4, ExpireOrder DEF LedgerIInv
  <2> DEFINE gone == {}
  <2>3. forgotten' = forgotten \cup {k \in gone : Called(k)}  BY <2>1
  <2>4. \A k \in Key : entry'[k] = IF k \in gone THEN NoEntry ELSE entry[k]  BY <2>1
  <2>5. gone \in SUBSET Key /\ \A k \in gone : entry[k].state # "inFlight"  OBVIOUS
  <2>6. /\ \A t \in Task : HoldsClaim(t)' <=> HoldsClaim(t)
        /\ \A t \in Task : outcome'[t] = outcome[t]
        /\ ran' = ran
    BY <2>1, <1>3
  <2> HIDE DEF gone
  <2> QED  BY <1>0, <2>2, <2>3, <2>4, <2>5, <2>6, LedgerKept
<1>5. CASE Sweep
  <2>1. UNCHANGED <<pc, outcome, phase, ran>>  BY <1>5 DEF Sweep, stepVars
  <2> DEFINE gone == {k \in expired : Settled(k)}
  <2>2. gone \in SUBSET Key /\ \A k \in gone : Settled(k)  BY DEF LedgerTypeOK
  <2>3. Drop(gone)  BY <1>5 DEF Sweep
  <2>4. /\ \A t \in Task : HoldsClaim(t)' <=> HoldsClaim(t)
        /\ \A t \in Task : outcome'[t] = outcome[t]
        /\ ran' = ran
    BY <2>1, <1>3
  <2> HIDE DEF gone
  <2> QED  BY <1>0, <2>2, <2>3, <2>4, LedgerDropped
<1>6. CASE (\E p \in Plan : EndContext(p) \/ RunPlan(p)) \/ UNCHANGED vars
  <2>1. UNCHANGED <<pc, outcome, phase, ran>> /\ UNCHANGED <<ledgerVars, ran>>
    BY <1>6 DEF EndContext, RunPlan, Finish, Undo, RolledBack, vars, stepVars
  <2>2. /\ \A t \in Task : HoldsClaim(t)' <=> HoldsClaim(t)
        /\ \A t \in Task : outcome'[t] = outcome[t]
    BY <2>1, <1>3
  <2> QED  BY <1>0, <2>1, <2>2, LedgerAlone
<1> QED  BY <1>1, <1>2, <1>4, <1>5, <1>6 DEF Next

----------------------------------------------------------------------------
(* Plans *)

\* An execution goes on only in a plan that runs, and only an answer is good.
LEMMA StepsOfPlans ==
  ASSUME StepTypeOK, CallersRan, NEW t \in Task, Progress(t) \/ Refusal(t)
  PROVE  /\ pc[t] \notin {"idle", "ended"} \/ stage[PlanOf[t]] = "running"
         /\ \A u \in Task \ {t} : pc'[u] = pc[u] /\ outcome'[u] = outcome[u]
         /\ ~Answer(t) => UNCHANGED planVars /\ (outcome'[t] = "ok" <=> outcome[t] = "ok")
<1> DEFINE Goal ==
      /\ pc[t] \notin {"idle", "ended"} \/ stage[PlanOf[t]] = "running"
      /\ \A u \in Task \ {t} : pc'[u] = pc[u] /\ outcome'[u] = outcome[u]
      /\ ~Answer(t) => UNCHANGED planVars /\ (outcome'[t] = "ok" <=> outcome[t] = "ok")
<1> USE DEF StepTypeOK, At, End, CallersRan
<1>1. CASE Acquire(t)
  <2>0. /\ UNCHANGED planVars /\ stage[PlanOf[t]] = "running" /\ pc[t] = "idle"
    BY <1>1 DEF Acquire, Startable
  <2>1. CASE \E there \in {"admitted", "queued"} :
               pc' = [pc EXCEPT ![t] = there] /\ UNCHANGED outcome
    BY <2>0, <2>1
  <2>2. CASE pc' = [pc EXCEPT ![t] = "ended"] /\ outcome' = [outcome EXCEPT ![t] = "failed"]
    BY <2>0, <2>2
  <2> QED  BY <1>1, <2>1, <2>2 DEF Acquire
<1>2. CASE Granted(t)  BY <1>2 DEF Granted, stepVars
<1>3. CASE Leaves(t)  BY <1>3 DEF Leaves
<1>4. CASE Leave(t)  BY <1>4 DEF Leave
<1>5. CASE Claim(t)
  <2>0. UNCHANGED planVars /\ pc[t] \in {"admitted", "claiming"}  BY <1>5 DEF Claim
  <2>1. CASE \E there \in {"waiting", "entering"} :
               pc' = [pc EXCEPT ![t] = there] /\ UNCHANGED outcome
    BY <2>0, <2>1
  <2>2. CASE \E how \in {"replayed", "failed"} :
               pc' = [pc EXCEPT ![t] = "leaving"] /\ outcome' = [outcome EXCEPT ![t] = how]
    BY <2>0, <2>2
  <2> QED  BY <1>5, <2>1, <2>2 DEF Claim
<1>6. CASE Await(t)
  <2>0. UNCHANGED planVars /\ pc[t] = "waiting"  BY <1>6 DEF Await
  <2>1. CASE pc' = [pc EXCEPT ![t] = "claiming"] /\ UNCHANGED outcome
    BY <2>0, <2>1
  <2>2. CASE \E how \in {"replayed", "failed", "stopped"} :
               pc' = [pc EXCEPT ![t] = "leaving"] /\ outcome' = [outcome EXCEPT ![t] = how]
    BY <2>0, <2>2
  <2> QED  BY <1>6, <2>1, <2>2 DEF Await
<1>7. CASE StopsWaiting(t)  BY <1>7 DEF StopsWaiting
<1>8. CASE Enter(t)  BY <1>8 DEF Enter
<1>9. CASE Call(t)  BY <1>9 DEF Call
<1>10. CASE Answer(t)  BY <1>10 DEF Answer
<1>11. CASE Retry(t)  BY <1>11 DEF Retry
<1>12. ASSUME NEW how \in Error, CallFails(t, how)  PROVE Goal
  BY <1>12 DEF CallFails, Return, Error
<1>13. CASE ReturnLease(t)  BY <1>13 DEF ReturnLease, stepVars
<1>14. CASE ReleaseClaim(t)  BY <1>14 DEF ReleaseClaim, stepVars
<1>15. CASE Unbound(t)  BY <1>15 DEF Unbound, Startable
<1>16. CASE Refuse(t)  BY <1>16 DEF Refuse
<1>17. CASE NotDispatchable(t)  BY <1>17 DEF NotDispatchable, Return
<1>18. CASE BadAnswer(t)  BY <1>18 DEF BadAnswer, Return
<1>19. ASSUME NEW how \in Error, Stop(t, how)  PROVE Goal
  BY <1>19 DEF Stop, Return, Error
<1> HIDE DEF Goal
<1>20. Goal
  <2>1. CASE Progress(t)
    BY <2>1, <1>1, <1>2, <1>3, <1>4, <1>5, <1>6, <1>7, <1>8, <1>9, <1>10, <1>11, <1>12, <1>13,
       <1>14 DEF Progress, Goal
  <2>2. CASE Refusal(t)
    BY <2>2, <1>15, <1>16, <1>17, <1>18, <1>19 DEF Refusal, Goal
  <2> QED  BY <2>1, <2>2
<1> QED  BY <1>20 DEF Goal

\* What JournalsAgree says of one plan.
JournalAgrees(p) ==
  /\ Range(journal[p]) = {t \in StepsOf(p) : outcome[t] = "ok"}
  /\ stage[p] # "running" => \A t \in StepsOf(p) : pc[t] \in {"idle", "ended"}
  /\ stage[p] \in {"running", "succeeded"} => undone[p] = <<>>
  /\ stage[p] = "failed" => Len(undone[p]) = Len(journal[p])
  /\ Len(undone[p]) <= Len(journal[p])
  /\ \A i \in 1 .. Len(undone[p]) : undone[p][i] = journal[p][Len(journal[p]) - i + 1]

LEMMA JournalStep ==
  ASSUME StepTypeOK, PlanTypeOK, CallersRan, JournalsAgree, [Next]_vars, NEW p \in Plan
  PROVE  JournalAgrees(p)'
<1>0. JournalAgrees(p)  BY DEF JournalsAgree, JournalAgrees
<1>1. /\ journal[p] \in Seq(Task) /\ undone[p] \in Seq(Task)
      /\ Len(journal[p]) \in Nat /\ Len(undone[p]) \in Nat
  BY LenProperties DEF PlanTypeOK
<1>2. ASSUME UNCHANGED <<stage[p], journal[p], undone[p]>>,
             \A t \in StepsOf(p) : outcome'[t] = "ok" <=> outcome[t] = "ok",
             stage[p] # "running" => \A t \in StepsOf(p) : pc'[t] = pc[t]
      PROVE  JournalAgrees(p)'
  <2>1. Range(journal'[p]) = {t \in StepsOf(p) : outcome'[t] = "ok"}
    BY <1>0, <1>2 DEF JournalAgrees
  <2> QED  BY <1>0, <1>2, <2>1 DEF JournalAgrees, StepsOf
<1>3. ASSUME NEW t \in Task, Progress(t) \/ Refusal(t)  PROVE JournalAgrees(p)'
  <2>1. /\ pc[t] \notin {"idle", "ended"} \/ stage[PlanOf[t]] = "running"
        /\ \A u \in Task \ {t} : pc'[u] = pc[u] /\ outcome'[u] = outcome[u]
        /\ ~Answer(t) => UNCHANGED planVars /\ (outcome'[t] = "ok" <=> outcome[t] = "ok")
    BY <1>3, StepsOfPlans
  <2>2. stage[p] # "running" => t \notin StepsOf(p)
    BY <1>0, <2>1 DEF JournalAgrees, StepsOf
  <2>3. stage[p] # "running" => \A u \in StepsOf(p) : pc'[u] = pc[u]
    BY <2>1, <2>2 DEF StepsOf
  <2>4. CASE ~Answer(t)
    <3>1. UNCHANGED <<stage[p], journal[p], undone[p]>>  BY <2>1, <2>4 DEF planVars
    <3>2. \A u \in StepsOf(p) : outcome'[u] = "ok" <=> outcome[u] = "ok"
      BY <2>1, <2>4 DEF StepsOf
    <3> QED  BY <1>2, <2>3, <3>1, <3>2
  <2>5. CASE Answer(t) /\ PlanOf[t] # p
    <3>1. t \notin StepsOf(p)  BY <2>5 DEF StepsOf
    <3>2. UNCHANGED <<stage[p], journal[p], undone[p]>>
      BY <2>5 DEF Answer, PlanTypeOK
    <3>3. \A u \in StepsOf(p) : outcome'[u] = "ok" <=> outcome[u] = "ok"
      BY <2>1, <3>1 DEF StepsOf
    <3> QED  BY <1>2, <2>3, <3>2, <3>3
  <2>6. CASE Answer(t) /\ PlanOf[t] = p
    <3>1. /\ journal'[p] = Append(journal[p], t) /\ UNCHANGED <<stage, undone>>
          /\ pc[t] = "called" /\ pc'[t] = "returning" /\ outcome'[t] = "ok"
      BY <2>6 DEF Answer, PlanTypeOK, At, End, StepTypeOK
    <3>2. t \in StepsOf(p) /\ stage[p] = "running"
      BY <2>2, <2>6 DEF StepsOf
    <3>3. /\ Len(journal'[p]) = Len(journal[p]) + 1
          /\ DOMAIN journal'[p] = 1 .. Len(journal[p]) + 1
          /\ journal'[p][Len(journal[p]) + 1] = t
          /\ \A i \in 1 .. Len(journal[p]) : journal'[p][i] = journal[p][i]
          /\ DOMAIN journal[p] = 1 .. Len(journal[p])
      BY <1>1, <3>1, AppendProperties, LenProperties
    <3>4. \A u : u \in Range(journal'[p]) <=> u \in Range(journal[p]) \/ u = t
      <4> TAKE u
      <4>1. u \in Range(journal'[p]) => u \in Range(journal[p]) \/ u = t
        <5> SUFFICES ASSUME NEW i \in 1 .. Len(journal[p]) + 1, u = journal'[p][i]
                     PROVE  u \in Range(journal[p]) \/ u = t
          BY <3>3 DEF Range
        <5>1. CASE i \in 1 .. Len(journal[p])  BY <5>1, <3>3 DEF Range
        <5>2. CASE i = Len(journal[p]) + 1  BY <5>2, <3>3
        <5> QED  BY <5>1, <5>2, <1>1
      <4>2. u \in Range(journal[p]) => u \in Range(journal'[p])
        <5> SUFFICES ASSUME NEW i \in 1 .. Len(journal[p]), u = journal[p][i]
                     PROVE  u \in Range(journal'[p])
          BY <3>3 DEF Range
        <5>1. i \in DOMAIN journal'[p] /\ u = journal'[p][i]  BY <1>1, <3>3
        <5> QED  BY <5>1 DEF Range
      <4>3. t \in Range(journal'[p])
        <5>1. Len(journal[p]) + 1 \in DOMAIN journal'[p]  BY <1>1, <3>3
        <5> QED  BY <5>1, <3>3 DEF Range
      <4> QED  BY <4>1, <4>2, <4>3
    <3>5. Range(journal'[p]) = {u \in StepsOf(p) : outcome'[u] = "ok"}
      <4>1. \A u \in StepsOf(p) \ {t} : outcome'[u] = outcome[u]  BY <2>1 DEF StepsOf
      <4>2. Range(journal[p]) = {u \in StepsOf(p) : outcome[u] = "ok"}
        BY <1>0 DEF JournalAgrees
      <4> QED  BY <3>1, <3>2, <3>4, <4>1, <4>2
    <3>6. undone'[p] = <<>> /\ stage'[p] = "running"
      BY <1>0, <3>1, <3>2 DEF JournalAgrees
    <3>7. Len(undone'[p]) = 0  BY <3>6, EmptySeq
    <3> QED  BY <1>1, <3>3, <3>5, <3>6, <3>7 DEF JournalAgrees, StepsOf
  <2> QED  BY <2>4, <2>5, <2>6
<1>4. ASSUME NEW q \in Plan, EndContext(q) \/ RunPlan(q)  PROVE JournalAgrees(p)'
  <2>1. UNCHANGED <<pc, outcome, journal>>
    BY <1>4 DEF EndContext, RunPlan, Finish, Undo, RolledBack, stepVars
  <2>2. CASE q # p \/ EndContext(q)
    <3>1. UNCHANGED <<stage[p], journal[p], undone[p]>>
      BY <1>4, <2>2 DEF EndContext, RunPlan, Finish, Undo, RolledBack, PlanTypeOK
    <3> QED  BY <1>2, <2>1, <3>1
  <2>3. CASE q = p /\ Finish(p)
    <3>1. /\ stage[p] = "running" /\ stage'[p] \in {"rolling", "succeeded"} /\ UNCHANGED undone
          /\ \A t \in StepsOf(p) : pc[t] \in {"idle", "ended"}
      BY <2>3 DEF Finish, Quiet, PlanTypeOK
    <3> QED  BY <1>0, <2>1, <3>1 DEF JournalAgrees, StepsOf
  <2>4. CASE q = p /\ RolledBack(p)
    <3>1. /\ stage[p] = "rolling" /\ stage'[p] = "failed" /\ UNCHANGED undone
          /\ Len(undone[p]) = Len(journal[p])
      BY <2>4 DEF RolledBack, PlanTypeOK
    <3> QED  BY <1>0, <2>1, <3>1 DEF JournalAgrees, StepsOf
  <2>5. CASE q = p /\ Undo(p)
    <3> DEFINE left == Len(journal[p]) - Len(undone[p])
    <3>1. /\ stage[p] = "rolling" /\ UNCHANGED stage /\ left > 0
          /\ undone'[p] = Append(undone[p], journal[p][left])
      BY <2>5 DEF Undo, PlanTypeOK
    <3>2. left \in 1 .. Len(journal[p]) /\ journal[p][left] \in Task
      <4>1. \A m, n \in Nat : m - n > 0 => m - n \in 1 .. m  OBVIOUS
      <4>2. left \in 1 .. Len(journal[p])  BY <1>1, <3>1, <4>1
      <4> QED  BY <1>1, <4>2, ElementOfSeq
    <3>3. /\ Len(undone'[p]) = Len(undone[p]) + 1
          /\ undone'[p][Len(undone[p]) + 1] = journal[p][left]
          /\ \A i \in 1 .. Len(undone[p]) : undone'[p][i] = undone[p][i]
      BY <1>1, <3>1, <3>2, AppendProperties
    <3>4. ASSUME NEW i \in 1 .. Len(undone'[p])
          PROVE  undone'[p][i] = journal'[p][Len(journal'[p]) - i + 1]
      <4>1. CASE i \in 1 .. Len(undone[p])
        BY <4>1, <1>0, <2>1, <3>3 DEF JournalAgrees
      <4>2. CASE i = Len(undone[p]) + 1
        <5>1. Len(journal[p]) - i + 1 = left  BY <4>2, <1>1
        <5> QED  BY <4>2, <5>1, <2>1, <3>3
      <4> QED  BY <4>1, <4>2, <1>1, <3>3
    <3>5. Len(undone'[p]) <= Len(journal'[p])
      <4>1. \A m, n \in Nat : m - n > 0 => n + 1 <= m  OBVIOUS
      <4>2. Len(undone[p]) + 1 <= Len(journal[p])  BY <1>1, <3>1, <4>1
      <4> QED  BY <2>1, <3>3, <4>2
    <3> QED  BY <1>0, <2>1, <3>1, <3>4, <3>5 DEF JournalAgrees, StepsOf
  <2> QED  BY <1>4, <2>2, <2>3, <2>4, <2>5 DEF RunPlan
<1>5. CASE Expire \/ Sweep \/ UNCHANGED vars
  <2>1. UNCHANGED <<pc, outcome, planVars>>
    BY <1>5 DEF Expire, Sweep, vars, stepVars
  <2> QED  BY <2>1, <1>2 DEF planVars
<1> QED  BY <1>3, <1>4, <1>5 DEF Next

----------------------------------------------------------------------------
(* The invariant, and what follows from it *)

LEMMA ToolInit ==
  ASSUME Init  PROVE ToolIInv
<1> USE DEF Init, QueueInit
<1>1. TypeOK
  <2>1. queues \in [Class -> Seq(Task)] /\ <<>> \in Seq(Task)  BY EmptySeq
  <2> QED  BY <2>1, Limits DEF TypeOK, QueueTypeOK, Place, NoEntry
<1>2. QueuesHoldTheWaiting
  <2>1. \A c \in Class : queues[c] = <<>> /\ DOMAIN queues[c] = {}  BY EmptySeq
  <2> QED  BY <2>1 DEF QueuesHoldTheWaiting, Waiting, Range
<1>3. PlacesAgree /\ CountsLeft  BY Limits DEF PlacesAgree, CountsLeft, Inside
<1>4. ~(\E t \in Task : HoldsClaim(t)) /\ \A k \in Key : entry[k] = NoEntry /\ NoEntry.state = "none"
  BY DEF HoldsClaim, NoEntry
<1>5. LedgerIInv
  <2>1. ClaimsAreExclusive  BY <1>4 DEF ClaimsAreExclusive
  <2>2. OrderMatches  BY <1>4 DEF OrderMatches, Queued
  <2>3. RanIsRemembered /\ CallersRan /\ SecondRunIsExplained /\ ReplaysAreTrue
    BY DEF RanIsRemembered, CallersRan, SecondRunIsExplained, ReplaysAreTrue
  <2>4. DoneWasDone /\ OwnerRanAlone  BY <1>4 DEF DoneWasDone, OwnerRanAlone
  <2> QED  BY <2>1, <2>2, <2>3, <2>4 DEF LedgerIInv
<1>6. JournalsAgree
  <2>1. \A p \in Plan : journal[p] = <<>> /\ undone[p] = <<>> /\ Len(<<>>) = 0
    BY EmptySeq
  <2>2. \A p \in Plan : Range(journal[p]) = {}
    <3>1. \A p \in Plan : DOMAIN journal[p] = {}  BY EmptySeq
    <3> QED  BY <3>1 DEF Range
  <2> QED  BY <2>1, <2>2 DEF JournalsAgree, StepsOf
<1> QED  BY <1>1, <1>2, <1>3, <1>5, <1>6 DEF ToolIInv

LEMMA ToolStep ==
  ASSUME ToolIInv, [Next]_vars  PROVE ToolIInv'
<1>1. TypeOK /\ QueueIInv /\ StepIInv /\ LedgerTypeOK /\ StepTypeOK /\ PlanTypeOK
  BY TypeParts DEF ToolIInv, QueueIInv, StepIInv
<1>2. TypeOK'  BY <1>1, TypeStep
<1>3. QueuesHoldTheWaiting'  BY <1>1, QueueStep DEF QueueIInv
<1>4. PlacesAgree' /\ CountsLeft'  BY <1>1, StepsStep DEF StepIInv
<1>5. LedgerIInv'  BY <1>1, LedgerStep DEF ToolIInv
<1>6. CallersRan /\ JournalsAgree  BY DEF ToolIInv, LedgerIInv
<1>7. \A p \in Plan : JournalAgrees(p)'  BY <1>1, <1>6, JournalStep
<1>8. JournalsAgree'  BY <1>7 DEF JournalsAgree, JournalAgrees
<1> QED  BY <1>2, <1>3, <1>4, <1>5, <1>8 DEF ToolIInv

\* Every step of the queue, the dispatcher, the executor, the ledger's timer and
\* the compensator keeps the inductive invariant.
THEOREM ToolInductive == Spec => []ToolIInv
BY ToolInit, ToolStep, PTL DEF Spec

\* Types; waiters stand in one queue, and only while no slot is free; whoever is
\* at work on a key holds its entry alone; the ledger's queue names its entries;
\* and what was called is remembered (Acquire, Release; Claim, Settle, Release).
THEOREM LedgerSafe == Spec => []LedgerInv
<1>1. ToolIInv => LedgerInv  BY DEF ToolIInv, LedgerIInv, LedgerInv
<1> QED  BY <1>1, ToolInductive, PTL

\* A tool is called by two executions for one key only after the ledger lost
\* what it knew of the key.
THEOREM SecondRuns == Spec => []SecondRunIsExplained
<1>1. ToolIInv => SecondRunIsExplained  BY DEF ToolIInv, LedgerIInv
<1> QED  BY <1>1, ToolInductive, PTL

\* Whoever is told "done already" shares its key with an execution that called
\* the tool and whose answer was accepted.
THEOREM Replays == Spec => []ReplaysAreTrue
<1>1. ToolIInv => ReplaysAreTrue  BY DEF ToolIInv, LedgerIInv
<1> QED  BY <1>1, ToolInductive, PTL

LEMMA UndoneIsReversed ==
  ASSUME PlanTypeOK, JournalsAgree  PROVE FailedPlansAreUndone
<1> SUFFICES ASSUME NEW p \in Plan
             PROVE  /\ stage[p] = "failed" =>
                         /\ Range(undone[p]) = {t \in StepsOf(p) : outcome[t] = "ok"}
                         /\ undone[p] = Reverse(journal[p])
                    /\ stage[p] = "succeeded" => undone[p] = <<>>
  BY DEF FailedPlansAreUndone
<1>1. stage[p] = "succeeded" => undone[p] = <<>>  BY DEF JournalsAgree
<1>2. ASSUME stage[p] = "failed"
      PROVE  /\ Range(undone[p]) = {t \in StepsOf(p) : outcome[t] = "ok"}
             /\ undone[p] = Reverse(journal[p])
  <2> DEFINE j == journal[p]
             u == undone[p]
  <2>1. /\ Range(j) = {t \in StepsOf(p) : outcome[t] = "ok"} /\ Len(u) = Len(j)
        /\ \A i \in 1 .. Len(u) : u[i] = j[Len(j) - i + 1]
    BY <1>2 DEF JournalsAgree
  <2>2. /\ j \in Seq(Task) /\ u \in Seq(Task) /\ Len(j) \in Nat
        /\ u = [i \in 1 .. Len(u) |-> u[i]] /\ DOMAIN u = 1 .. Len(u) /\ DOMAIN j = 1 .. Len(j)
    BY LenProperties DEF PlanTypeOK
  <2> HIDE DEF j, u
  <2>3. u = Reverse(j)  BY <2>1, <2>2 DEF Reverse
  <2>4. Range(u) = Range(j)
    <3>1. \A i \in 1 .. Len(j) : Len(j) - i + 1 \in 1 .. Len(j) /\ Len(j) - (Len(j) - i + 1) + 1 = i
      BY <2>2
    <3>2. \A i \in 1 .. Len(j) : j[i] = u[Len(j) - i + 1]  BY <2>1, <3>1
    <3>3. ASSUME NEW x \in Range(u)  PROVE x \in Range(j)
      <4>1. PICK i \in 1 .. Len(j) : x = u[i]  BY <2>1, <2>2 DEF Range
      <4>2. x = j[Len(j) - i + 1]  BY <2>1, <4>1
      <4> QED  BY <2>2, <3>1, <4>2 DEF Range
    <3>4. ASSUME NEW x \in Range(j)  PROVE x \in Range(u)
      <4>1. PICK i \in 1 .. Len(j) : x = j[i]  BY <2>2 DEF Range
      <4>2. x = u[Len(j) - i + 1]  BY <3>2, <4>1
      <4> QED  BY <2>1, <2>2, <3>1, <4>2 DEF Range
    <3> QED  BY <3>3, <3>4
  <2> QED  BY <2>1, <2>3, <2>4 DEF u, j
<1> QED  BY <1>1, <1>2

\* A plan that failed has tried to undo what it completed, last step first, and
\* a plan that succeeded nothing (Rollback).
THEOREM RollbackComplete == Spec => []FailedPlansAreUndone
<1>1. ToolIInv => FailedPlansAreUndone  BY UndoneIsReversed, TypeParts DEF ToolIInv
<1> QED  BY <1>1, ToolInductive, PTL

\* Who waits for a key waits for one who goes on; who waits for a slot that is
\* not lost, for one who holds it and goes on.
LEMMA SomeoneGoesOn ==
  ASSUME ToolIInv  PROVE NoStandstill
<1>0. /\ StepTypeOK /\ PlanTypeOK /\ PlacesAgree /\ ClaimsAreExclusive /\ QueuesHoldTheWaiting
      /\ QueueTypeOK
  BY TypeParts DEF ToolIInv, LedgerIInv
<1>1. ASSUME NEW t \in Task, pc[t] = "waiting"  PROVE \E u \in Task : CanGoOn(u)
  <2>1. CASE entry[KeyOf[t]] # [state |-> "inFlight", owner |-> holder[t]]
    BY <1>1, <2>1 DEF CanGoOn
  <2>2. CASE entry[KeyOf[t]] = [state |-> "inFlight", owner |-> holder[t]]
    <3>1. KeyOf[t] \in Key /\ entry[KeyOf[t]].state = "inFlight"  BY <2>2, Limits
    <3>2. \E u \in Task : HoldsClaim(u)  BY <1>0, <3>1 DEF ClaimsAreExclusive
    <3>3. PICK u \in Task : HoldsClaim(u)  BY <3>2
    <3>4. pc[u] \in {"entering", "calling", "called", "releasing", "returning"}
      BY <3>3 DEF HoldsClaim
    <3> QED  BY <3>4 DEF CanGoOn
  <2> QED  BY <2>1, <2>2
<1>2. ASSUME NEW t \in Task, pc[t] = "queued", EverySlotHasAHolder
      PROVE  \E u \in Task : CanGoOn(u)
  <2>1. CASE place[t] = "granted"  BY <1>2, <2>1 DEF CanGoOn
  <2>2. CASE place[t] = "queued"
    <3>1. PICK c \in Class : t \in Range(queues[c])
      BY <1>0, <2>2 DEF QueuesHoldTheWaiting
    <3>2. queues[c] # <<>>
      <4>1. DOMAIN queues[c] # {}  BY <3>1 DEF Range
      <4> QED  BY <4>1, EmptySeq
    <3>3. inFlight >= MaxConcurrent
      BY <1>0, <3>2 DEF QueuesHoldTheWaiting, Waiting
    <3>4. Cardinality(Holders) # 0
      BY <1>0, <1>2, <3>3, QueueAssumption DEF EverySlotHasAHolder, QueueTypeOK
    <3>5. PICK u \in Task : place[u] \in {"granted", "running"}
      <4>1. Holders # {}  BY <3>4, FS_EmptySet
      <4> QED  BY <4>1 DEF Holders
    <3>6. CASE place[u] = "granted"  BY <1>0, <3>6 DEF PlacesAgree, CanGoOn
    <3>7. CASE place[u] = "running"
      <4>1. pc[u] \in Inside  BY <1>0, <3>7 DEF PlacesAgree
      <4>2. CASE pc[u] = "waiting"  BY <4>2, <1>1
      <4>3. CASE pc[u] # "waiting"  BY <4>1, <4>3 DEF Inside, CanGoOn
      <4> QED  BY <4>2, <4>3
    <3> QED  BY <3>5, <3>6, <3>7
  <2> QED  BY <1>0, <1>2, <2>1, <2>2 DEF PlacesAgree
<1> SUFFICES ASSUME NEW p \in Plan, stage[p] \notin {"succeeded", "failed"}, stage[p] # "rolling",
                    ~Quiet(p), EverySlotHasAHolder
             PROVE  \E t \in Task : CanGoOn(t)
  BY <1>0 DEF NoStandstill, PlanTypeOK
<1>3. PICK t \in Task : pc[t] # "ended" /\ ~(pc[t] = "idle" /\ ~Startable(t))
  BY DEF Quiet, StepsOf
<1>4. CASE pc[t] = "idle"  BY <1>3, <1>4 DEF CanGoOn
<1>5. CASE pc[t] = "waiting"  BY <1>1, <1>5
<1>6. CASE pc[t] = "queued"  BY <1>2, <1>6
<1>7. CASE pc[t] \notin {"idle", "waiting", "queued"}  BY <1>3, <1>7 DEF CanGoOn
<1> QED  BY <1>4, <1>5, <1>6, <1>7

\* While a plan is unfinished some goroutine can go on, unless the queue has lost
\* a slot: no executions wait for each other for ever (Acquire, Claim, Await).
THEOREM StandstillFree == Spec => []NoStandstill
BY SomeoneGoesOn, ToolInductive, PTL

=============================================================================
