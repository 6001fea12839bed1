------------------------------- MODULE FeedProofs --------------------------------
(***************************************************************************)
(* Theorems about the feed of transfer updates.  JobInv says in which      *)
(* orders the two goroutines of a run can emit, and gives what the bus was *)
(* told last.  FlowInv follows the last update of a job from the buffer of *)
(* the bus over fanout and a connection into a page: it is in one of these *)
(* places, or a page missed it.                                            *)
(***************************************************************************)
EXTENDS Feed, TLAPS, SequenceTheorems

Request(j) == <<j, "request">>
Ending     == {"closing", "last", "over"}

-----------------------------------------------------------------------------
(* The updates of one job in a queue                                       *)

\* Some update of job j is in the queue q.
Has(q, j) == \E i \in 1..Len(q) : q[i].job = j

\* The last update of job j in the queue q, if there is one, says s.
LastIs(q, j, s) ==
  \A i \in 1..Len(q) :
    q[i].job = j /\ (\A k \in (i + 1)..Len(q) : q[k].job # j) => q[i].status = s

\* An update appended for the job is its last one; one for another job changes nothing.
LEMMA Appended ==
  ASSUME NEW q \in Seq(Update), NEW u \in Update, NEW j
  PROVE  /\ Append(q, u) \in Seq(Update)
         /\ Has(Append(q, u), j) <=> Has(q, j) \/ u.job = j
         /\ u.job = j => LastIs(Append(q, u), j, u.status)
         /\ \A s : u.job # j /\ LastIs(q, j, s) => LastIs(Append(q, u), j, s)
<1> DEFINE r == Append(q, u)
           n == Len(q)
<1>1. /\ r \in Seq(Update) /\ Len(r) = n + 1 /\ n \in Nat
      /\ \A i \in 1..n : r[i] = q[i]
      /\ r[n + 1] = u
  BY AppendProperties
<1>2. \A i : i \in 1..(n + 1) <=> i \in 1..n \/ i = n + 1
  BY <1>1
<1> HIDE DEF r, n
<1>3. Has(r, j) <=> Has(q, j) \/ u.job = j
  BY <1>1, <1>2 DEF Has, n
<1>4. ASSUME u.job = j PROVE LastIs(r, j, u.status)
  <2> SUFFICES ASSUME NEW i \in 1..Len(r), \A k \in (i + 1)..Len(r) : r[k].job # j
               PROVE  r[i].status = u.status
    BY DEF LastIs
  <2>1. i = n + 1 BY <1>1, <1>2, <1>4
  <2> QED BY <1>1, <2>1
<1>5. ASSUME NEW s, u.job # j, LastIs(q, j, s) PROVE LastIs(r, j, s)
  <2> SUFFICES ASSUME NEW i \in 1..Len(r), r[i].job = j,
                      \A k \in (i + 1)..Len(r) : r[k].job # j
               PROVE  r[i].status = s
    BY DEF LastIs
  <2>1. i \in 1..n BY <1>1, <1>2, <1>5
  <2>2. \A k \in (i + 1)..n : q[k].job # j BY <1>1, <2>1
  <2> QED BY <1>1, <1>5, <2>1, <2>2 DEF LastIs, n
<1> QED BY <1>1, <1>3, <1>4, <1>5 DEF r

\* Taking the head leaves the last update of a job the last one, unless it was the head.
LEMMA HeadTaken ==
  ASSUME NEW q \in Seq(Update), q # <<>>, NEW j
  PROVE  /\ Tail(q) \in Seq(Update) /\ Head(q) \in Update /\ Len(Tail(q)) = Len(q) - 1
         /\ Has(q, j) <=> Has(Tail(q), j) \/ Head(q).job = j
         /\ \A s : LastIs(q, j, s) =>
              /\ LastIs(Tail(q), j, s)
              /\ Head(q).job = j /\ ~ Has(Tail(q), j) => Head(q).status = s
<1> DEFINE t == Tail(q)
           n == Len(q)
<1>1. /\ t \in Seq(Update) /\ n \in Nat /\ n >= 1 /\ Len(t) = n - 1 /\ Head(q) \in Update
      /\ Head(q) = q[1]
      /\ \A i \in 1..(n - 1) : t[i] = q[i + 1]
  BY HeadTailProperties
<1> HIDE DEF t, n
<1>2. \A i \in 2..n : q[i] = t[i - 1] /\ i - 1 \in 1..(n - 1)
  <2> SUFFICES ASSUME NEW i \in 2..n PROVE q[i] = t[i - 1] /\ i - 1 \in 1..(n - 1)
    OBVIOUS
  <2>1. i - 1 \in 1..(n - 1) /\ (i - 1) + 1 = i BY <1>1
  <2> QED BY <1>1, <2>1
<1>3. Has(q, j) <=> Has(t, j) \/ Head(q).job = j
  <2>1. ASSUME Has(q, j), Head(q).job # j PROVE Has(t, j)
    <3>1. PICK i \in 1..n : q[i].job = j BY <2>1 DEF Has, n
    <3>2. i \in 2..n BY <1>1, <2>1, <3>1
    <3> QED BY <1>1, <1>2, <3>1, <3>2 DEF Has
  <2>2. ASSUME Has(t, j) PROVE Has(q, j)
    <3>1. PICK i \in 1..(n - 1) : t[i].job = j BY <1>1, <2>2 DEF Has
    <3>2. i + 1 \in 1..n /\ q[i + 1].job = j BY <1>1, <3>1
    <3> QED BY <3>2 DEF Has, n
  <2>3. ASSUME Head(q).job = j PROVE Has(q, j)
    <3>1. 1 \in 1..n /\ q[1].job = j BY <1>1, <2>3
    <3> QED BY <3>1 DEF Has, n
  <2> QED BY <2>1, <2>2, <2>3
<1>4. ASSUME NEW s, LastIs(q, j, s) PROVE LastIs(t, j, s)
  <2> SUFFICES ASSUME NEW i \in 1..Len(t), t[i].job = j,
                      \A k \in (i + 1)..Len(t) : t[k].job # j
               PROVE  t[i].status = s
    BY DEF LastIs
  <2>1. i + 1 \in 1..n /\ q[i + 1] = t[i] BY <1>1
  <2>2. ASSUME NEW k \in (i + 1 + 1)..n PROVE q[k].job # j
    <3>1. k \in 2..n /\ k - 1 \in (i + 1)..Len(t) BY <1>1, <2>2
    <3> QED BY <1>2, <3>1
  <2> QED BY <1>4, <2>1, <2>2 DEF LastIs, n
<1>5. ASSUME NEW s, LastIs(q, j, s), Head(q).job = j, ~ Has(t, j) PROVE Head(q).status = s
  <2>1. ASSUME NEW k \in (1 + 1)..n PROVE q[k].job # j
    <3>1. q[k] = t[k - 1] /\ k - 1 \in 1..Len(t) BY <1>1, <1>2, <2>1
    <3> QED BY <1>5, <3>1 DEF Has
  <2>2. 1 \in 1..n /\ q[1].job = j BY <1>1, <1>5
  <2> QED BY <1>1, <1>5, <2>1, <2>2 DEF LastIs, n
<1> QED BY <1>1, <1>3, <1>4, <1>5 DEF t, n

\* Where what is cut off a queue holds no update of a job, nothing changes for the job.
LEMMA CutOff ==
  ASSUME NEW q \in Seq(Update), NEW n \in 0..Len(q), NEW j,
         \A i \in (n + 1)..Len(q) : q[i].job # j
  PROVE  /\ SubSeq(q, 1, n) \in Seq(Update)
         /\ Has(SubSeq(q, 1, n), j) <=> Has(q, j)
         /\ \A s : LastIs(q, j, s) => LastIs(SubSeq(q, 1, n), j, s)
<1> DEFINE r == SubSeq(q, 1, n)
           m == Len(q)
<1>1. m \in Nat /\ n \in Nat /\ n <= m /\ \A i \in 1..n : i \in 1..m /\ q[i] \in Update
  OBVIOUS
<1>2. r \in Seq(Update) /\ Len(r) = n /\ \A i \in 1..n : r[i] = q[i]
  BY <1>1, SubSeqProperties
<1> HIDE DEF r
<1>3. Has(r, j) <=> Has(q, j)
  BY <1>1, <1>2 DEF Has
<1>4. ASSUME NEW s, LastIs(q, j, s) PROVE LastIs(r, j, s)
  <2> SUFFICES ASSUME NEW i \in 1..n, r[i].job = j, \A k \in (i + 1)..n : r[k].job # j
               PROVE  r[i].status = s
    BY <1>2 DEF LastIs
  <2>1. \A k \in (i + 1)..m : q[k].job # j
    <3> SUFFICES ASSUME NEW k \in (i + 1)..m PROVE q[k].job # j
      OBVIOUS
    <3>1. CASE k <= n BY <1>1, <1>2, <3>1
    <3>2. CASE k > n BY <1>1, <3>2
    <3> QED BY <1>1, <3>1, <3>2
  <2> QED BY <1>1, <1>2, <1>4, <2>1 DEF LastIs
<1> QED BY <1>2, <1>3, <1>4 DEF r
------------------------------------------------------------------------------
(* The run of a job and its updates                                        *)

\* The job's status and its goroutines go together.
RunsInOrder ==
  \A j \in Jobs :
    /\ status[j] = "queued" <=> pc[Worker(j)] = "idle"
    /\ Ended(j) <=> pc[Worker(j)] \in Ending
    /\ pc[Worker(j)] # "on"
    /\ pc[Ticker(j)] \in {"idle", "on", "last", "over"}
    /\ pc[Ticker(j)] = "idle" \/ pc[Worker(j)] \in {"copying"} \cup Ending

\* A snapshot is taken at three places only, and one that tells an outcome tells the
\* job's: the status does not change after the end.
Held ==
  \A e \in Emitters :
    /\ hand[e] # None => pc[e] \in {"first", "on", "last"}
    /\ hand[e] \in Outcomes => hand[e] = status[e[1]]

AcceptedIsFinal == \A j \in Jobs : accepted[j] \in Outcomes => accepted[j] = status[j]

\* A first run ends with its done channel closed after the status is set, each goroutine
\* takes its last snapshot after that, and what comes after a last update is a last one.
Told ==
  \A j \in Jobs \ retried :
    /\ pc[Request(j)] = "idle"
    /\ done[j] => pc[Worker(j)] \in {"last", "over"}
    /\ pc[Ticker(j)] \in {"last", "over"} => done[j]
    /\ \A e \in {Worker(j), Ticker(j)} : pc[e] = "last" /\ hand[e] # None => hand[e] = status[j]
    /\ pc[Ticker(j)] = "over" => offered[j] = status[j]
    /\ pc[Ticker(j)] = "idle" /\ pc[Worker(j)] = "over" => offered[j] = status[j]

JobTypes ==
  /\ status \in [Jobs -> Status] /\ done \in [Jobs -> BOOLEAN] /\ retried \subseteq Jobs
  /\ pc \in [Emitters -> {"idle", "first", "client", "copying", "closing", "on", "last", "over"}]
  /\ hand \in [Emitters -> Status \cup {None}]
  /\ offered \in [Jobs -> Status \cup {None}] /\ accepted \in [Jobs -> Status \cup {None}]

JobInv == JobTypes /\ RunsInOrder /\ Held /\ AcceptedIsFinal /\ Told

LEMMA EmitterFacts ==
  /\ \A j \in Jobs : /\ Worker(j) \in Emitters /\ Ticker(j) \in Emitters /\ Request(j) \in Emitters
                     /\ Worker(j)[1] = j /\ Ticker(j)[1] = j /\ Request(j)[1] = j
  /\ \A e \in Emitters :
       e[1] \in Jobs /\ (e = Worker(e[1]) \/ e = Ticker(e[1]) \/ e = Request(e[1]))
  /\ \A i, j : /\ Worker(i) # Ticker(j) /\ Worker(i) # Request(j) /\ Ticker(i) # Request(j)
               /\ Worker(i) = Worker(j) => i = j
               /\ Ticker(i) = Ticker(j) => i = j
               /\ Request(i) = Request(j) => i = j
BY DEF Emitters, Worker, Ticker, Request

LEMMA RunKept ==
  ASSUME JobInv, NEW j \in Jobs, Run(j)
  PROVE  JobInv'
<1> USE EmitterFacts
<1> USE DEF JobInv
<1>1. JobTypes' BY DEF Run, JobTypes, OnlyJobs, busVars, Goto, Status
<1>2. RunsInOrder' BY DEF Run, JobTypes, RunsInOrder, At, Goto, Ending, Ended, Outcomes
<1>3. Held' BY DEF Run, JobTypes, RunsInOrder, Held, At, Goto, Outcomes
<1>4. AcceptedIsFinal' BY DEF Run, JobTypes, RunsInOrder, AcceptedIsFinal, At, OnlyJobs, busVars, Outcomes
<1>5. Told' BY DEF Run, JobTypes, RunsInOrder, Told, At, Goto, OnlyJobs, busVars
<1> QED BY <1>1, <1>2, <1>3, <1>4, <1>5
LEMMA ProgressKept ==
  ASSUME JobInv, NEW j \in Jobs, ProgressFunc(j)
  PROVE  JobInv'
<1> USE EmitterFacts
<1> USE DEF JobInv, ProgressFunc
<1>1. JobTypes' BY DEF JobTypes, OnlyJobs, busVars, Goto, At, Status, Outcomes
<1>2. RunsInOrder' BY DEF JobTypes, RunsInOrder, At, Goto, Ending, Ended, Outcomes
<1>3. Held' BY DEF JobTypes, RunsInOrder, Held, Ending, Ended, At, Goto, Outcomes
<1>4. AcceptedIsFinal'
  BY DEF JobTypes, RunsInOrder, AcceptedIsFinal, At, OnlyJobs, busVars, Outcomes, Ending, Ended
<1>5. Told' BY DEF JobTypes, RunsInOrder, Held, Told, At, Goto, OnlyJobs, busVars
<1> QED BY <1>1, <1>2, <1>3, <1>4, <1>5

LEMMA StatusKept ==
  ASSUME JobInv, NEW j \in Jobs, NEW outcome \in Outcomes, SetStatus(j, outcome)
  PROVE  JobInv'
<1> USE EmitterFacts
<1> USE DEF JobInv, SetStatus
<1>1. JobTypes' BY DEF JobTypes, OnlyJobs, busVars, Goto, At, Status, Outcomes
<1>2. RunsInOrder' BY DEF JobTypes, RunsInOrder, At, Goto, Ending, Ended, Outcomes
<1>3. Held' BY DEF JobTypes, RunsInOrder, Held, Ending, Ended, At, Goto, Outcomes
<1>4. AcceptedIsFinal'
  BY DEF JobTypes, RunsInOrder, AcceptedIsFinal, At, OnlyJobs, busVars, Outcomes, Ending, Ended
<1>5. Told' BY DEF JobTypes, RunsInOrder, Held, Told, At, Goto, OnlyJobs, busVars
<1> QED BY <1>1, <1>2, <1>3, <1>4, <1>5

LEMMA CloseKept ==
  ASSUME JobInv, NEW j \in Jobs, CloseDone(j)
  PROVE  JobInv'
<1> USE EmitterFacts
<1> USE DEF JobInv, CloseDone
<1>1. JobTypes' BY DEF JobTypes, OnlyJobs, busVars, Goto, At, Status, Outcomes
<1>2. RunsInOrder' BY DEF JobTypes, RunsInOrder, At, Goto, Ending, Ended, Outcomes
<1>3. Held' BY DEF JobTypes, RunsInOrder, Held, Ending, Ended, At, Goto, Outcomes
<1>4. AcceptedIsFinal'
  BY DEF JobTypes, RunsInOrder, AcceptedIsFinal, At, OnlyJobs, busVars, Outcomes, Ending, Ended
<1>5. Told' BY DEF JobTypes, RunsInOrder, Held, Told, At, Goto, OnlyJobs, busVars
<1> QED BY <1>1, <1>2, <1>3, <1>4, <1>5

LEMMA SnapshotKept ==
  ASSUME JobInv, NEW e \in Emitters, Snapshot(e)
  PROVE  JobInv'
<1> USE EmitterFacts
<1> USE DEF JobInv, Snapshot
<1>1. JobTypes' BY DEF JobTypes, OnlyJobs, busVars, Goto, At, Status, Outcomes
<1>2. RunsInOrder' BY DEF JobTypes, RunsInOrder, At, Goto, Ending, Ended, Outcomes
<1>3. Held' BY DEF JobTypes, RunsInOrder, Held, Ending, Ended, At, Goto, Outcomes
<1>4. AcceptedIsFinal'
  BY DEF JobTypes, RunsInOrder, AcceptedIsFinal, At, OnlyJobs, busVars, Outcomes, Ending, Ended
<1>5. Told' BY DEF JobTypes, RunsInOrder, Held, Told, At, Goto, OnlyJobs, busVars
<1> QED BY <1>1, <1>2, <1>3, <1>4, <1>5

LEMMA TickKept ==
  ASSUME JobInv, NEW j \in Jobs, Tick(j)
  PROVE  JobInv'
<1> USE EmitterFacts
<1> USE DEF JobInv, Tick
<1>1. JobTypes' BY DEF JobTypes, OnlyJobs, busVars, Goto, At, Status, Outcomes
<1>2. RunsInOrder' BY DEF JobTypes, RunsInOrder, At, Goto, Ending, Ended, Outcomes
<1>3. Held' BY DEF JobTypes, RunsInOrder, Held, Ending, Ended, At, Goto, Outcomes
<1>4. AcceptedIsFinal'
  BY DEF JobTypes, RunsInOrder, AcceptedIsFinal, At, OnlyJobs, busVars, Outcomes, Ending, Ended
<1>5. Told' BY DEF JobTypes, RunsInOrder, Held, Told, At, Goto, OnlyJobs, busVars
<1> QED BY <1>1, <1>2, <1>3, <1>4, <1>5

LEMMA LastTickKept ==
  ASSUME JobInv, NEW j \in Jobs, LastTick(j)
  PROVE  JobInv'
<1> USE EmitterFacts
<1> USE DEF JobInv, LastTick
<1>1. JobTypes' BY DEF JobTypes, OnlyJobs, busVars, Goto, At, Status, Outcomes
<1>2. RunsInOrder' BY DEF JobTypes, RunsInOrder, At, Goto, Ending, Ended, Outcomes
<1>3. Held' BY DEF JobTypes, RunsInOrder, Held, Ending, Ended, At, Goto, Outcomes
<1>4. AcceptedIsFinal'
  BY DEF JobTypes, RunsInOrder, AcceptedIsFinal, At, OnlyJobs, busVars, Outcomes, Ending, Ended
<1>5. Told' BY DEF JobTypes, RunsInOrder, Held, Told, At, Goto, OnlyJobs, busVars
<1> QED BY <1>1, <1>2, <1>3, <1>4, <1>5

\* What Emit makes of the place of the emitter.
LEMMA AfterEmits ==
  /\ AfterEmit["first"] = "client" /\ AfterEmit["on"] = "on" /\ AfterEmit["last"] = "over"
BY DEF AfterEmit

LEMMA EmitKept ==
  ASSUME JobInv, NEW e \in Emitters, Emit(e)
  PROVE  JobInv'
<1> DEFINE j == e[1]
           there == AfterEmit[pc[e]]
<1> USE EmitterFacts DEF JobInv
<1>1. /\ hand[e] # None /\ pc[e] \in {"first", "on", "last"} /\ j \in Jobs
      /\ hand[e] \in Status
      /\ there = IF pc[e] = "first" THEN "client" ELSE IF pc[e] = "on" THEN "on" ELSE "over"
  BY AfterEmits DEF Emit, Held, JobTypes
<1>2. /\ hand' = [hand EXCEPT ![e] = None]
      /\ pc' = [pc EXCEPT ![e] = there]
      /\ offered' = [offered EXCEPT ![j] = hand[e]]
      /\ accepted' \in {accepted, [accepted EXCEPT ![j] = hand[e]]}
      /\ UNCHANGED <<status, done, retried>>
  BY DEF Emit, Goto
<1> HIDE DEF j, there
<1>3. e[1] = j BY DEF j
<1>4. JobTypes' BY <1>1, <1>2, <1>3 DEF JobTypes
<1>5. RunsInOrder' BY <1>1, <1>2, <1>3 DEF JobTypes, RunsInOrder, Ended, Ending
<1>6. Held' BY <1>1, <1>2, <1>3, NoneAssumption DEF JobTypes, Held, Outcomes, Status
<1>7. AcceptedIsFinal' BY <1>1, <1>2, <1>3 DEF JobTypes, Held, AcceptedIsFinal
<1>8. Told' BY <1>1, <1>2, <1>3 DEF JobTypes, RunsInOrder, Held, Told, Ending
<1> QED BY <1>4, <1>5, <1>6, <1>7, <1>8

LEMMA JobsKept == JobInv /\ [Next]_vars => JobInv'
<1> SUFFICES ASSUME JobInv, [Next]_vars PROVE JobInv'
  OBVIOUS
<1>1. CASE UNCHANGED <<jobVars, offered, accepted>>
  BY <1>1 DEF JobInv, JobTypes, RunsInOrder, Held, AcceptedIsFinal, Told, jobVars, Ended
<1>2. CASE JobNext
  BY <1>2, RunKept, ProgressKept, StatusKept, CloseKept, SnapshotKept, TickKept, LastTickKept,
     EmitKept DEF JobNext
<1>3. CASE SendNext
  <2>1. UNCHANGED <<jobVars, offered, accepted>>
    BY <1>3 DEF SendNext, TakeEvent, Write, WriteFails, busVars
  <2> QED BY <1>1, <2>1
<1>4. CASE PageNext
  <2>1. UNCHANGED <<jobVars, offered, accepted>>
    BY <1>4 DEF PageNext, OnlyPages, busVars, RedeemBootstrapCode, DoBootstrap, Unauthorized, List,
                ListFails, Register, OnMessage, Cut, OnClose, Reconnect, Reload, Expire
  <2> QED BY <1>1, <2>1
<1>5. CASE UNCHANGED vars
  BY <1>1, <1>5 DEF vars, busVars
<1> QED BY <1>2, <1>3, <1>4, <1>5 DEF Next

LEMMA JobsBegin == Init => JobInv
<1> SUFFICES ASSUME Init PROVE JobInv
  OBVIOUS
<1>1. done \in [Jobs -> BOOLEAN] /\ \A j \in Jobs \ retried : ~ done[j]
  <2>1. done = [j \in Jobs |-> j \in retried] BY DEF Init, Idle
  <2>2. \A j \in Jobs \ retried : ~ done[j] BY <2>1, Zenon
  <2>3. \A j \in Jobs : (j \in retried) \in BOOLEAN OBVIOUS
  <2>4. done \in [Jobs -> BOOLEAN] BY <2>1, <2>3, Zenon
  <2> QED BY <2>2, <2>4
<1>2. \A j \in Jobs : status[j] = "queued" /\ pc[Worker(j)] = "idle" /\ pc[Ticker(j)] = "idle"
  BY EmitterFacts DEF Init, Idle, Worker, Ticker
<1>3. \A j \in Jobs \ retried : pc[Request(j)] = "idle"
  BY EmitterFacts DEF Init, Idle, Request
<1>4. JobTypes
  <2>1. pc \in [Emitters -> {"idle", "first", "client", "copying", "closing", "on", "last", "over"}]
    BY DEF Init, Idle
  <2>2. status \in [Jobs -> Status] /\ retried \subseteq Jobs
    BY DEF Init, Idle, Status
  <2> QED BY <1>1, <2>1, <2>2 DEF Init, Idle, JobTypes, Nothing
<1>5. RunsInOrder BY <1>2 DEF RunsInOrder, Ended, Outcomes, Ending
<1>6. \A e \in Emitters : hand[e] = None BY DEF Init, Idle
<1>7. \A j \in Jobs : accepted[j] = None BY DEF Init, Idle, Nothing
<1>8. Held /\ AcceptedIsFinal
  BY <1>6, <1>7, NoneAssumption DEF Held, AcceptedIsFinal, Outcomes, Status
<1>9. Told BY <1>1, <1>2, <1>3, <1>6, EmitterFacts DEF Told
<1> QED BY <1>4, <1>5, <1>8, <1>9 DEF JobInv

LEMMA LastToldIsTrue == JobInv => LastUpdateIsTrue
BY EmitterFacts DEF JobInv, RunsInOrder, Told, LastUpdateIsTrue, Quiet, Over, Ending

\* The last update the bus is given of a job that was never retried is its outcome, in
\* whatever order its worker and its ticker take their snapshots and emit them (emit,
\* progressFunc and setStatus of the transfer manager).
THEOREM LastUpdateInvariant == Spec => []LastUpdateIsTrue
BY LastToldIsTrue, JobsBegin, JobsKept, PTL DEF Spec
------------------------------------------------------------------------------
(* From the bus to a page                                                  *)

FlowTypes ==
  /\ buffer \in Seq(Update) /\ Len(buffer) <= BusBuffer
  /\ fan = None \/ fan \in [update : Update, to : SUBSET Windows]
  /\ clients \subseteq Windows
  /\ frames \in [Windows -> Seq(Update)]
  /\ \A w \in Windows : Len(frames[w]) <= SocketBuffer
  /\ page \in [Windows -> {"check", "redeemed", "unauthorized", "load"} \cup Loaded]
  /\ shown \in [Windows -> [Jobs -> Status \cup {None}]]
  /\ missed \in [Windows -> SUBSET Jobs]

\* A connection is registered, and holds frames, only of a page that fetched its list.
Registered ==
  /\ \A w \in Windows : w \in clients \/ frames[w] # <<>> => page[w] \in Loaded
  /\ fan # None => fan.to \subseteq clients

\* The last update of a job in the buffer is the last one accepted, and if there is none
\* the one fanout is writing is.
Taken ==
  \A j \in Jobs :
    /\ LastIs(buffer, j, accepted[j])
    /\ fan # None /\ fan.update.job = j /\ ~ Has(buffer, j) => fan.update.status = accepted[j]

\* fanout has an update of the job still to write to the page.
OnFan(w, j) == fan # None /\ fan.update.job = j /\ w \in fan.to

\* What a page was not passed over by is, in this order, still coming, the last of its
\* frames about the job, or what it shows.
ShowsTo(w, j) ==
  page[w] \in Loaded /\ j \notin missed[w] /\ ~ Has(buffer, j) /\ ~ OnFan(w, j) =>
    /\ LastIs(frames[w], j, accepted[j])
    /\ ~ Has(frames[w], j) /\ accepted[j] \in Outcomes => shown[w][j] = accepted[j]

FlowInv ==
  FlowTypes /\ Registered /\ Taken /\ \A w \in Windows, j \in Jobs : ShowsTo(w, j)

\* A step that brings the page nothing and takes nothing from it.
LEMMA PageSpared ==
  ASSUME NEW w, NEW j, ShowsTo(w, j),
         frames'[w] = frames[w], shown'[w][j] = shown[w][j], accepted'[j] = accepted[j],
         page'[w] \in Loaded => page[w] \in Loaded,
         j \in missed[w] \/ Has(buffer, j) \/ OnFan(w, j)
           => page'[w] \notin Loaded \/ j \in missed'[w] \/ Has(buffer, j)' \/ OnFan(w, j)'
  PROVE  ShowsTo(w, j)'
BY DEF ShowsTo, LastIs, Has, OnFan

LEMMA TakenSpared ==
  ASSUME Taken, buffer' = buffer, accepted' = accepted,
         fan' # None => fan # None /\ fan'.update = fan.update
  PROVE  Taken'
BY DEF Taken, LastIs, Has

\* fanout is done with one page: written, given up, or gone.
LEMMA FanDrops ==
  ASSUME FlowTypes, NEW v,
         fan' = IF fan = None \/ fan.to \ {v} = {}
                THEN None ELSE [update |-> fan.update, to |-> fan.to \ {v}]
  PROVE  /\ fan' = None \/ fan' \in [update : Update, to : SUBSET Windows]
         /\ fan' # None => /\ fan # None /\ fan'.update = fan.update
                           /\ fan'.to \subseteq fan.to \ {v}
         /\ \A w, j : OnFan(w, j)' <=> OnFan(w, j) /\ w # v
<1> DEFINE g == [update |-> fan.update, to |-> fan.to \ {v}]
<1>1. CASE fan = None \/ fan.to \ {v} = {}
  BY <1>1 DEF OnFan
<1>2. CASE fan # None /\ fan.to \ {v} # {}
  <2>1. g \in [update : Update, to : SUBSET Windows] BY <1>2 DEF FlowTypes
  <2>2. g # None BY <2>1, NoneAssumption
  <2>3. fan' = g /\ g.update = fan.update /\ g.to = fan.to \ {v} BY <1>2
  <2> HIDE DEF g
  <2>4. \A w, j : OnFan(w, j)' <=> OnFan(w, j) /\ w # v
    BY <1>2, <2>2, <2>3 DEF OnFan
  <2> QED BY <1>2, <2>1, <2>2, <2>3, <2>4
<1> QED BY <1>1, <1>2

\* What an emitted update does to the flow.
LEMMA EmitFlows ==
  ASSUME JobInv, FlowInv, NEW e \in Emitters, Emit(e)
  PROVE  FlowInv'
<1> DEFINE u == [job |-> e[1], status |-> hand[e]]
<1> USE DEF FlowInv
<1>1. u \in Update /\ u.job = e[1] /\ u.status = hand[e] /\ u.job \in Jobs
  BY EmitterFacts DEF JobInv, JobTypes, Emit, Update
<1>2. UNCHANGED <<fan, clients, frames, page, shown, missed>>
  BY DEF Emit, sendVars, pageVars
<1>3. CASE ~ Len(buffer) < BusBuffer
  <2>1. buffer' = buffer /\ accepted' = accepted BY <1>3 DEF Emit
  <2>2. Taken' BY <1>2, <2>1, TakenSpared
  <2>3. \A w \in Windows, j \in Jobs : ShowsTo(w, j)'
    BY <1>2, <2>1 DEF ShowsTo, LastIs, Has, OnFan
  <2>4. FlowTypes' /\ Registered' BY <1>2, <2>1 DEF FlowTypes, Registered
  <2> QED BY <2>2, <2>3, <2>4
<1>4. CASE Len(buffer) < BusBuffer
  <2>1. buffer' = Append(buffer, u) /\ accepted' = [accepted EXCEPT ![u.job] = u.status]
    BY <1>4 DEF Emit
  <2> HIDE DEF u
  <2>2. \A j \in Jobs : accepted'[j] = IF j = u.job THEN u.status ELSE accepted[j]
    BY <1>1, <2>1 DEF JobInv, JobTypes
  <2>3. buffer \in Seq(Update) BY DEF FlowTypes
  <2>4. ASSUME NEW j \in Jobs
        PROVE  /\ LastIs(buffer, j, accepted[j])'
               /\ Has(buffer, j)' <=> Has(buffer, j) \/ u.job = j
    <3>1. \A s : LastIs(buffer', j, s) = LastIs(Append(buffer, u), j, s) BY <2>1
    <3>2. LastIs(buffer', j, accepted'[j])
      BY <1>1, <2>2, <2>3, <3>1, Appended DEF Taken
    <3>3. Has(buffer', j) <=> Has(buffer, j) \/ u.job = j
      BY <1>1, <2>1, <2>3, Appended
    <3> QED BY <3>2, <3>3 DEF LastIs, Has
  <2>5. Taken'
    <3> SUFFICES ASSUME NEW j \in Jobs
                 PROVE  /\ LastIs(buffer, j, accepted[j])'
                        /\ fan' # None /\ fan'.update.job = j /\ ~ Has(buffer, j)'
                             => fan'.update.status = accepted'[j]
      BY DEF Taken
    <3> QED BY <1>2, <2>2, <2>4 DEF Taken
  <2>6. ASSUME NEW w \in Windows, NEW j \in Jobs PROVE ShowsTo(w, j)'
    <3>1. CASE j = u.job BY <2>4, <3>1 DEF ShowsTo
    <3>2. CASE j # u.job
      <4>1. OnFan(w, j)' <=> OnFan(w, j) BY <1>2 DEF OnFan
      <4> QED BY <1>2, <2>2, <2>4, <3>2, <4>1, PageSpared
    <3> QED BY <3>1, <3>2
  <2>7. FlowTypes'
    <3>1. buffer' \in Seq(Update) /\ Len(buffer') = Len(buffer) + 1
      BY <1>1, <2>1, <2>3
    <3> QED BY <1>2, <1>4, <2>3, <3>1, FeedAssumption DEF FlowTypes
  <2>8. Registered' BY <1>2 DEF Registered
  <2> QED BY <2>5, <2>6, <2>7, <2>8
<1> QED BY <1>3, <1>4

LEMMA TakeFlows ==
  ASSUME JobInv, FlowInv, TakeEvent
  PROVE  FlowInv'
<1> DEFINE u == Head(buffer)
<1> USE DEF FlowInv
<1>1. /\ buffer \in Seq(Update) /\ buffer # <<>> /\ fan = None /\ buffer' = Tail(buffer)
      /\ UNCHANGED <<accepted, clients, frames, page, shown>>
      /\ u \in Update /\ Tail(buffer) \in Seq(Update) /\ Len(Tail(buffer)) = Len(buffer) - 1
  BY HeadTaken DEF FlowTypes, TakeEvent
<1>2. fan' = IF clients = {} THEN None ELSE [update |-> u, to |-> clients]
  BY DEF TakeEvent, Writing
<1>3. missed' = [w \in Windows |-> IF w \in Windows \ clients /\ page[w] \in Loaded
                                   THEN missed[w] \cup {u.job} ELSE missed[w]]
  BY DEF TakeEvent, PassOver
<1>4. ASSUME NEW j \in Jobs
      PROVE  /\ Has(buffer, j) <=> Has(buffer, j)' \/ u.job = j
             /\ LastIs(buffer, j, accepted[j])'
             /\ u.job = j /\ ~ Has(buffer, j)' => u.status = accepted[j]
  <2>1. Has(buffer, j)' <=> Has(Tail(buffer), j) BY <1>1 DEF Has
  <2>2. LastIs(buffer, j, accepted[j])' <=> LastIs(Tail(buffer), j, accepted[j])
    BY <1>1 DEF LastIs
  <2> QED BY <1>1, <2>1, <2>2, HeadTaken DEF Taken
<1> HIDE DEF u
<1>5. clients \subseteq Windows BY DEF FlowTypes
<1>6. CASE clients = {}
  <2>1. fan' = None BY <1>2, <1>6
  <2>2. FlowTypes'
    <3>1. missed' \in [Windows -> SUBSET Jobs] BY <1>1, <1>3 DEF FlowTypes, Update
    <3> QED BY <1>1, <2>1, <3>1, FeedAssumption DEF FlowTypes
  <2>3. Registered' BY <1>1, <2>1 DEF Registered
  <2>4. Taken' BY <1>4, <2>1 DEF Taken
  <2>5. ASSUME NEW w \in Windows, NEW j \in Jobs PROVE ShowsTo(w, j)'
    <3>1. page[w] \in Loaded => missed'[w] = missed[w] \cup {u.job} BY <1>3, <1>6
    <3>2. ~ OnFan(w, j) BY <1>1 DEF OnFan
    <3> QED BY <1>1, <1>4, <3>1, <3>2, PageSpared
  <2> QED BY <2>2, <2>3, <2>4, <2>5
<1>7. CASE clients # {}
  <2> DEFINE g == [update |-> u, to |-> clients]
  <2>1. g \in [update : Update, to : SUBSET Windows] BY <1>1, <1>5
  <2>2. fan' = g /\ g # None /\ g.update = u /\ g.to = clients
    BY <1>2, <1>7, <2>1, NoneAssumption
  <2> HIDE DEF g
  <2>3. FlowTypes'
    <3>1. missed' \in [Windows -> SUBSET Jobs] BY <1>1, <1>3 DEF FlowTypes, Update
    <3> QED BY <1>1, <2>1, <2>2, <3>1, FeedAssumption DEF FlowTypes
  <2>4. Registered' BY <1>1, <2>2 DEF Registered
  <2>5. Taken'
    <3> SUFFICES ASSUME NEW j \in Jobs
                 PROVE  /\ LastIs(buffer, j, accepted[j])'
                        /\ fan'.update.job = j /\ ~ Has(buffer, j)'
                             => fan'.update.status = accepted'[j]
      BY DEF Taken
    <3> QED BY <1>1, <1>4, <2>2
  <2>6. ASSUME NEW w \in Windows, NEW j \in Jobs PROVE ShowsTo(w, j)'
    <3>1. page[w] \in Loaded /\ w \notin clients => missed'[w] = missed[w] \cup {u.job}
      BY <1>3
    <3>2. missed[w] \subseteq missed'[w] BY <1>3
    <3>3. ~ OnFan(w, j) BY <1>1 DEF OnFan
    <3>4. OnFan(w, j)' <=> u.job = j /\ w \in clients BY <2>2 DEF OnFan
    <3> QED BY <1>1, <1>4, <3>1, <3>2, <3>3, <3>4, PageSpared
  <2> QED BY <2>3, <2>4, <2>5, <2>6
<1> QED BY <1>6, <1>7

LEMMA WriteFlows ==
  ASSUME JobInv, FlowInv, NEW v \in Windows, Write(v)
  PROVE  FlowInv'
<1> DEFINE u == fan.update
<1> USE DEF FlowInv
<1>1. /\ fan # None /\ v \in fan.to /\ u \in Update /\ Len(frames[v]) < SocketBuffer
      /\ frames[v] \in Seq(Update)
      /\ frames' = [frames EXCEPT ![v] = Append(frames[v], u)]
      /\ missed' = [missed EXCEPT ![v] = missed[v] \ {u.job}]
      /\ UNCHANGED <<buffer, accepted, clients, page, shown>>
  BY DEF Write, FlowTypes, busVars
<1>2. fan' = IF fan = None \/ fan.to \ {v} = {}
             THEN None ELSE [update |-> fan.update, to |-> fan.to \ {v}]
  BY <1>1 DEF Write, Writing
<1>3. /\ fan' = None \/ fan' \in [update : Update, to : SUBSET Windows]
      /\ fan' # None => /\ fan # None /\ fan'.update = fan.update
                        /\ fan'.to \subseteq fan.to \ {v}
      /\ \A w, j : OnFan(w, j)' <=> OnFan(w, j) /\ w # v
  BY <1>2, FanDrops
<1> HIDE DEF u
<1>4. /\ frames'[v] = Append(frames[v], u) /\ missed'[v] = missed[v] \ {u.job}
      /\ \A w \in Windows : w # v => frames'[w] = frames[w] /\ missed'[w] = missed[w]
  BY <1>1 DEF FlowTypes
<1>5. FlowTypes'
  <2>1. Append(frames[v], u) \in Seq(Update) /\ Len(Append(frames[v], u)) = Len(frames[v]) + 1
        /\ Len(frames[v]) \in Nat
    BY <1>1
  <2>2. frames' \in [Windows -> Seq(Update)] BY <1>1, <2>1 DEF FlowTypes
  <2>3. \A w \in Windows : Len(frames'[w]) <= SocketBuffer
    BY <1>1, <1>4, <2>1, FeedAssumption DEF FlowTypes
  <2>4. missed' \in [Windows -> SUBSET Jobs] BY <1>1 DEF FlowTypes
  <2> QED BY <1>1, <1>3, <2>2, <2>3, <2>4 DEF FlowTypes
<1>6. Registered'
  <2>1. page[v] \in Loaded BY <1>1 DEF Registered
  <2> QED BY <1>1, <1>3, <1>4, <2>1 DEF Registered
<1>7. Taken' BY <1>1, <1>3, TakenSpared
<1>8. ASSUME NEW w \in Windows, NEW j \in Jobs PROVE ShowsTo(w, j)'
  <2>1. Has(buffer, j)' <=> Has(buffer, j) BY <1>1 DEF Has
  <2>2. CASE w # v
    BY <1>1, <1>3, <1>4, <2>1, <2>2, PageSpared
  <2>3. CASE w = v
    <3>1. Has(frames[w], j)' <=> Has(Append(frames[v], u), j) BY <1>4, <2>3 DEF Has
    <3>2. LastIs(frames[w], j, accepted[j])' <=> LastIs(Append(frames[v], u), j, accepted[j])
      BY <1>1, <1>4, <2>3 DEF LastIs
    <3>3. CASE j = u.job
      <4>1. ~ Has(buffer, j) => u.status = accepted[j] BY <1>1, <3>3 DEF Taken, u
      <4>2. Has(Append(frames[v], u), j) /\ LastIs(Append(frames[v], u), j, u.status)
        BY <1>1, <3>3, Appended
      <4> QED BY <2>1, <3>1, <3>2, <4>1, <4>2 DEF ShowsTo
    <3>4. CASE j # u.job
      <4>1. Has(Append(frames[v], u), j) <=> Has(frames[v], j)
        BY <1>1, <3>4, Appended
      <4>2. LastIs(frames[v], j, accepted[j]) => LastIs(Append(frames[v], u), j, accepted[j])
        BY <1>1, <3>4, Appended
      <4>3. ~ OnFan(w, j) /\ (j \notin missed'[w] => j \notin missed[w])
        BY <1>4, <2>3, <3>4 DEF OnFan, u
      <4> QED BY <1>1, <2>1, <2>3, <3>1, <3>2, <4>1, <4>2, <4>3 DEF ShowsTo
    <3> QED BY <3>3, <3>4
  <2> QED BY <2>2, <2>3
<1> QED BY <1>5, <1>6, <1>7, <1>8

\* A page leaves fanout's list and is passed over by what was being written to it: a write
\* failed, the connection was cut, or the page was loaded again.
LEMMA DropFlows ==
  ASSUME JobInv, FlowInv, NEW v \in Windows,
         fan' = IF fan = None \/ fan.to \ {v} = {}
                THEN None ELSE [update |-> fan.update, to |-> fan.to \ {v}],
         UNCHANGED <<buffer, accepted>>,
         clients' = clients \ {v},
         \A w \in Windows \ {v} : /\ frames'[w] = frames[w] /\ page'[w] = page[w]
                                  /\ shown'[w] = shown[w] /\ missed'[w] = missed[w],
         frames'[v] # <<>> => page'[v] \in Loaded,
         \A j \in Jobs : ShowsTo(v, j)',
         FlowTypes'
  PROVE  FlowInv'
<1> USE DEF FlowInv
<1>1. /\ fan' # None => /\ fan # None /\ fan'.update = fan.update
                        /\ fan'.to \subseteq fan.to \ {v}
      /\ \A w, j : OnFan(w, j)' <=> OnFan(w, j) /\ w # v
  BY FanDrops
<1>2. Taken' BY <1>1, TakenSpared
<1>3. Registered' BY <1>1 DEF Registered
<1>4. ASSUME NEW w \in Windows, NEW j \in Jobs PROVE ShowsTo(w, j)'
  <2>1. Has(buffer, j)' <=> Has(buffer, j) BY DEF Has
  <2>2. CASE w # v BY <1>1, <2>1, <2>2, PageSpared
  <2> QED BY <2>2
<1> QED BY <1>2, <1>3, <1>4

LEMMA WriteFailsFlows ==
  ASSUME JobInv, FlowInv, NEW v \in Windows, WriteFails(v)
  PROVE  FlowInv'
<1> USE DEF FlowInv
<1>1. /\ fan # None /\ UNCHANGED <<buffer, accepted, frames, page, shown>>
      /\ clients' = clients \ {v} /\ v \in fan.to
      /\ missed' = [w \in Windows |-> IF w \in {v} /\ page[w] \in Loaded
                                      THEN missed[w] \cup {fan.update.job} ELSE missed[w]]
  BY DEF WriteFails, PassOver, busVars
<1>2. fan' = IF fan = None \/ fan.to \ {v} = {}
             THEN None ELSE [update |-> fan.update, to |-> fan.to \ {v}]
  BY <1>1 DEF WriteFails, Writing
<1>3. /\ fan' = None \/ fan' \in [update : Update, to : SUBSET Windows]
      /\ \A w, j : OnFan(w, j)' <=> OnFan(w, j) /\ w # v
  BY <1>2, FanDrops
<1>4. FlowTypes'
  <2>1. fan.update.job \in Jobs BY <1>1 DEF FlowTypes, Update
  <2>2. missed' \in [Windows -> SUBSET Jobs] BY <1>1, <2>1 DEF FlowTypes
  <2> QED BY <1>1, <1>3, <2>2 DEF FlowTypes
<1>5. ASSUME NEW j \in Jobs PROVE ShowsTo(v, j)'
  <2>1. Has(buffer, j)' <=> Has(buffer, j) BY <1>1 DEF Has
  <2>2. page[v] \in Loaded => missed'[v] = missed[v] \cup {fan.update.job} BY <1>1
  <2>3. OnFan(v, j) => fan.update.job = j BY DEF OnFan
  <2> QED BY <1>1, <2>1, <2>2, <2>3, PageSpared
<1>6. \A w \in Windows \ {v} : missed'[w] = missed[w] BY <1>1
<1>7. frames'[v] # <<>> => page'[v] \in Loaded BY <1>1 DEF Registered
<1> QED BY <1>1, <1>2, <1>4, <1>5, <1>6, <1>7, DropFlows

LEMMA CutFlows ==
  ASSUME JobInv, FlowInv, NEW v \in Windows, Cut(v)
  PROVE  FlowInv'
<1> USE DEF FlowInv
<1>1. PICK k \in 0..Len(frames[v]) :
        /\ frames' = [frames EXCEPT ![v] = SubSeq(@, 1, k)]
        /\ missed' = [missed EXCEPT ![v] =
                        @ \cup {frames[v][i].job : i \in k + 1..Len(frames[v])}
                          \cup (IF fan # None /\ v \in fan.to THEN {fan.update.job} ELSE {})]
  BY DEF Cut
<1>2. /\ UNCHANGED <<buffer, accepted, page, shown>> /\ clients' = clients \ {v}
      /\ v \in clients
  BY DEF Cut, OnlyPages, busVars
<1>3. fan' = IF fan = None \/ fan.to \ {v} = {}
             THEN None ELSE [update |-> fan.update, to |-> fan.to \ {v}]
  BY DEF Cut, Writing
<1>4. fan' = None \/ fan' \in [update : Update, to : SUBSET Windows]
  BY <1>3, FanDrops
<1> DEFINE q == frames[v]
           lost == {q[i].job : i \in k + 1..Len(q)}
           late == IF fan # None /\ v \in fan.to THEN {fan.update.job} ELSE {}
<1>5. q \in Seq(Update) /\ Len(q) \in Nat /\ Len(q) <= SocketBuffer BY DEF FlowTypes
<1>6. frames'[v] = SubSeq(q, 1, k) /\ missed'[v] = missed[v] \cup lost \cup late
  BY <1>1 DEF FlowTypes
<1>7. \A w \in Windows \ {v} : frames'[w] = frames[w] /\ missed'[w] = missed[w]
  BY <1>1 DEF FlowTypes
<1>8. lost \subseteq Jobs /\ late \subseteq Jobs
  <2>1. \A i \in k + 1..Len(q) : q[i] \in Update BY <1>5
  <2> QED BY <2>1 DEF FlowTypes, Update
<1>9. \A j : (\A i \in k + 1..Len(q) : q[i].job # j) <=> j \notin lost
  OBVIOUS
<1>10. \A j : OnFan(v, j) => j \in late BY DEF OnFan
<1> HIDE DEF lost, late
<1>11. SubSeq(q, 1, k) \in Seq(Update) /\ Len(SubSeq(q, 1, k)) = k
  BY <1>5
<1>12. FlowTypes'
  <2>1. frames' \in [Windows -> Seq(Update)] BY <1>1, <1>11 DEF FlowTypes
  <2>2. \A w \in Windows : Len(frames'[w]) <= SocketBuffer
    BY <1>5, <1>6, <1>7, <1>11, FeedAssumption DEF FlowTypes
  <2>3. missed' \in [Windows -> SUBSET Jobs] BY <1>1, <1>6, <1>7, <1>8 DEF FlowTypes
  <2> QED BY <1>2, <1>4, <2>1, <2>2, <2>3 DEF FlowTypes
<1>13. ASSUME NEW j \in Jobs PROVE ShowsTo(v, j)'
  <2>1. Has(buffer, j)' <=> Has(buffer, j) BY <1>2 DEF Has
  <2>2. CASE j \in missed[v] \/ j \in lost \/ j \in late
    BY <1>6, <2>2 DEF ShowsTo
  <2>3. CASE j \notin missed[v] /\ j \notin lost /\ j \notin late
    <3>1. /\ Has(SubSeq(q, 1, k), j) <=> Has(q, j)
          /\ LastIs(q, j, accepted[j]) => LastIs(SubSeq(q, 1, k), j, accepted[j])
      BY <1>5, <1>9, <2>3, CutOff
    <3>2. Has(frames[v], j)' <=> Has(SubSeq(q, 1, k), j) BY <1>6 DEF Has
    <3>3. LastIs(frames[v], j, accepted[j])' <=> LastIs(SubSeq(q, 1, k), j, accepted[j])
      BY <1>2, <1>6 DEF LastIs
    <3>4. ~ OnFan(v, j) BY <1>10, <2>3
    <3> QED BY <1>2, <2>1, <2>3, <3>1, <3>2, <3>3, <3>4 DEF ShowsTo
  <2> QED BY <2>2, <2>3
<1>14. page[v] \in Loaded BY <1>2 DEF Registered
<1> QED BY <1>2, <1>3, <1>7, <1>12, <1>13, <1>14, DropFlows

LEMMA ReloadFlows ==
  ASSUME JobInv, FlowInv, NEW v \in Windows, Reload(v)
  PROVE  FlowInv'
<1> USE DEF FlowInv
<1>1. /\ UNCHANGED <<buffer, accepted>> /\ clients' = clients \ {v}
      /\ page' = [page EXCEPT ![v] = "check"]
      /\ frames' = [frames EXCEPT ![v] = <<>>]
      /\ shown' = [shown EXCEPT ![v] = Nothing]
      /\ missed' = [missed EXCEPT ![v] = {}]
  BY DEF Reload, OnlyPages, busVars, Turn
<1>2. fan' = IF fan = None \/ fan.to \ {v} = {}
             THEN None ELSE [update |-> fan.update, to |-> fan.to \ {v}]
  BY DEF Reload, Writing
<1>3. fan' = None \/ fan' \in [update : Update, to : SUBSET Windows]
  BY <1>2, FanDrops
<1>4. FlowTypes'
  <2>1. Nothing \in [Jobs -> Status \cup {None}] BY DEF Nothing
  <2>2. shown' \in [Windows -> [Jobs -> Status \cup {None}]] BY <1>1, <2>1 DEF FlowTypes
  <2>3. frames' \in [Windows -> Seq(Update)] /\ \A w \in Windows : Len(frames'[w]) <= SocketBuffer
    BY <1>1, FeedAssumption DEF FlowTypes
  <2> QED BY <1>1, <1>3, <2>2, <2>3 DEF FlowTypes
<1>5. /\ page'[v] = "check" /\ frames'[v] = <<>>
      /\ \A w \in Windows \ {v} : /\ frames'[w] = frames[w] /\ page'[w] = page[w]
                                  /\ shown'[w] = shown[w] /\ missed'[w] = missed[w]
  BY <1>1 DEF FlowTypes
<1>6. \A j \in Jobs : ShowsTo(v, j)' BY <1>5 DEF ShowsTo, Loaded
<1> QED BY <1>1, <1>2, <1>4, <1>5, <1>6, DropFlows

\* A page that turns while the bus and fanout rest.
LEMMA TurnFlows ==
  ASSUME JobInv, FlowInv, NEW v \in Windows,
         UNCHANGED <<buffer, accepted, fan>>,
         clients \subseteq clients', clients' \subseteq clients \cup {v},
         v \in clients' \/ frames'[v] # <<>> => page'[v] \in Loaded,
         \A w \in Windows \ {v} : /\ frames'[w] = frames[w] /\ page'[w] = page[w]
                                  /\ shown'[w] = shown[w] /\ missed'[w] = missed[w],
         \A j \in Jobs : ShowsTo(v, j)',
         FlowTypes'
  PROVE  FlowInv'
<1> USE DEF FlowInv
<1>1. Taken' BY TakenSpared
<1>2. Registered' BY DEF Registered
<1>3. ASSUME NEW w \in Windows, NEW j \in Jobs PROVE ShowsTo(w, j)'
  <2>1. Has(buffer, j)' <=> Has(buffer, j) BY DEF Has
  <2>2. OnFan(w, j)' <=> OnFan(w, j) BY DEF OnFan
  <2>3. CASE w # v BY <2>1, <2>2, <2>3, PageSpared
  <2> QED BY <2>3
<1> QED BY <1>1, <1>2, <1>3

\* The steps of a page that fetch, show and drop nothing.
LEMMA LoginFlows ==
  ASSUME JobInv, FlowInv, NEW v \in Windows,
         \/ RedeemBootstrapCode(v) \/ DoBootstrap(v) \/ Unauthorized(v)
         \/ Register(v) \/ OnClose(v) \/ Reconnect(v)
  PROVE  FlowInv'
<1> USE DEF FlowInv
<1> DEFINE to == page'[v]
<1>1. /\ UNCHANGED <<buffer, accepted, fan, frames, shown, missed>>
      /\ page' = [page EXCEPT ![v] = to]
      /\ \/ page[v] \notin Loaded /\ to \in {"redeemed", "load", "unauthorized"} /\ clients' = clients
         \/ page[v] \in Loaded /\ to \in Loaded /\ clients' \in {clients, clients \cup {v}}
  BY DEF RedeemBootstrapCode, DoBootstrap, Unauthorized, Register, OnClose, Reconnect, Turn,
         OnlyPages, busVars, sendVars, FlowTypes, Loaded
<1> HIDE DEF to
<1>2. /\ page'[v] = to
      /\ \A w \in Windows \ {v} : page'[w] = page[w]
  BY <1>1 DEF FlowTypes
<1>3. FlowTypes' BY <1>1 DEF FlowTypes, Loaded
<1>4. ASSUME NEW j \in Jobs PROVE ShowsTo(v, j)'
  <2>1. Has(buffer, j)' <=> Has(buffer, j) BY <1>1 DEF Has
  <2>2. OnFan(v, j)' <=> OnFan(v, j) BY <1>1 DEF OnFan
  <2>3. page'[v] \in Loaded => page[v] \in Loaded BY <1>1, <1>2 DEF Loaded
  <2> QED BY <1>1, <2>1, <2>2, <2>3, PageSpared
<1>5. v \in clients' \/ frames'[v] # <<>> => page'[v] \in Loaded
  BY <1>1, <1>2 DEF Registered
<1> QED BY <1>1, <1>2, <1>3, <1>4, <1>5, TurnFlows

LEMMA ListFlows ==
  ASSUME JobInv, FlowInv, NEW v \in Windows, List(v)
  PROVE  FlowInv'
<1> USE DEF FlowInv
<1>1. /\ UNCHANGED <<buffer, accepted, fan, clients, frames>>
      /\ page[v] \notin Loaded /\ page' = [page EXCEPT ![v] = "opening"]
      /\ shown' = [shown EXCEPT ![v] = status]
      /\ missed' = [missed EXCEPT ![v] = {}]
      /\ status \in [Jobs -> Status]
  BY DEF List, Turn, OnlyPages, busVars, sendVars, Loaded, JobInv, JobTypes
<1>2. /\ page'[v] = "opening" /\ shown'[v] = status
      /\ \A w \in Windows \ {v} : /\ page'[w] = page[w] /\ shown'[w] = shown[w]
                                  /\ missed'[w] = missed[w] /\ frames'[w] = frames[w]
  BY <1>1 DEF FlowTypes
<1>3. FlowTypes'
  <2>1. status \in [Jobs -> Status \cup {None}] BY <1>1
  <2>2. shown' \in [Windows -> [Jobs -> Status \cup {None}]] BY <1>1, <2>1 DEF FlowTypes
  <2> QED BY <1>1, <2>2 DEF FlowTypes, Loaded
<1>4. ASSUME NEW j \in Jobs PROVE ShowsTo(v, j)'
  <2>1. frames'[v] = <<>> BY <1>1 DEF Registered
  <2>2. LastIs(frames[v], j, accepted[j])' BY <2>1 DEF LastIs
  <2>3. accepted'[j] \in Outcomes => shown'[v][j] = accepted'[j]
    BY <1>1, <1>2 DEF JobInv, AcceptedIsFinal
  <2> QED BY <2>2, <2>3 DEF ShowsTo
<1>5. page'[v] \in Loaded BY <1>2 DEF Loaded
<1> QED BY <1>1, <1>2, <1>3, <1>4, <1>5, TurnFlows

LEMMA ListFailsFlows ==
  ASSUME JobInv, FlowInv, NEW v \in Windows, ListFails(v)
  PROVE  FlowInv'
<1> USE DEF FlowInv
<1>1. /\ UNCHANGED <<buffer, accepted, fan, clients, frames, shown>>
      /\ page' = [page EXCEPT ![v] = "opening"]
      /\ missed' = [missed EXCEPT ![v] = Jobs]
  BY DEF ListFails, Turn, OnlyPages, busVars, sendVars
<1>2. /\ page'[v] = "opening" /\ missed'[v] = Jobs
      /\ \A w \in Windows \ {v} : page'[w] = page[w] /\ missed'[w] = missed[w]
  BY <1>1 DEF FlowTypes
<1>3. FlowTypes' BY <1>1 DEF FlowTypes, Loaded
<1>4. \A j \in Jobs : ShowsTo(v, j)' BY <1>2 DEF ShowsTo
<1>5. page'[v] \in Loaded BY <1>2 DEF Loaded
<1> QED BY <1>1, <1>2, <1>3, <1>4, <1>5, TurnFlows

LEMMA MessageFlows ==
  ASSUME JobInv, FlowInv, NEW v \in Windows, OnMessage(v)
  PROVE  FlowInv'
<1> USE DEF FlowInv
<1> DEFINE q == frames[v]
           u == Head(frames[v])
<1>1. /\ UNCHANGED <<buffer, accepted, fan, clients, page, missed>>
      /\ q # <<>> /\ q \in Seq(Update) /\ page[v] \in Loaded /\ Len(q) <= SocketBuffer
      /\ frames' = [frames EXCEPT ![v] = Tail(q)]
      /\ shown' = [shown EXCEPT ![v][u.job] = u.status]
  BY DEF OnMessage, OnlyPages, busVars, FlowTypes, Loaded
<1>2. u \in Update /\ Tail(q) \in Seq(Update) /\ Len(Tail(q)) = Len(q) - 1 /\ Len(q) \in Nat
  BY <1>1, HeadTaken
<1> HIDE DEF u
<1>3. /\ frames'[v] = Tail(q)
      /\ shown[v] \in [Jobs -> Status \cup {None}]
      /\ shown'[v] = [shown[v] EXCEPT ![u.job] = u.status]
      /\ \A w \in Windows \ {v} : shown'[w] = shown[w] /\ frames'[w] = frames[w]
  BY <1>1 DEF FlowTypes
<1>4. FlowTypes'
  <2>1. u.job \in Jobs /\ u.status \in Status BY <1>2 DEF Update
  <2>2. [shown[v] EXCEPT ![u.job] = u.status] \in [Jobs -> Status \cup {None}]
    BY <1>3, <2>1
  <2>3. shown' = [shown EXCEPT ![v] = [shown[v] EXCEPT ![u.job] = u.status]] BY <1>1
  <2>4. shown' \in [Windows -> [Jobs -> Status \cup {None}]] BY <2>2, <2>3 DEF FlowTypes
  <2>5. frames' \in [Windows -> Seq(Update)] BY <1>1, <1>2 DEF FlowTypes
  <2>6. \A w \in Windows : Len(frames'[w]) <= SocketBuffer
    BY <1>1, <1>2, <1>3, FeedAssumption DEF FlowTypes
  <2> QED BY <1>1, <2>4, <2>5, <2>6 DEF FlowTypes
<1>5. ASSUME NEW j \in Jobs PROVE ShowsTo(v, j)'
  <2>1. Has(buffer, j)' <=> Has(buffer, j) BY <1>1 DEF Has
  <2>2. OnFan(v, j)' <=> OnFan(v, j) BY <1>1 DEF OnFan
  <2>3. Has(frames[v], j)' <=> Has(Tail(q), j) BY <1>3 DEF Has
  <2>4. LastIs(frames[v], j, accepted[j])' <=> LastIs(Tail(q), j, accepted[j])
    <3> DEFINE t == Tail(q)
    <3>1. frames'[v] = t /\ accepted' = accepted BY <1>1, <1>3
    <3> HIDE DEF t
    <3>2. LastIs(frames[v], j, accepted[j])' <=> LastIs(t, j, accepted[j]) BY <3>1 DEF LastIs
    <3> QED BY <3>2 DEF t
  <2>5. /\ Has(q, j) <=> Has(Tail(q), j) \/ u.job = j
        /\ LastIs(q, j, accepted[j]) =>
             /\ LastIs(Tail(q), j, accepted[j])
             /\ u.job = j /\ ~ Has(Tail(q), j) => u.status = accepted[j]
    BY <1>1, HeadTaken DEF u
  <2>6. shown'[v][j] = IF j = u.job THEN u.status ELSE shown[v][j] BY <1>3
  <2> QED BY <1>1, <2>1, <2>2, <2>3, <2>4, <2>5, <2>6 DEF ShowsTo
<1> QED BY <1>1, <1>3, <1>4, <1>5, TurnFlows

------------------------------------------------------------------------------
(* The invariant                                                           *)

LEMMA FlowsKept == JobInv /\ FlowInv /\ [Next]_vars => FlowInv'
<1> SUFFICES ASSUME JobInv, FlowInv, [Next]_vars PROVE FlowInv'
  OBVIOUS
<1>1. CASE UNCHANGED <<buffer, accepted, sendVars, pageVars>>
  <2>1. UNCHANGED <<buffer, accepted, fan, clients, frames, page, shown, missed>>
    BY <1>1 DEF sendVars, pageVars
  <2>2. FlowTypes' /\ Registered' BY <2>1 DEF FlowInv, FlowTypes, Registered
  <2>3. Taken' BY <2>1, TakenSpared DEF FlowInv
  <2>4. ASSUME NEW w \in Windows, NEW j \in Jobs PROVE ShowsTo(w, j)'
    <3>1. /\ Has(buffer, j)' <=> Has(buffer, j)
          /\ OnFan(w, j)' <=> OnFan(w, j)
      BY <2>1 DEF Has, OnFan
    <3> QED BY <2>1, <3>1, PageSpared DEF FlowInv
  <2> QED BY <2>2, <2>3, <2>4 DEF FlowInv
<1>2. CASE JobNext
  <2>1. ASSUME NEW e \in Emitters, Emit(e) PROVE FlowInv' BY <2>1, EmitFlows
  <2>2. ASSUME NEW j \in Jobs,
               \/ Run(j) \/ ProgressFunc(j) \/ CloseDone(j) \/ Tick(j) \/ LastTick(j)
               \/ \E outcome \in Outcomes : SetStatus(j, outcome)
        PROVE  UNCHANGED <<buffer, accepted, sendVars, pageVars>>
    BY <2>2 DEF Run, ProgressFunc, CloseDone, Tick, LastTick, SetStatus, OnlyJobs, busVars
  <2>3. ASSUME NEW e \in Emitters, Snapshot(e)
        PROVE  UNCHANGED <<buffer, accepted, sendVars, pageVars>>
    BY <2>3 DEF Snapshot, OnlyJobs, busVars
  <2> QED BY <1>1, <1>2, <2>1, <2>2, <2>3 DEF JobNext
<1>3. CASE SendNext
  BY <1>3, TakeFlows, WriteFlows, WriteFailsFlows DEF SendNext
<1>4. CASE PageNext
  <2>1. ASSUME NEW c \in Codes, Expire(c)
        PROVE  UNCHANGED <<buffer, accepted, sendVars, pageVars>>
    BY <2>1 DEF Expire, OnlyPages, busVars
  <2>2. ASSUME NEW w \in Windows,
               \/ RedeemBootstrapCode(w) \/ DoBootstrap(w) \/ Unauthorized(w)
               \/ List(w) \/ ListFails(w) \/ Register(w)
               \/ OnMessage(w) \/ Cut(w) \/ OnClose(w) \/ Reconnect(w) \/ Reload(w)
        PROVE  FlowInv'
    BY <2>2, LoginFlows, ListFlows, ListFailsFlows, MessageFlows, CutFlows, ReloadFlows
  <2> QED BY <1>1, <1>4, <2>1, <2>2 DEF PageNext
<1>5. CASE UNCHANGED vars
  BY <1>1, <1>5 DEF vars, busVars
<1> QED BY <1>2, <1>3, <1>4, <1>5 DEF Next

LEMMA FlowsBegin == Init => FlowInv
<1> SUFFICES ASSUME Init PROVE FlowInv
  OBVIOUS
<1>1. /\ buffer = <<>> /\ fan = None /\ clients = {}
      /\ frames = [w \in Windows |-> <<>>] /\ page = [w \in Windows |-> "check"]
      /\ shown = [w \in Windows |-> Nothing] /\ missed = [w \in Windows |-> {}]
  BY DEF Init, Idle
<1>2. FlowTypes
  <2>1. Nothing \in [Jobs -> Status \cup {None}] BY DEF Nothing
  <2>2. shown \in [Windows -> [Jobs -> Status \cup {None}]] BY <1>1, <2>1
  <2>3. frames \in [Windows -> Seq(Update)] /\ \A w \in Windows : Len(frames[w]) <= SocketBuffer
    BY <1>1, FeedAssumption
  <2> QED BY <1>1, <2>2, <2>3, FeedAssumption DEF FlowTypes
<1>3. Registered BY <1>1 DEF Registered
<1>4. Taken BY <1>1 DEF Taken, LastIs
<1>5. \A w \in Windows, j \in Jobs : ShowsTo(w, j) BY <1>1 DEF ShowsTo, Loaded
<1> QED BY <1>2, <1>3, <1>4, <1>5 DEF FlowInv

\* The goroutines of a run emit in one of the orders that JobInv describes, and every
\* update is on one place of its way to every page, or was missed there.
THEOREM FeedInvariant == Spec => [](JobInv /\ FlowInv)
<1>1. JobInv /\ FlowInv /\ [Next]_vars => (JobInv /\ FlowInv)'
  BY JobsKept, FlowsKept
<1> QED BY <1>1, JobsBegin, FlowsBegin, PTL DEF Spec

\* Every variable keeps to its type, and neither the bus's channel nor a connection holds
\* more than its bound.
THEOREM TypeInvariant == Spec => []TypeOK
<1> DEFINE LoginTypes == live \subseteq Codes /\ token \subseteq Windows /\ link \in [Windows -> Codes]
<1>1. Init => LoginTypes BY DEF Init
<1>2. LoginTypes /\ [Next]_vars => LoginTypes'
  <2> SUFFICES ASSUME LoginTypes, [Next]_vars PROVE LoginTypes'
    OBVIOUS
  <2>1. CASE UNCHANGED loginVars BY <2>1 DEF loginVars
  <2>2. JobNext => UNCHANGED loginVars
    BY DEF JobNext, Run, ProgressFunc, CloseDone, Tick, LastTick, SetStatus, Snapshot, Emit, OnlyJobs
  <2>3. SendNext => UNCHANGED loginVars
    BY DEF SendNext, TakeEvent, Write, WriteFails
  <2>4. ASSUME NEW w \in Windows,
               \/ List(w) \/ ListFails(w) \/ Register(w)
               \/ OnMessage(w) \/ Cut(w) \/ OnClose(w) \/ Reconnect(w) \/ Reload(w)
        PROVE  UNCHANGED loginVars
    BY <2>4 DEF List, ListFails, Register, OnMessage, Cut, OnClose, Reconnect, Reload
  <2>5. ASSUME NEW w \in Windows, RedeemBootstrapCode(w) \/ DoBootstrap(w) \/ Unauthorized(w)
        PROVE  LoginTypes'
    BY <2>5 DEF RedeemBootstrapCode, DoBootstrap, Unauthorized, loginVars
  <2>6. ASSUME NEW c \in Codes, Expire(c) PROVE LoginTypes'
    BY <2>6 DEF Expire
  <2>7. UNCHANGED vars => UNCHANGED loginVars BY DEF vars
  <2> QED BY <2>1, <2>2, <2>3, <2>4, <2>5, <2>6, <2>7 DEF Next, PageNext
<1>3. JobInv /\ FlowInv /\ LoginTypes => TypeOK
  BY DEF JobInv, JobTypes, FlowInv, FlowTypes, TypeOK
<1> QED BY <1>1, <1>2, <1>3, FeedInvariant, PTL DEF Spec

\* An open page shows the outcome of every job once all that was on its way has arrived,
\* unless the bus had no room for it, an older update of a retried job came after it, or
\* it passed while the page was not registered (emit, Bus.Emit, fanout, and the reducer
\* of store.tsx).  A job that was never retried is not overtaken.
THEOREM OutcomeInvariant == Spec => []OutcomeIsShown
<1>1. ASSUME JobInv, FlowInv PROVE OutcomeIsShown
  <2> SUFFICES ASSUME NEW w \in Windows, NEW j \in Jobs,
                      AtRest(w, j), Ended(j), ~ Lost(w, j)
               PROVE  shown[w][j] = status[j]
    BY DEF OutcomeIsShown
  <2>1. page[w] \in Loaded /\ j \notin missed[w] /\ frames[w] = <<>>
    BY DEF AtRest, Lost, Loaded
  <2>2. ~ Has(buffer, j) /\ ~ OnFan(w, j) /\ ~ Has(frames[w], j)
    BY <2>1 DEF AtRest, Has, OnFan
  <2>3. j \notin retried => offered[j] = status[j]
    BY <1>1, LastToldIsTrue DEF LastUpdateIsTrue, AtRest
  <2>4. accepted[j] = status[j] BY <2>3 DEF Lost, Dropped, Overtaken
  <2>5. accepted[j] \in Outcomes BY <2>4 DEF Ended
  <2> QED BY <1>1, <2>1, <2>2, <2>4, <2>5 DEF FlowInv, ShowsTo
<1> QED BY <1>1, FeedInvariant, PTL
==================================================================================
