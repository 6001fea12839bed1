----------------------------- MODULE TransferQueue -----------------------------
(***************************************************************************)
(* The transfer manager of internal/transfers/transfers.go: a queue of     *)
(* jobs, a counting semaphore that admits at most Limit workers, and the   *)
(* requests (HTTP handlers, command-line calls) that enqueue, cancel,      *)
(* retry, track and clear jobs while the workers run.  Every step is one   *)
(* critical section of tm.mu or of the job's own lock, or one operation on *)
(* a channel performed outside them, so the interleavings are those of the *)
(* goroutines.                                                             *)
(*                                                                         *)
(* A thread is a worker goroutine (run), a request goroutine, or Main, the *)
(* goroutine that shuts the engine down.  A job's byte counters, times and *)
(* texts are left out; the data path is a subject of its own.              *)
(***************************************************************************)
EXTENDS Naturals, FiniteSets, SequencesExt

CONSTANTS Jobs,      \* identities of the transfer jobs
          Workers,   \* worker goroutines alive at one time
          Callers,   \* request goroutines
          Main,      \* the goroutine that calls Shutdown
          Limit,     \* capacity of tm.sem
          None,      \* no job, no worker, no status
          Requests,  \* the requests this instance lets callers make
          Kind,      \* what a job runs: "operation", "session" or "stream"
          Name       \* the file name a job shows

RequestNames == {"enqueue", "cancel", "retry", "cleanup", "track", "shutdown"}
Kinds == {"operation", "session", "stream"}

ASSUME FiniteAssumption ==
  IsFiniteSet(Jobs) /\ IsFiniteSet(Workers) /\ IsFiniteSet(Callers)
ASSUME DistinctAssumption ==
  /\ Workers \cap Callers = {}
  /\ Main \notin Workers \cup Callers
  /\ None \notin Jobs \cup Workers \cup Callers \cup {Main}
ASSUME LimitAssumption == Limit \in Nat \ {0}
ASSUME RequestsAssumption == Requests \subseteq RequestNames
ASSUME KindAssumption == Kind \in [Jobs -> Kinds]
ASSUME NameAssumption == DOMAIN Name = Jobs

Threads == Workers \cup Callers \cup {Main}

VARIABLES
  stopped,   \* tm.stop is closed
  queue,     \* tm.queue
  slots,     \* len(tm.sem)
  wg,        \* the counter of tm.wg
  holder,    \* the thread inside a section of tm.mu that loops over the jobs
  todo,      \* the jobs that loop has still to visit
  known,     \* the keys of tm.jobs
  status,    \* Job.Status; "new" before the job is handed to the manager
  closed,    \* the jobs whose done channel is closed
  cancelOf,  \* the worker whose context Job.cancel cancels, None when the
             \* field is nil or that context is already released
  canceled,  \* the workers whose context is canceled
  pc,        \* the next step of each thread
  job,       \* the job each thread is dealing with
  mark,      \* the terminal status each thread is about to set
  waited,    \* Shutdown saw the wait group at zero
  crashed    \* a panic outside a request handler ended the process

pool   == <<stopped, queue, slots, wg>>
lock   == <<holder, todo>>
table  == <<known, status, closed>>
cancels == <<cancelOf, canceled>>
ends   == <<waited, crashed>>
vars   == <<pool, lock, table, cancels, pc, job, mark, ends>>

Terminal == {"completed", "failed", "canceled"}
Statuses == {"new", "queued", "running"} \cup Terminal

\* The steps shared by workers and callers, then those of each.
PumpSteps   == {"pump", "take", "spawn"}
MarkSteps   == {"mark", "close", "closing"}
RunSteps    == {"start", "begin", "open", "work", "mark", "close", "closing", "release"}
WorkerSteps == PumpSteps \cup RunSteps \cup {"none", "wgdone"}
CallerSteps == PumpSteps \cup MarkSteps \cup
                 {"idle", "cancel", "unqueue", "retry", "append",
                  "cleaning", "stream"}
MainSteps   == {"up", "lock", "sweep", "sweepClose", "wait", "down"}

TypeOK ==
  /\ stopped \in BOOLEAN /\ waited \in BOOLEAN /\ crashed \in BOOLEAN
  /\ queue \in Seq(Jobs)
  /\ slots \in 0 .. Limit /\ wg \in Nat
  /\ holder \in Callers \cup {Main, None} /\ todo \subseteq Jobs
  /\ known \subseteq Jobs /\ closed \subseteq Jobs
  /\ status \in [Jobs -> Statuses]
  /\ cancelOf \in [Jobs -> Workers \cup {None}] /\ canceled \subseteq Workers
  /\ pc \in [Threads -> WorkerSteps \cup CallerSteps \cup MainSteps]
  /\ \A w \in Workers : pc[w] \in WorkerSteps
  /\ \A p \in Callers : pc[p] \in CallerSteps
  /\ pc[Main] \in MainSteps
  /\ job \in [Threads -> Jobs \cup {None}]
  /\ mark \in [Threads -> Terminal \cup {None}]

Init ==
  /\ stopped = FALSE /\ waited = FALSE /\ crashed = FALSE
  /\ queue = <<>> /\ slots = 0 /\ wg = 0
  /\ holder = None /\ todo = {}
  /\ known = {} /\ closed = {}
  /\ status = [j \in Jobs |-> "new"]
  /\ cancelOf = [j \in Jobs |-> None] /\ canceled = {}
  /\ pc = [t \in Threads |-> IF t \in Workers THEN "none"
                             ELSE IF t \in Callers THEN "idle" ELSE "up"]
  /\ job = [t \in Threads |-> None]
  /\ mark = [t \in Threads |-> None]

Goto(t, step) == pc' = [pc EXCEPT ![t] = step]
Hold(t, j)    == job' = [job EXCEPT ![t] = j]
Marking(t, s) == mark' = [mark EXCEPT ![t] = s]

\* tm.mu is taken and released within each step; only the loops over the jobs
\* keep it for longer, and then nobody else gets it.
MuFree == holder = None

\* Where a thread comes to rest: a worker goroutine ends, a request returns.
Rest(t) == IF t \in Workers THEN "none" ELSE "idle"

------------------------------------------------------------------------------
(* pump: run by every thread that may have made a job startable            *)

\* The check of tm.stop at the head of the loop, outside tm.mu.
PumpCheck(t) ==
  /\ pc[t] = "pump"
  /\ IF stopped THEN Goto(t, Rest(t)) /\ Hold(t, None)
                ELSE Goto(t, "take") /\ UNCHANGED job
  /\ UNCHANGED <<pool, lock, table, cancels, mark, ends>>

\* The non-blocking send on tm.sem succeeds while its buffer has room.
SlotFree == slots < Limit

\* Nothing to start: the queue is empty or no slot is free.
PumpReturn(t) ==
  /\ pc[t] = "take" /\ MuFree
  /\ queue = <<>> \/ ~SlotFree
  /\ Goto(t, Rest(t)) /\ Hold(t, None)
  /\ UNCHANGED <<pool, lock, table, cancels, mark, ends>>

\* Faulty: the newest job is started first.
TakesNewest(t) ==
  /\ pc[t] = "take" /\ MuFree
  /\ queue # <<>> /\ SlotFree
  /\ slots' = slots + 1
  /\ queue' = Front(queue)
  /\ Hold(t, Last(queue)) /\ Goto(t, "spawn")
  /\ UNCHANGED <<stopped, wg, lock, table, cancels, mark, ends>>

\* A slot is taken and the head of the queue leaves it, in one section.
PumpTake(t) ==
  /\ pc[t] = "take" /\ MuFree
  /\ queue # <<>> /\ SlotFree
  /\ slots' = slots + 1
  /\ queue' = Tail(queue)
  /\ Hold(t, Head(queue)) /\ Goto(t, "spawn")
  /\ UNCHANGED <<stopped, wg, lock, table, cancels, mark, ends>>

\* Faulty: the wait group is not told of the worker.
SpawnUncounted(t, w) ==
  /\ pc[t] = "spawn" /\ pc[w] = "none"
  /\ pc' = [pc EXCEPT ![w] = "start", ![t] = "pump"]
  /\ job' = [job EXCEPT ![w] = job[t], ![t] = None]
  /\ UNCHANGED <<pool, lock, table, cancels, mark, ends>>

\* wg.Add(1), go run(id), and round the loop again.
Spawn(t, w) ==
  /\ pc[t] = "spawn" /\ pc[w] = "none"
  /\ wg' = wg + 1
  /\ pc' = [pc EXCEPT ![w] = "start", ![t] = "pump"]
  /\ job' = [job EXCEPT ![w] = job[t], ![t] = None]
  /\ UNCHANGED <<stopped, queue, slots, lock, table, cancels, mark, ends>>

------------------------------------------------------------------------------
(* mark: setStatus, in its three steps, then back to the caller            *)

\* mark(j, st, _) begins; its first section sets the status.
SetStatus(t) ==
  /\ pc[t] = "mark"
  /\ status' = [status EXCEPT ![job[t]] = mark[t]]
  /\ Goto(t, "close")
  /\ UNCHANGED <<pool, lock, known, closed, cancels, job, mark, ends>>

\* Faulty: a worker returns without the deferred calls.
AfterMarkLeaks(t) == Rest(t)

\* What follows mark: the worker's deferred calls, or the end of the request.
AfterMark(t) == IF t \in Workers THEN "release" ELSE "idle"
Marked(t) ==
  /\ Goto(t, AfterMark(t)) /\ Marking(t, None)
  /\ job' = [job EXCEPT ![t] = IF t \in Workers THEN @ ELSE None]

\* Faulty: the done channel is left open.
LeaveDoneOpen(t) ==
  /\ pc[t] = "close"
  /\ Marked(t)
  /\ UNCHANGED <<pool, lock, table, cancels, ends>>

\* The select on j.done, after the job's lock is released.
CheckDone(t) ==
  /\ pc[t] = "close"
  /\ IF job[t] \in closed THEN Marked(t)
     ELSE Goto(t, "closing") /\ UNCHANGED <<job, mark>>
  /\ UNCHANGED <<pool, lock, table, cancels, ends>>

\* close(done).  Closing a closed channel panics: in a request net/http
\* recovers, in a worker nobody does and the process ends.
CloseDone(t) ==
  /\ pc[t] = "closing"
  /\ closed' = closed \cup {job[t]}
  /\ crashed' = (job[t] \in closed /\ t \in Workers)
  /\ Marked(t)
  /\ UNCHANGED <<pool, lock, known, status, cancels, waited>>

------------------------------------------------------------------------------
(* run: a worker goroutine                                                 *)

\* tm.get(id) finds nothing: straight to the deferred calls.
StartUnknown(w) ==
  /\ pc[w] = "start" /\ MuFree
  /\ job[w] \notin known
  /\ Goto(w, "release")
  /\ UNCHANGED <<pool, lock, table, cancels, job, mark, ends>>

StartKnown(w) ==
  /\ pc[w] = "start" /\ MuFree
  /\ job[w] \in known
  /\ Goto(w, "begin")
  /\ UNCHANGED <<pool, lock, table, cancels, job, mark, ends>>

\* The job gets this run's context and becomes running, whatever it was.
BeginRun(w) ==
  /\ pc[w] = "begin"
  /\ cancelOf' = [cancelOf EXCEPT ![job[w]] = w]
  /\ status' = [status EXCEPT ![job[w]] = "running"]
  /\ Goto(w, "open")
  /\ UNCHANGED <<pool, lock, known, closed, canceled, job, mark, ends>>

\* No session client, or openReader or openWriter fails: the job fails even
\* if its context was canceled meanwhile.  An operation has nothing to open.
OpenFails(w) ==
  /\ pc[w] = "open" /\ Kind[job[w]] # "operation"
  /\ Marking(w, "failed") /\ Goto(w, "mark")
  /\ UNCHANGED <<pool, lock, table, cancels, job, ends>>

Open(w) ==
  /\ pc[w] = "open" /\ Goto(w, "work")
  /\ UNCHANGED <<pool, lock, table, cancels, job, mark, ends>>

\* What the transfer may end with: a canceled context wins over any result.
Outcomes(w) == IF w \in canceled THEN {"canceled"} ELSE {"completed", "failed"}

\* The transfer or operation returns.
Finish(w) ==
  /\ pc[w] = "work"
  /\ \E s \in Outcomes(w) : Marking(w, s)
  /\ Goto(w, "mark")
  /\ UNCHANGED <<pool, lock, table, cancels, job, ends>>

\* The deferred cancel() releases the context, so that a CancelFunc kept in
\* Job.cancel does nothing from here on, and the slot is given back.
Release(w) ==
  /\ pc[w] = "release"
  /\ slots' = slots - 1
  /\ canceled' = canceled \ {w}
  /\ cancelOf' = [j \in Jobs |-> IF cancelOf[j] = w THEN None ELSE cancelOf[j]]
  /\ Goto(w, "wgdone") /\ Hold(w, None)
  /\ UNCHANGED <<stopped, queue, wg, lock, table, mark, ends>>

\* Faulty: the worker gives its slot back twice, or ends without a pump.
AfterRunReleases == "release"
AfterRunEnds == "none"

\* wg.Done(), then the deferred pump.
AfterRun == "pump"
WgDone(w) ==
  /\ pc[w] = "wgdone"
  /\ wg' = wg - 1
  /\ Goto(w, AfterRun)
  /\ UNCHANGED <<stopped, queue, slots, lock, table, cancels, job, mark, ends>>

------------------------------------------------------------------------------
(* Requests                                                                *)

\* A caller with nothing to do begins one of the requests of this instance.
Begin(p, request) == pc[p] = "idle" /\ request \in Requests

\* EnqueueUpload, EnqueueDownload and EnqueueOperation end in enqueue: a new
\* job enters the table and the queue in one section, then pump.
Enqueue(p, j) ==
  /\ Begin(p, "enqueue") /\ MuFree
  /\ status[j] = "new" /\ Kind[j] # "stream"
  /\ status' = [status EXCEPT ![j] = "queued"]
  /\ known' = known \cup {j}
  /\ queue' = Append(queue, j)
  /\ Goto(p, "pump")
  /\ UNCHANGED <<stopped, slots, wg, lock, closed, cancels, job, mark, ends>>

\* TrackDownload registers a job that is running from the start and that no
\* worker runs; the request streams the bytes itself.
Track(p, j) ==
  /\ Begin(p, "track") /\ MuFree
  /\ status[j] = "new" /\ Kind[j] = "stream"
  /\ status' = [status EXCEPT ![j] = "running"]
  /\ known' = known \cup {j}
  /\ Hold(p, j) /\ Goto(p, "stream")
  /\ UNCHANGED <<pool, lock, closed, cancels, mark, ends>>

\* The jobs CompleteDownload may take for the one whose name it is given: the
\* running jobs of that name, the last one in an unspecified map order.
Matches(name) == {j \in known : Name[j] = name /\ status[j] = "running"}

\* CompleteDownload: the request's stream ends, well or interrupted.
Complete(p) ==
  /\ pc[p] = "stream" /\ MuFree
  /\ \E j \in Matches(Name[job[p]]), s \in {"completed", "failed"} :
       Hold(p, j) /\ Marking(p, s)
  /\ Goto(p, "mark")
  /\ UNCHANGED <<pool, lock, table, cancels, ends>>

CompleteNothing(p) ==
  /\ pc[p] = "stream" /\ MuFree
  /\ Matches(Name[job[p]]) = {}
  /\ Goto(p, "idle") /\ Hold(p, None)
  /\ UNCHANGED <<pool, lock, table, cancels, mark, ends>>

\* Cancel and Retry begin with tm.get.
Lookup(p, j, request) ==
  /\ Begin(p, request) /\ MuFree
  /\ j \in known
  /\ Hold(p, j) /\ Goto(p, request)
  /\ UNCHANGED <<pool, lock, table, cancels, mark, ends>>

\* Cancel of a job that is not queued calls its CancelFunc, when it has one.
CancelRunning(p) ==
  /\ pc[p] = "cancel" /\ status[job[p]] # "queued"
  /\ canceled' = canceled \cup ({cancelOf[job[p]]} \cap Workers)
  /\ Goto(p, "idle") /\ Hold(p, None)
  /\ UNCHANGED <<pool, lock, table, cancelOf, mark, ends>>

CancelQueued(p) ==
  /\ pc[p] = "cancel" /\ status[job[p]] = "queued"
  /\ Goto(p, "unqueue")
  /\ UNCHANGED <<pool, lock, table, cancels, job, mark, ends>>

\* removeQueued takes the first entry of a job out, if there still is one.
RemoveQueued(j) ==
  \/ \E i \in DOMAIN queue :
       /\ queue[i] = j /\ \A k \in 1 .. i-1 : queue[k] # j
       /\ queue' = RemoveAt(queue, i)
  \/ j \notin ToSet(queue) /\ UNCHANGED queue

\* Faulty: the entry is removed and the job keeps its status.
UnqueueOnly(p) ==
  /\ pc[p] = "unqueue" /\ MuFree
  /\ RemoveQueued(job[p])
  /\ Goto(p, "idle") /\ Hold(p, None)
  /\ UNCHANGED <<stopped, slots, wg, lock, table, cancels, mark, ends>>

\* The job is marked canceled whether its entry was found or not.
Unqueue(p) ==
  /\ pc[p] = "unqueue" /\ MuFree
  /\ RemoveQueued(job[p])
  /\ Marking(p, "canceled") /\ Goto(p, "mark")
  /\ UNCHANGED <<stopped, slots, wg, lock, table, cancels, job, ends>>

\* Faulty: Retry does not look at the status.
RetryableAnyTime(j) == Kind[j] # "stream"

\* Retry refuses an active job and a stream, whose bytes nobody can reopen.
Retryable(j) == status[j] \notin {"running", "queued"} /\ Kind[j] # "stream"

RetryRefused(p) ==
  /\ pc[p] = "retry" /\ ~Retryable(job[p])
  /\ Goto(p, "idle") /\ Hold(p, None)
  /\ UNCHANGED <<pool, lock, table, cancels, mark, ends>>

\* The done channel keeps its state: a retried job's is closed already.
RetryAccepted(p) ==
  /\ pc[p] = "retry" /\ Retryable(job[p])
  /\ status' = [status EXCEPT ![job[p]] = "queued"]
  /\ Goto(p, "append")
  /\ UNCHANGED <<pool, lock, known, closed, cancels, job, mark, ends>>

\* What Retry does after its append.
AfterAppend == "pump"
RetryAppend(p) ==
  /\ pc[p] = "append" /\ MuFree
  /\ queue' = Append(queue, job[p])
  /\ Goto(p, AfterAppend) /\ Hold(p, None)
  /\ UNCHANGED <<stopped, slots, wg, lock, table, cancels, mark, ends>>

\* Cleanup visits every job under tm.mu and forgets the finished ones; the
\* jobs' statuses may change while it does.
CleanupBegin(p) ==
  /\ Begin(p, "cleanup") /\ MuFree
  /\ holder' = p /\ todo' = known
  /\ Goto(p, "cleaning")
  /\ UNCHANGED <<pool, table, cancels, job, mark, ends>>

Removable(j) == status[j] \in Terminal

CleanupVisit(p, j) ==
  /\ pc[p] = "cleaning" /\ j \in todo
  /\ todo' = todo \ {j}
  /\ known' = IF Removable(j) THEN known \ {j} ELSE known
  /\ UNCHANGED <<pool, holder, status, closed, cancels, pc, job, mark, ends>>

CleanupEnd(p) ==
  /\ pc[p] = "cleaning" /\ todo = {}
  /\ holder' = None
  /\ Goto(p, "idle")
  /\ UNCHANGED <<pool, todo, table, cancels, job, mark, ends>>

------------------------------------------------------------------------------
(* Shutdown                                                                *)

CloseStop ==
  /\ pc[Main] = "up" /\ "shutdown" \in Requests
  /\ stopped' = TRUE
  /\ Goto(Main, "lock")
  /\ UNCHANGED <<queue, slots, wg, lock, table, cancels, job, mark, ends>>

SweepBegin ==
  /\ pc[Main] = "lock" /\ MuFree
  /\ holder' = Main /\ todo' = known
  /\ Goto(Main, "sweep")
  /\ UNCHANGED <<pool, table, cancels, job, mark, ends>>

\* Faulty: the sweep uses a method that takes tm.mu again.
SweepRelocks(j) ==
  /\ pc[Main] = "sweep" /\ j \in todo /\ MuFree
  /\ todo' = todo \ {j}
  /\ UNCHANGED <<pool, holder, table, cancels, pc, job, mark, ends>>

\* One job of the sweep: cancel its context and look at its done channel.
SweepCancel(j) ==
  /\ pc[Main] = "sweep" /\ j \in todo
  /\ canceled' = canceled \cup ({cancelOf[j]} \cap Workers)
  /\ IF j \in closed
       THEN todo' = todo \ {j} /\ UNCHANGED <<pc, job>>
       ELSE Goto(Main, "sweepClose") /\ Hold(Main, j) /\ UNCHANGED todo
  /\ UNCHANGED <<pool, holder, table, cancelOf, mark, ends>>

\* The channel is closed under the job's lock, which setStatus does not hold
\* when it closes the same channel.
SweepClose ==
  /\ pc[Main] = "sweepClose"
  /\ crashed' = (job[Main] \in closed)
  /\ closed' = closed \cup {job[Main]}
  /\ todo' = todo \ {job[Main]}
  /\ Goto(Main, "sweep") /\ Hold(Main, None)
  /\ UNCHANGED <<pool, holder, known, status, cancels, mark, waited>>

SweepEnd ==
  /\ pc[Main] = "sweep" /\ todo = {}
  /\ holder' = None
  /\ Goto(Main, "wait")
  /\ UNCHANGED <<pool, todo, table, cancels, job, mark, ends>>

\* wg.Wait returns, or the five seconds of the context pass.
WaitReturns ==
  /\ pc[Main] = "wait" /\ wg = 0
  /\ waited' = TRUE
  /\ Goto(Main, "down")
  /\ UNCHANGED <<pool, lock, table, cancels, job, mark, crashed>>

WaitExpires ==
  /\ pc[Main] = "wait"
  /\ Goto(Main, "down")
  /\ UNCHANGED <<pool, lock, table, cancels, job, mark, ends>>

------------------------------------------------------------------------------
Pump(t)    == PumpCheck(t) \/ PumpReturn(t) \/ PumpTake(t)
                \/ \E w \in Workers : Spawn(t, w)
Mark(t)    == SetStatus(t) \/ CheckDone(t) \/ CloseDone(t)
Run(w)     == StartUnknown(w) \/ StartKnown(w) \/ BeginRun(w)
                \/ OpenFails(w) \/ Open(w) \/ Finish(w) \/ Release(w) \/ WgDone(w)
Request(p) == \/ \E j \in Jobs : Enqueue(p, j) \/ Track(p, j)
                   \/ Lookup(p, j, "cancel") \/ Lookup(p, j, "retry")
              \/ CleanupBegin(p)
Serve(p)   == \/ Complete(p) \/ CompleteNothing(p)
              \/ CancelRunning(p) \/ CancelQueued(p) \/ Unqueue(p)
              \/ RetryRefused(p) \/ RetryAccepted(p) \/ RetryAppend(p)
              \/ \E j \in Jobs : CleanupVisit(p, j)
              \/ CleanupEnd(p)
Sweep      == SweepBegin \/ (\E j \in Jobs : SweepCancel(j)) \/ SweepClose
                \/ SweepEnd \/ WaitReturns \/ WaitExpires

WorkerStep(w) == Pump(w) \/ Mark(w) \/ Run(w)
CallerStep(p) == Pump(p) \/ Mark(p) \/ Serve(p)

\* Nothing left to do but new requests: every thread rests.
AtRest ==
  /\ crashed \/ \A t \in Threads : pc[t] \in {"none", "idle", "up", "down"}
  /\ UNCHANGED vars

Next ==
  \/ /\ ~crashed
     /\ \/ \E w \in Workers : WorkerStep(w)
        \/ \E p \in Callers : CallerStep(p) \/ Request(p)
        \/ CloseStop \/ Sweep
  \/ AtRest

Spec == Init /\ [][Next]_vars

\* The Go scheduler runs every runnable goroutine and sync.Mutex hands itself
\* over to a starving waiter, hence strong fairness; a transfer ends, because
\* its context or its connection does.  Requests and the shutdown are the
\* user's choice: no fairness.
Fairness ==
  /\ \A w \in Workers : SF_vars(~crashed /\ WorkerStep(w))
  /\ \A p \in Callers : SF_vars(~crashed /\ CallerStep(p))
  /\ SF_vars(~crashed /\ Sweep)

FairSpec == Spec /\ Fairness
------------------------------------------------------------------------------
(* What the design promises and the code keeps                             *)

\* Workers between go run(id) and the release of their slot.
Running   == {w \in Workers : pc[w] \in RunSteps}
\* Threads that own a slot of tm.sem: those workers, and every thread that has
\* taken one for the worker it is about to start.
Occupants == Running \cup {t \in Threads : pc[t] = "spawn"}

\* The semaphore counts exactly the runs admitted and not yet over, whoever
\* took their slot: pump takes it in one goroutine, run gives it back in
\* another, across early returns (transfers.go:276-297).
SlotsAreOwned == slots = Cardinality(Occupants)

\* New's concurrency is a bound on the transfers that run at one time
\* (transfers.go:140-149), however requests and retries interleave.
ConcurrencyBound == Cardinality(Running) <= Limit

Pool == INSTANCE WorkerPool WITH waiting <- queue, busy <- Cardinality(Occupants)

\* The queue with its threads and locks admits jobs in the order in which they
\* came, never more than Limit at a time, and a cancellation withdraws one
\* submission at most (transfers.go:257-288, 556-565).
ImplementsPool == Pool!Spec

\* tm.wg counts exactly the workers that have not reached wg.Done
\* (transfers.go:285, 297): Shutdown's Wait is about them all.
WaitGroupCounts ==
  wg = Cardinality(Running \cup {w \in Workers : pc[w] = "wgdone"})

\* No lost wake-up: a queued id and a free slot never meet without some thread
\* that is still going to look at both (pump's non-blocking send,
\* transfers.go:276-281, relies on every release being followed by a pump).
NoLostWakeup ==
  (queue # <<>> /\ slots < Limit /\ ~stopped)
    => \E t \in Threads : pc[t] \in {"pump", "take", "spawn", "wgdone"}

\* The threads that will still move job j on: start it, put it in the queue,
\* or mark it finished.
Carriers(j) == {t \in Threads :
                  job[t] = j /\ pc[t] \in {"spawn", "start", "begin", "append", "mark"}}

\* A job the user sees as queued is never forgotten: it is in the queue or in
\* the hands of a thread that will move it on, although Cancel, Retry and run
\* change the status and the queue in separate sections (transfers.go:541-547,
\* 573-591, 282-310).
QueuedJobIsHeld ==
  \A j \in known : status[j] = "queued"
                    => j \in ToSet(queue) \/ Carriers(j) # {}

\* Wait blocks on j.done after it saw a terminal status (transfers.go:180-181):
\* that channel is closed, or a thread is about to close it, whatever retries
\* and cancellations ran in between.
FinishedJobReleasesWaiters ==
  \A j \in Jobs : status[j] \in Terminal
    => j \in closed \/ \E t \in Threads : job[t] = j /\ pc[t] \in {"close", "closing"}

\* Workers that have begun their run and not yet decided how it ended.
Active == {w \in Workers : pc[w] \in {"open", "work"}}

\* As long as nobody cancels, a job has one run at a time, the user sees it as
\* running, and Cleanup has not forgotten it: Retry's refusal of active jobs
\* (transfers.go:574) and Cleanup's of unfinished ones (transfers.go:604) read
\* the status in one section and act on it in another.
OneVisibleRun ==
  \A w \in Active : /\ status[job[w]] = "running"
                    /\ job[w] \in known
                    /\ \A v \in Active : job[v] = job[w] => v = w

\* When Shutdown's wg.Wait returns, no transfer is under way at that moment
\* (transfers.go:629-633): every worker is past its last use of the session.
CleanWaitFindsNobody ==
  [][waited' /\ ~waited => Running = {}]_vars

\* FIFO admission without starvation: while the engine is up, a queued id
\* leaves the queue (transfers.go:257-288).
QueueDrains ==
  \A j \in Jobs : j \in ToSet(queue) ~> (j \notin ToSet(queue) \/ stopped \/ crashed)

\* Shutdown returns: the sweep, which holds tm.mu and takes every job's lock,
\* never waits for a thread that waits for it (transfers.go:612-633).
ShutdownReturns == stopped ~> (pc[Main] = "down" \/ crashed)
==============================================================================
