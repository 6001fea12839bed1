-------------------------- MODULE TransferQueueProofs --------------------------
(***************************************************************************)
(* Proofs about TransferQueue for every number of jobs, workers, callers   *)
(* and slots.                                                              *)
(***************************************************************************)
EXTENDS TransferQueue, FiniteSetTheorems, SequenceTheorems, TLAPS

\* The locals of a thread are set where its next step reads them.
Carrying == RunSteps \cup {"spawn", "cancel", "unqueue", "retry", "append",
                           "stream", "sweepClose"}
Locals ==
  \A t \in Threads : /\ pc[t] \in Carrying => job[t] \in Jobs
                     /\ pc[t] \in MarkSteps => mark[t] \in Terminal

\* Workers that the wait group counts.
Counted == Running \cup {w \in Workers : pc[w] = "wgdone"}

\* The inductive invariant behind the counters: a slot can only be given back,
\* and the wait group only be decremented, because somebody still owns one.
Accounts == TypeOK /\ Locals /\ SlotsAreOwned /\ WaitGroupCounts

------------------------------------------------------------------------------
(* Types                                                                   *)

\* Removing an entry from the queue leaves a queue of jobs, and leaves every
\* other job in it.
LEMMA RemoveAtKeeps ==
  ASSUME NEW q \in Seq(Jobs), NEW i \in DOMAIN q
  PROVE  /\ RemoveAt(q, i) \in Seq(Jobs)
         /\ \A j \in ToSet(q) : j # q[i] => j \in ToSet(RemoveAt(q, i))
<1> DEFINE r == RemoveAt(q, i)
<1>1. i \in 1 .. Len(q)
  OBVIOUS
<1>2. /\ r \in Seq(Jobs) /\ Len(r) = Len(q) - 1
      /\ \A k \in 1 .. Len(q) - 1 : r[k] = IF k < i THEN q[k] ELSE q[k + 1]
  <2> DEFINE front == SubSeq(q, 1, i - 1)
             back  == SubSeq(q, i + 1, Len(q))
  <2>1. /\ front \in Seq(Jobs) /\ Len(front) = i - 1
        /\ \A k \in 1 .. i - 1 : front[k] = q[k]
    BY <1>1
  <2>2. /\ back \in Seq(Jobs) /\ Len(back) = Len(q) - i
        /\ \A k \in 1 .. Len(q) - i : back[k] = q[i + k]
    BY <1>1
  <2>3. r = front \o back
    BY DEF RemoveAt
  <2> HIDE DEF front, back, r
  <2> QED
    BY <1>1, <2>1, <2>2, <2>3
<1>3. ASSUME NEW k \in 1 .. Len(q), k # i
      PROVE  q[k] \in ToSet(r)
  <2>1. CASE k < i
    <3>1. k \in 1 .. Len(r) /\ r[k] = q[k]
      BY <1>1, <1>2, <2>1
    <3> QED
      BY <3>1, <1>2 DEF ToSet
  <2>2. CASE k > i
    <3>1. k - 1 \in 1 .. Len(r) /\ r[k - 1] = q[k]
      BY <1>1, <1>2, <2>2
    <3> QED
      BY <3>1, <1>2 DEF ToSet
  <2> QED
    BY <1>3, <2>1, <2>2
<1> QED
  BY <1>2, <1>3 DEF ToSet

\* pump keeps the types and the locals of its threads.
LEMMA TypePump ==
  ASSUME TypeOK, Locals, NEW t \in Workers \cup Callers, Pump(t)
  PROVE  TypeOK' /\ Locals'
<1> USE DistinctAssumption, LimitAssumption
        DEF TypeOK, Locals, Carrying, Threads, Goto, Hold, Rest,
            WorkerSteps, CallerSteps, MainSteps, PumpSteps, RunSteps, MarkSteps,
            pool, lock, table, cancels, ends
<1>1. CASE PumpCheck(t)
  BY <1>1 DEF PumpCheck
<1>2. CASE PumpReturn(t)
  BY <1>2 DEF PumpReturn
<1>3. CASE PumpTake(t)
  BY <1>3 DEF PumpTake, SlotFree
<1>4. ASSUME NEW w \in Workers, Spawn(t, w)
      PROVE  TypeOK' /\ Locals'
  BY <1>4 DEF Spawn
<1> QED
  BY <1>1, <1>2, <1>3, <1>4 DEF Pump

\* mark keeps the types and the locals.
LEMMA TypeMark ==
  ASSUME TypeOK, Locals, NEW t \in Workers \cup Callers, Mark(t)
  PROVE  TypeOK' /\ Locals'
<1> USE DistinctAssumption, LimitAssumption
        DEF TypeOK, Locals, Carrying, Threads, Goto, Hold, Marking, Marked, AfterMark,
            WorkerSteps, CallerSteps, MainSteps, PumpSteps, RunSteps, MarkSteps,
            pool, lock, table, cancels, ends
<1>1. CASE SetStatus(t)
  BY <1>1 DEF SetStatus, Statuses
<1>2. CASE CheckDone(t)
  BY <1>2 DEF CheckDone
<1>3. CASE CloseDone(t)
  BY <1>3 DEF CloseDone
<1> QED
  BY <1>1, <1>2, <1>3 DEF Mark

\* Somebody owns the slot that a release gives back.
LEMMA OwnedSlot ==
  ASSUME TypeOK, SlotsAreOwned, NEW t \in Occupants
  PROVE  slots > 0
<1>1. IsFiniteSet(Occupants)
  BY FiniteAssumption, FS_Union, FS_Singleton, FS_Subset
     DEF Occupants, Running, Threads
<1>2. Cardinality(Occupants) # 0
  BY <1>1, FS_EmptySet
<1> QED
  BY <1>2 DEF SlotsAreOwned, TypeOK

\* Somebody is counted in the wait group that a wg.Done decrements.
LEMMA CountedWorker ==
  ASSUME TypeOK, WaitGroupCounts, NEW w \in Counted
  PROVE  wg > 0
<1>1. IsFiniteSet(Counted)
  BY FiniteAssumption, FS_Subset DEF Counted, Running
<1>2. Cardinality(Counted) # 0
  BY <1>1, FS_EmptySet
<1> QED
  BY <1>2 DEF WaitGroupCounts, TypeOK, Counted

\* run keeps the types and the locals: what it takes from the counters is there.
LEMMA TypeRun ==
  ASSUME Accounts, NEW w \in Workers, Run(w)
  PROVE  TypeOK' /\ Locals'
<1> USE DistinctAssumption, LimitAssumption
        DEF Accounts, TypeOK, Locals, Carrying, Threads, Goto, Hold, Marking,
            WorkerSteps, CallerSteps, MainSteps, PumpSteps, RunSteps, MarkSteps,
            pool, lock, table, cancels, ends
<1>1. CASE StartUnknown(w)
  BY <1>1 DEF StartUnknown
<1>2. CASE StartKnown(w)
  BY <1>2 DEF StartKnown
<1>3. CASE BeginRun(w)
  BY <1>3 DEF BeginRun, Statuses
<1>4. CASE OpenFails(w)
  BY <1>4 DEF OpenFails, Terminal
<1>5. CASE Open(w)
  BY <1>5 DEF Open
<1>6. CASE Finish(w)
  BY <1>6 DEF Finish, Outcomes, Terminal
<1>7. CASE Release(w)
  <2>1. slots > 0
    BY <1>7, OwnedSlot DEF Release, Occupants, Running
  <2> QED
    BY <1>7, <2>1 DEF Release
<1>8. CASE WgDone(w)
  <2>1. wg > 0
    BY <1>8, CountedWorker DEF WgDone, Counted
  <2> QED
    BY <1>8, <2>1 DEF WgDone, AfterRun
<1> QED
  BY <1>1, <1>2, <1>3, <1>4, <1>5, <1>6, <1>7, <1>8 DEF Run

\* The first step of a request keeps the types and the locals.
LEMMA TypeRequest ==
  ASSUME TypeOK, Locals, NEW p \in Callers, Request(p)
  PROVE  TypeOK' /\ Locals'
<1> USE DistinctAssumption, LimitAssumption
        DEF TypeOK, Locals, Carrying, Threads, Goto, Hold, Begin,
            WorkerSteps, CallerSteps, MainSteps, PumpSteps, RunSteps, MarkSteps,
            Statuses, pool, lock, table, cancels, ends
<1>1. ASSUME NEW j \in Jobs, Enqueue(p, j)
      PROVE  TypeOK' /\ Locals'
  BY <1>1 DEF Enqueue
<1>2. ASSUME NEW j \in Jobs, Track(p, j)
      PROVE  TypeOK' /\ Locals'
  BY <1>2 DEF Track
<1>3. ASSUME NEW j \in Jobs, Lookup(p, j, "cancel") \/ Lookup(p, j, "retry")
      PROVE  TypeOK' /\ Locals'
  BY <1>3 DEF Lookup
<1>4. CASE CleanupBegin(p)
  BY <1>4 DEF CleanupBegin
<1> QED
  BY <1>1, <1>2, <1>3, <1>4 DEF Request

\* The later steps of a request keep the types and the locals.
LEMMA TypeServe ==
  ASSUME TypeOK, Locals, NEW p \in Callers, Serve(p)
  PROVE  TypeOK' /\ Locals'
<1> USE DistinctAssumption, LimitAssumption
        DEF TypeOK, Locals, Carrying, Threads, Goto, Hold, Marking,
            WorkerSteps, CallerSteps, MainSteps, PumpSteps, RunSteps, MarkSteps,
            Statuses, Terminal, pool, lock, table, cancels, ends
<1>1. CASE Complete(p)
  BY <1>1 DEF Complete, Matches
<1>2. CASE CompleteNothing(p)
  BY <1>2 DEF CompleteNothing
<1>3. CASE CancelRunning(p)
  BY <1>3 DEF CancelRunning
<1>4. CASE CancelQueued(p)
  BY <1>4 DEF CancelQueued
<1>5. CASE Unqueue(p)
  BY <1>5, RemoveAtKeeps DEF Unqueue, RemoveQueued
<1>6. CASE RetryRefused(p)
  BY <1>6 DEF RetryRefused
<1>7. CASE RetryAccepted(p)
  BY <1>7 DEF RetryAccepted
<1>8. CASE RetryAppend(p)
  BY <1>8 DEF RetryAppend, AfterAppend
<1>9. ASSUME NEW j \in Jobs, CleanupVisit(p, j)
      PROVE  TypeOK' /\ Locals'
  BY <1>9 DEF CleanupVisit
<1>10. CASE CleanupEnd(p)
  BY <1>10 DEF CleanupEnd
<1> QED
  BY <1>1, <1>2, <1>3, <1>4, <1>5, <1>6, <1>7, <1>8, <1>9, <1>10 DEF Serve

\* Shutdown keeps the types and the locals.
LEMMA TypeShutdown ==
  ASSUME TypeOK, Locals, CloseStop \/ Sweep
  PROVE  TypeOK' /\ Locals'
<1> USE DistinctAssumption, LimitAssumption
        DEF TypeOK, Locals, Carrying, Threads, Goto, Hold,
            WorkerSteps, CallerSteps, MainSteps, PumpSteps, RunSteps, MarkSteps,
            pool, lock, table, cancels, ends
<1>1. CASE CloseStop
  BY <1>1 DEF CloseStop
<1>2. CASE SweepBegin
  BY <1>2 DEF SweepBegin
<1>3. ASSUME NEW j \in Jobs, SweepCancel(j)
      PROVE  TypeOK' /\ Locals'
  BY <1>3 DEF SweepCancel
<1>4. CASE SweepClose
  BY <1>4 DEF SweepClose
<1>5. CASE SweepEnd
  BY <1>5 DEF SweepEnd
<1>6. CASE WaitReturns
  BY <1>6 DEF WaitReturns
<1>7. CASE WaitExpires
  BY <1>7 DEF WaitExpires
<1> QED
  BY <1>1, <1>2, <1>3, <1>4, <1>5, <1>6, <1>7 DEF Sweep

\* Every step keeps the types and the locals, given the counters are right.
LEMMA AccountsTypeStep ==
  ASSUME Accounts, [Next]_vars
  PROVE  TypeOK' /\ Locals'
<1>1. ASSUME NEW w \in Workers, WorkerStep(w)
      PROVE  TypeOK' /\ Locals'
  BY <1>1, TypePump, TypeMark, TypeRun DEF WorkerStep, Accounts
<1>2. ASSUME NEW p \in Callers, CallerStep(p) \/ Request(p)
      PROVE  TypeOK' /\ Locals'
  BY <1>2, TypePump, TypeMark, TypeServe, TypeRequest DEF CallerStep, Accounts
<1>3. CASE CloseStop \/ Sweep
  BY <1>3, TypeShutdown DEF Accounts
<1>4. CASE UNCHANGED vars
  BY <1>4 DEF Accounts, TypeOK, Locals, Carrying, vars, pool, lock, table, cancels, ends
<1> QED
  BY <1>1, <1>2, <1>3, <1>4 DEF Next, AtRest

------------------------------------------------------------------------------
(* Counters                                                                *)

\* Nobody takes or gives back a slot, or tells the wait group anything.
SameOwners == /\ Occupants' = Occupants /\ slots' = slots
              /\ Counted' = Counted /\ wg' = wg

\* The threads the counters count are finitely many.
LEMMA FiniteOwners == IsFiniteSet(Occupants) /\ IsFiniteSet(Counted)
<1>1. IsFiniteSet(Threads)
  BY FiniteAssumption, FS_Union, FS_Singleton DEF Threads
<1>2. Occupants \subseteq Threads /\ Counted \subseteq Workers
  BY DEF Occupants, Counted, Running, Threads
<1> QED
  BY <1>1, <1>2, FiniteAssumption, FS_Subset

\* The counters stay right while neither they nor what they count changes.
LEMMA SameAccounts ==
  ASSUME SlotsAreOwned, WaitGroupCounts, SameOwners
  PROVE  SlotsAreOwned' /\ WaitGroupCounts'
BY DEF SlotsAreOwned, WaitGroupCounts, SameOwners, Counted

\* pump takes a slot for itself and hands it on with the job.
LEMMA CountPump ==
  ASSUME Accounts, NEW t \in Workers \cup Callers, Pump(t)
  PROVE  SlotsAreOwned' /\ WaitGroupCounts'
<1> USE DEF Accounts
<1>1. CASE PumpCheck(t) \/ PumpReturn(t)
  <2>1. SameOwners
    BY <1>1, DistinctAssumption
       DEF PumpCheck, PumpReturn, SameOwners, Occupants, Counted, Running, TypeOK,
           Threads, Goto, Rest, RunSteps, pool
  <2> QED
    BY <2>1, SameAccounts
<1>2. CASE PumpTake(t)
  <2>1. Occupants' = Occupants \cup {t} /\ t \notin Occupants /\ Counted' = Counted
    BY <1>2, DistinctAssumption
       DEF PumpTake, Occupants, Counted, Running, TypeOK, Threads, Goto, RunSteps
  <2>2. slots' = slots + 1 /\ wg' = wg
    BY <1>2 DEF PumpTake
  <2> QED
    BY <2>1, <2>2, FiniteOwners, FS_AddElement DEF SlotsAreOwned, WaitGroupCounts, Counted
<1>3. ASSUME NEW w \in Workers, Spawn(t, w)
      PROVE  SlotsAreOwned' /\ WaitGroupCounts'
  <2>1. /\ Occupants' = (Occupants \ {t}) \cup {w}
        /\ t \in Occupants /\ w \notin Occupants
    BY <1>3, DistinctAssumption
       DEF Spawn, Occupants, Running, TypeOK, Threads, RunSteps
  <2>2. Counted' = Counted \cup {w} /\ w \notin Counted
    BY <1>3, DistinctAssumption
       DEF Spawn, Counted, Running, TypeOK, Threads, RunSteps
  <2>3. slots' = slots /\ wg' = wg + 1
    BY <1>3 DEF Spawn
  <2>4. Cardinality(Occupants') = Cardinality(Occupants)
    <3> DEFINE others == Occupants \ {t}
    <3>1. IsFiniteSet(others) /\ Cardinality(others) = Cardinality(Occupants) - 1
      BY <2>1, FiniteOwners, FS_RemoveElement
    <3>2. Cardinality(others \cup {w}) = Cardinality(others) + 1
      BY <2>1, <3>1, FS_AddElement
    <3>3. Cardinality(Occupants) \in Nat
      BY FiniteOwners, FS_CardinalityType
    <3> QED
      BY <2>1, <3>1, <3>2, <3>3
  <2> QED
    BY <2>2, <2>3, <2>4, FiniteOwners, FS_AddElement
       DEF SlotsAreOwned, WaitGroupCounts, Counted
<1> QED
  BY <1>1, <1>2, <1>3 DEF Pump

\* mark changes no counter.
LEMMA CountMark ==
  ASSUME Accounts, NEW t \in Workers \cup Callers, Mark(t)
  PROVE  SlotsAreOwned' /\ WaitGroupCounts'
<1>1. SameOwners
  BY DistinctAssumption
     DEF Mark, SetStatus, CheckDone, CloseDone, Marked, AfterMark, Accounts, SameOwners,
         Occupants, Counted, Running, TypeOK, Threads, Goto, RunSteps, pool
<1> QED
  BY <1>1, SameAccounts DEF Accounts

\* run gives back one slot and one count of the wait group, each its own.
LEMMA CountRun ==
  ASSUME Accounts, NEW w \in Workers, Run(w)
  PROVE  SlotsAreOwned' /\ WaitGroupCounts'
<1> USE DEF Accounts
<1>1. CASE StartUnknown(w) \/ StartKnown(w) \/ BeginRun(w) \/ OpenFails(w)
             \/ Open(w) \/ Finish(w)
  <2>1. SameOwners
    BY <1>1, DistinctAssumption
       DEF StartUnknown, StartKnown, BeginRun, OpenFails, Open, Finish, SameOwners,
           Occupants, Counted, Running, TypeOK, Threads, Goto, RunSteps, pool
  <2> QED
    BY <2>1, SameAccounts
<1>2. CASE Release(w)
  <2>1. Occupants' = Occupants \ {w} /\ w \in Occupants /\ Counted' = Counted
    BY <1>2, DistinctAssumption
       DEF Release, Occupants, Counted, Running, TypeOK, Threads, Goto, RunSteps
  <2>2. slots' = slots - 1 /\ wg' = wg
    BY <1>2 DEF Release
  <2> QED
    BY <2>1, <2>2, FiniteOwners, FS_RemoveElement DEF SlotsAreOwned, WaitGroupCounts, Counted
<1>3. CASE WgDone(w)
  <2>1. Counted' = Counted \ {w} /\ w \in Counted /\ Occupants' = Occupants
    BY <1>3, DistinctAssumption
       DEF WgDone, AfterRun, Occupants, Counted, Running, TypeOK, Threads, Goto, RunSteps
  <2>2. wg' = wg - 1 /\ slots' = slots
    BY <1>3 DEF WgDone
  <2> QED
    BY <2>1, <2>2, FiniteOwners, FS_RemoveElement DEF SlotsAreOwned, WaitGroupCounts, Counted
<1> QED
  BY <1>1, <1>2, <1>3 DEF Run

\* Requests change no counter but through pump.
LEMMA CountRequests ==
  ASSUME Accounts, NEW p \in Callers, Request(p) \/ Serve(p)
  PROVE  SlotsAreOwned' /\ WaitGroupCounts'
<1> USE DistinctAssumption
        DEF Accounts, SameOwners, Occupants, Counted, Running, TypeOK, Threads, Goto,
            RunSteps, pool
<1>1. ASSUME NEW j \in Jobs,
             Enqueue(p, j) \/ Track(p, j) \/ Lookup(p, j, "cancel") \/ Lookup(p, j, "retry")
      PROVE  SameOwners
  BY <1>1 DEF Enqueue, Track, Lookup, Begin
<1>2. CASE Complete(p) \/ CompleteNothing(p)
  <2>1. SameOwners
    BY <1>2 DEF Complete, CompleteNothing
  <2> QED
    BY <2>1, SameAccounts
<1>3. CASE CancelRunning(p) \/ CancelQueued(p) \/ Unqueue(p)
  <2>1. SameOwners
    BY <1>3 DEF CancelRunning, CancelQueued, Unqueue
  <2> QED
    BY <2>1, SameAccounts
<1>4. CASE RetryRefused(p) \/ RetryAccepted(p) \/ RetryAppend(p)
  <2>1. SameOwners
    BY <1>4 DEF RetryRefused, RetryAccepted, RetryAppend, AfterAppend
  <2> QED
    BY <2>1, SameAccounts
<1>5. CASE CleanupBegin(p) \/ CleanupEnd(p)
  <2>1. SameOwners
    BY <1>5 DEF CleanupBegin, CleanupEnd, Begin
  <2> QED
    BY <2>1, SameAccounts
<1>6. ASSUME NEW j \in Jobs, CleanupVisit(p, j)
      PROVE  SameOwners
  BY <1>6 DEF CleanupVisit
<1> QED
  BY <1>1, <1>2, <1>3, <1>4, <1>5, <1>6, SameAccounts DEF Request, Serve

\* Shutdown changes no counter.
LEMMA CountShutdown ==
  ASSUME Accounts, CloseStop \/ Sweep
  PROVE  SlotsAreOwned' /\ WaitGroupCounts'
<1>1. SameOwners
  BY DistinctAssumption
     DEF CloseStop, Sweep, SweepBegin, SweepCancel, SweepClose, SweepEnd, WaitReturns,
         WaitExpires, Accounts, SameOwners, Occupants, Counted, Running, TypeOK, Threads,
         Goto, RunSteps, pool
<1> QED
  BY <1>1, SameAccounts DEF Accounts

\* At the start no slot is taken and nobody is counted.
LEMMA AccountsInit == Init => Accounts
<1> SUFFICES ASSUME Init PROVE Accounts
  OBVIOUS
<1>1. TypeOK
  <2>1. /\ pc \in [Threads -> WorkerSteps \cup CallerSteps \cup MainSteps]
        /\ \A w \in Workers : pc[w] \in WorkerSteps
        /\ \A p \in Callers : pc[p] \in CallerSteps
        /\ pc[Main] \in MainSteps
    BY DistinctAssumption DEF Init, Threads, WorkerSteps, CallerSteps, MainSteps
  <2>2. /\ job \in [Threads -> Jobs \cup {None}]
        /\ mark \in [Threads -> Terminal \cup {None}]
        /\ status \in [Jobs -> Statuses]
        /\ cancelOf \in [Jobs -> Workers \cup {None}]
    BY DEF Init, Statuses
  <2>3. slots \in 0 .. Limit /\ wg \in Nat /\ queue \in Seq(Jobs)
    BY LimitAssumption DEF Init
  <2> QED
    BY <2>1, <2>2, <2>3 DEF Init, TypeOK
<1>2. Locals
  BY DistinctAssumption DEF Init, Locals, Carrying, RunSteps, MarkSteps, Threads
<1>3. Occupants = {} /\ Counted = {}
  BY DistinctAssumption DEF Init, Occupants, Counted, Running, RunSteps, Threads
<1> QED
  BY <1>1, <1>2, <1>3, FS_EmptySet
     DEF Init, Accounts, SlotsAreOwned, WaitGroupCounts, Counted

\* Every step keeps the counters equal to what they count (transfers.go:276-297).
LEMMA AccountsStep == Accounts /\ [Next]_vars => Accounts'
<1> SUFFICES ASSUME Accounts, [Next]_vars PROVE SlotsAreOwned' /\ WaitGroupCounts'
  BY AccountsTypeStep DEF Accounts
<1>1. ASSUME NEW w \in Workers, WorkerStep(w)
      PROVE  SlotsAreOwned' /\ WaitGroupCounts'
  BY <1>1, CountPump, CountMark, CountRun DEF WorkerStep
<1>2. ASSUME NEW p \in Callers, CallerStep(p) \/ Request(p)
      PROVE  SlotsAreOwned' /\ WaitGroupCounts'
  BY <1>2, CountPump, CountMark, CountRequests DEF CallerStep
<1>3. CASE CloseStop \/ Sweep
  BY <1>3, CountShutdown
<1>4. CASE UNCHANGED vars
  <2>1. SameOwners
    BY <1>4 DEF SameOwners, Occupants, Counted, Running, vars, pool
  <2> QED
    BY <2>1, SameAccounts DEF Accounts
<1> QED
  BY <1>1, <1>2, <1>3, <1>4 DEF Next, AtRest

\* The slots and the wait group always count their owners; the strengthening
\* from which the results below follow (transfers.go:276-297).
THEOREM AccountsInvariant == Spec => []Accounts
BY AccountsInit, AccountsStep, PTL DEF Spec

\* Every variable keeps its type: in particular a worker never gives back a
\* slot that is not taken, which would block for ever on the empty channel
\* (transfers.go:297).
THEOREM TypeCorrect == Spec => []TypeOK
BY AccountsInvariant, PTL DEF Accounts

\* The slots taken are those of the runs admitted and not yet over.
THEOREM SlotsInvariant == Spec => []SlotsAreOwned
BY AccountsInvariant, PTL DEF Accounts

\* The wait group counts the workers that have not said they are done.
THEOREM WaitGroupInvariant == Spec => []WaitGroupCounts
BY AccountsInvariant, PTL DEF Accounts

\* At most Limit transfers run at one time.
THEOREM BoundedConcurrency == Spec => []ConcurrencyBound
<1>1. Accounts => ConcurrencyBound
  <2> SUFFICES ASSUME Accounts PROVE ConcurrencyBound
    OBVIOUS
  <2>1. Running \subseteq Occupants
    BY DEF Occupants
  <2>2. Cardinality(Running) <= Cardinality(Occupants)
    BY <2>1, FiniteOwners, FS_Subset
  <2>3. Cardinality(Running) \in Nat /\ Cardinality(Occupants) <= Limit
    BY <2>1, FiniteOwners, FS_Subset, FS_CardinalityType
       DEF Accounts, SlotsAreOwned, TypeOK
  <2> QED
    BY <2>2, <2>3, FiniteOwners, FS_CardinalityType, LimitAssumption DEF ConcurrencyBound
<1> QED
  BY <1>1, AccountsInvariant, PTL

\* When Wait returns, the wait group is at zero and no transfer is under way.
THEOREM CleanWait == Spec => CleanWaitFindsNobody
<1>1. ASSUME Accounts, [Next]_vars, waited', ~waited
      PROVE  Running = {}
  <2>1. CASE WaitReturns
    <3>1. Cardinality(Counted) = 0
      BY <1>1, <2>1 DEF WaitReturns, Accounts, WaitGroupCounts, Counted
    <3>2. Counted = {}
      BY <3>1, FiniteOwners, FS_EmptySet
    <3> QED
      BY <3>2 DEF Counted
  <2>2. ASSUME NEW t \in Threads, Pump(t) \/ Mark(t)
        PROVE  waited' = waited
    BY <2>2 DEF Pump, PumpCheck, PumpReturn, PumpTake, Spawn, Mark, SetStatus, CheckDone,
                CloseDone, ends
  <2>3. ASSUME NEW w \in Workers, Run(w)
        PROVE  waited' = waited
    BY <2>3 DEF Run, StartUnknown, StartKnown, BeginRun, OpenFails, Open, Finish, Release,
                WgDone, ends
  <2>4. ASSUME NEW p \in Callers, Request(p) \/ Serve(p)
        PROVE  waited' = waited
    BY <2>4 DEF Request, Enqueue, Track, Lookup, CleanupBegin, Serve, Complete,
                CompleteNothing, CancelRunning, CancelQueued, Unqueue, RetryRefused,
                RetryAccepted, RetryAppend, CleanupVisit, CleanupEnd, ends
  <2>5. ASSUME ~WaitReturns, CloseStop \/ Sweep
        PROVE  waited' = waited
    BY <2>5 DEF CloseStop, Sweep, SweepBegin, SweepCancel, SweepClose, SweepEnd,
                WaitExpires, ends
  <2>6. CASE UNCHANGED vars
    BY <1>1, <2>6 DEF vars, ends
  <2> QED
    BY <1>1, <2>1, <2>2, <2>3, <2>4, <2>5, <2>6
       DEF Next, AtRest, WorkerStep, CallerStep, Threads
<1> QED
  BY <1>1, AccountsInvariant, PTL DEF CleanWaitFindsNobody, Spec

------------------------------------------------------------------------------
(* Nobody waits for ever on a finished job                                 *)

\* A step that finishes a job leaves a thread that will close its done channel
\* (transfers.go:105-123).
LEMMA FinishedStep ==
  ASSUME Accounts, FinishedJobReleasesWaiters, [Next]_vars
  PROVE  FinishedJobReleasesWaiters'
<1> USE DistinctAssumption
        DEF FinishedJobReleasesWaiters, Accounts, TypeOK, Locals, Carrying, Threads, Goto,
            Hold, Marking, Terminal, RunSteps, MarkSteps, pool, lock, table, cancels, ends
<1>1. ASSUME NEW t \in Workers \cup Callers, Pump(t)
      PROVE  FinishedJobReleasesWaiters'
  <2>1. ASSUME NEW w \in Workers, Spawn(t, w)
        PROVE  FinishedJobReleasesWaiters'
    BY <2>1 DEF Spawn
  <2>2. CASE PumpCheck(t) \/ PumpReturn(t) \/ PumpTake(t)
    BY <2>2 DEF PumpCheck, PumpReturn, PumpTake
  <2> QED
    BY <1>1, <2>1, <2>2 DEF Pump
<1>2. ASSUME NEW t \in Workers \cup Callers, Mark(t)
      PROVE  FinishedJobReleasesWaiters'
  <2>1. CASE SetStatus(t)
    BY <2>1 DEF SetStatus
  <2>2. CASE CheckDone(t)
    BY <2>2 DEF CheckDone, Marked, AfterMark
  <2>3. CASE CloseDone(t)
    BY <2>3 DEF CloseDone, Marked, AfterMark
  <2> QED
    BY <1>2, <2>1, <2>2, <2>3 DEF Mark
<1>3. ASSUME NEW w \in Workers, Run(w)
      PROVE  FinishedJobReleasesWaiters'
  <2>1. CASE StartUnknown(w) \/ StartKnown(w) \/ OpenFails(w) \/ Open(w) \/ Finish(w)
    BY <2>1 DEF StartUnknown, StartKnown, OpenFails, Open, Finish
  <2>2. CASE BeginRun(w)
    BY <2>2 DEF BeginRun
  <2>3. CASE Release(w) \/ WgDone(w)
    BY <2>3 DEF Release, WgDone
  <2> QED
    BY <1>3, <2>1, <2>2, <2>3 DEF Run
<1>4. ASSUME NEW p \in Callers, Request(p)
      PROVE  FinishedJobReleasesWaiters'
  BY <1>4 DEF Request, Enqueue, Track, Lookup, CleanupBegin, Begin
<1>5. ASSUME NEW p \in Callers, Serve(p)
      PROVE  FinishedJobReleasesWaiters'
  <2>1. CASE Complete(p) \/ CompleteNothing(p)
    BY <2>1 DEF Complete, CompleteNothing
  <2>2. CASE CancelRunning(p) \/ CancelQueued(p) \/ Unqueue(p)
    BY <2>2 DEF CancelRunning, CancelQueued, Unqueue
  <2>3. CASE RetryRefused(p)
    BY <2>3 DEF RetryRefused
  <2>4. CASE RetryAccepted(p)
    BY <2>4 DEF RetryAccepted
  <2>5. CASE RetryAppend(p)
    BY <2>5 DEF RetryAppend, AfterAppend
  <2>6. CASE CleanupEnd(p) \/ \E j \in Jobs : CleanupVisit(p, j)
    BY <2>6 DEF CleanupEnd, CleanupVisit
  <2> QED
    BY <1>5, <2>1, <2>2, <2>3, <2>4, <2>5, <2>6 DEF Serve
<1>6. CASE CloseStop \/ Sweep
  BY <1>6 DEF CloseStop, Sweep, SweepBegin, SweepCancel, SweepClose, SweepEnd, WaitReturns,
              WaitExpires, MainSteps
<1>7. CASE UNCHANGED vars
  BY <1>7 DEF vars
<1> QED
  BY <1>1, <1>2, <1>3, <1>4, <1>5, <1>6, <1>7 DEF Next, AtRest, WorkerStep, CallerStep

\* A finished job's done channel is closed, or somebody is about to close it.
THEOREM FinishedReleases == Spec => []FinishedJobReleasesWaiters
<1>1. Init => FinishedJobReleasesWaiters
  BY DEF Init, FinishedJobReleasesWaiters, Terminal
<1> QED
  BY <1>1, FinishedStep, AccountsInvariant, PTL DEF Spec

------------------------------------------------------------------------------
(* No lost wake-up                                                         *)

\* Whoever frees a slot or queues a job goes on to pump (transfers.go:253, 297, 592).
LEMMA WakeupStep ==
  ASSUME Accounts, NoLostWakeup, [Next]_vars
  PROVE  NoLostWakeup'
<1> USE DistinctAssumption
        DEF NoLostWakeup, Accounts, TypeOK, Threads, Goto, pool
<1>1. ASSUME NEW t \in Workers \cup Callers, Pump(t)
      PROVE  NoLostWakeup'
  <2>1. ASSUME NEW w \in Workers, Spawn(t, w)
        PROVE  NoLostWakeup'
    BY <2>1 DEF Spawn
  <2>2. CASE PumpCheck(t)
    BY <2>2 DEF PumpCheck, Rest
  <2>3. CASE PumpReturn(t)
    BY <2>3 DEF PumpReturn, SlotFree, Rest
  <2>4. CASE PumpTake(t)
    BY <2>4 DEF PumpTake
  <2> QED
    BY <1>1, <2>1, <2>2, <2>3, <2>4 DEF Pump
<1>2. ASSUME NEW t \in Workers \cup Callers, Mark(t)
      PROVE  NoLostWakeup'
  BY <1>2 DEF Mark, SetStatus, CheckDone, CloseDone, Marked, AfterMark
<1>3. ASSUME NEW w \in Workers, Run(w)
      PROVE  NoLostWakeup'
  BY <1>3 DEF Run, StartUnknown, StartKnown, BeginRun, OpenFails, Open, Finish, Release,
              WgDone, AfterRun
<1>4. ASSUME NEW p \in Callers, Request(p)
      PROVE  NoLostWakeup'
  BY <1>4 DEF Request, Enqueue, Track, Lookup, CleanupBegin, Begin
<1>5. ASSUME NEW p \in Callers, Serve(p)
      PROVE  NoLostWakeup'
  <2>1. CASE Unqueue(p)
    BY <2>1 DEF Unqueue, RemoveQueued, RemoveAt
  <2>2. CASE RetryAppend(p)
    BY <2>2 DEF RetryAppend, AfterAppend
  <2>3. CASE ~Unqueue(p) /\ ~RetryAppend(p)
    BY <1>5, <2>3 DEF Serve, Complete, CompleteNothing, CancelRunning, CancelQueued,
                      RetryRefused, RetryAccepted, CleanupVisit, CleanupEnd
  <2> QED
    BY <2>1, <2>2, <2>3
<1>6. CASE CloseStop \/ Sweep
  BY <1>6 DEF CloseStop, Sweep, SweepBegin, SweepCancel, SweepClose, SweepEnd, WaitReturns,
              WaitExpires
<1>7. CASE UNCHANGED vars
  BY <1>7 DEF vars
<1> QED
  BY <1>1, <1>2, <1>3, <1>4, <1>5, <1>6, <1>7 DEF Next, AtRest, WorkerStep, CallerStep

\* A queued job beside a free slot is always about to be noticed.
THEOREM WakeupInvariant == Spec => []NoLostWakeup
<1>1. Init => NoLostWakeup
  BY DEF Init, NoLostWakeup
<1> QED
  BY <1>1, WakeupStep, AccountsInvariant, PTL DEF Spec

------------------------------------------------------------------------------
(* No queued job is forgotten                                              *)

\* Appending keeps what is in a queue and adds the new entry.
LEMMA ToSetAppend ==
  ASSUME NEW S, NEW q \in Seq(S), NEW j \in S
  PROVE  ToSet(Append(q, j)) = ToSet(q) \cup {j}
<1>1. \A k \in 1 .. Len(q) : Append(q, j)[k] = q[k]
  OBVIOUS
<1>2. Append(q, j)[Len(q) + 1] = j
  OBVIOUS
<1> QED
  BY <1>1, <1>2 DEF ToSet

\* A queue without its head holds every other entry still.
LEMMA ToSetTail ==
  ASSUME NEW S, NEW q \in Seq(S), q # <<>>, NEW j \in ToSet(q), j # Head(q)
  PROVE  j \in ToSet(Tail(q))
<1> DEFINE rest == Tail(q)
<1>1. PICK k \in 1 .. Len(q) : q[k] = j
  BY DEF ToSet
<1>2. rest \in Seq(S) /\ k - 1 \in 1 .. Len(rest) /\ rest[k - 1] = j
  BY <1>1, HeadTailProperties
<1> HIDE DEF rest
<1>3. j \in ToSet(rest)
  BY <1>2 DEF ToSet
<1> QED
  BY <1>3 DEF rest

\* pump carries the job it takes out of the queue to a worker.
LEMMA HeldPump ==
  ASSUME Accounts, QueuedJobIsHeld, NEW t \in Workers \cup Callers, Pump(t)
  PROVE  QueuedJobIsHeld'
<1> USE DistinctAssumption
        DEF QueuedJobIsHeld, Carriers, Accounts, TypeOK, Threads, Goto, Hold, pool, table
<1>1. CASE PumpCheck(t) \/ PumpReturn(t)
  BY <1>1 DEF PumpCheck, PumpReturn, Rest
<1>2. CASE PumpTake(t)
  <2>1. \A j \in ToSet(queue) : j # Head(queue) => j \in ToSet(queue')
    <3>1. queue \in Seq(Jobs) /\ queue # <<>> /\ queue' = Tail(queue)
      BY <1>2 DEF PumpTake
    <3> QED
      BY <3>1, ToSetTail
  <2>2. \A j \in Jobs : j = Head(queue) => t \in Carriers(j)'
    BY <1>2 DEF PumpTake
  <2>3. \A j \in Jobs : Carriers(j) \subseteq Carriers(j)'
    BY <1>2 DEF PumpTake
  <2> QED
    BY <1>2, <2>1, <2>2, <2>3 DEF PumpTake
<1>3. ASSUME NEW w \in Workers, Spawn(t, w)
      PROVE  QueuedJobIsHeld'
  <2>1. \A j \in Jobs : t \in Carriers(j) => w \in Carriers(j)'
    BY <1>3 DEF Spawn
  <2>2. \A j \in Jobs : Carriers(j) \ {t} \subseteq Carriers(j)'
    BY <1>3 DEF Spawn
  <2> QED
    BY <1>3, <2>1, <2>2 DEF Spawn
<1> QED
  BY <1>1, <1>2, <1>3 DEF Pump

\* mark ends the queued status of the job it marks and of no other.
LEMMA HeldMark ==
  ASSUME Accounts, QueuedJobIsHeld, NEW t \in Workers \cup Callers, Mark(t)
  PROVE  QueuedJobIsHeld'
<1> USE DistinctAssumption
        DEF QueuedJobIsHeld, Carriers, Accounts, TypeOK, Locals, Threads, Goto, Marking,
            MarkSteps, Terminal, pool, table
<1>1. CASE SetStatus(t)
  BY <1>1 DEF SetStatus
<1>2. CASE CheckDone(t)
  BY <1>2 DEF CheckDone, Marked, AfterMark
<1>3. CASE CloseDone(t)
  BY <1>3 DEF CloseDone, Marked, AfterMark
<1> QED
  BY <1>1, <1>2, <1>3 DEF Mark

\* run makes the job running before it lets go of it.
LEMMA HeldRun ==
  ASSUME Accounts, QueuedJobIsHeld, NEW w \in Workers, Run(w)
  PROVE  QueuedJobIsHeld'
<1> USE DistinctAssumption
        DEF QueuedJobIsHeld, Carriers, Accounts, TypeOK, Locals, Carrying, RunSteps, Threads,
            Goto, Hold, Marking, pool, table
<1>1. CASE StartUnknown(w)
  BY <1>1 DEF StartUnknown
<1>2. CASE StartKnown(w)
  BY <1>2 DEF StartKnown
<1>3. CASE BeginRun(w)
  BY <1>3 DEF BeginRun
<1>4. CASE OpenFails(w) \/ Open(w) \/ Finish(w)
  BY <1>4 DEF OpenFails, Open, Finish
<1>5. CASE Release(w) \/ WgDone(w)
  BY <1>5 DEF Release, WgDone, AfterRun
<1> QED
  BY <1>1, <1>2, <1>3, <1>4, <1>5 DEF Run

\* A job becomes queued in the same step as it enters the queue.
LEMMA HeldRequest ==
  ASSUME Accounts, QueuedJobIsHeld, NEW p \in Callers, Request(p)
  PROVE  QueuedJobIsHeld'
<1> USE DistinctAssumption
        DEF QueuedJobIsHeld, Carriers, Accounts, TypeOK, Threads, Begin, Goto, Hold, pool, table
<1>1. ASSUME NEW j \in Jobs, Enqueue(p, j)
      PROVE  QueuedJobIsHeld'
  BY <1>1, ToSetAppend DEF Enqueue
<1>2. ASSUME NEW j \in Jobs, Track(p, j)
      PROVE  QueuedJobIsHeld'
  BY <1>2 DEF Track
<1>3. ASSUME NEW j \in Jobs, Lookup(p, j, "cancel") \/ Lookup(p, j, "retry")
      PROVE  QueuedJobIsHeld'
  BY <1>3 DEF Lookup
<1>4. CASE CleanupBegin(p)
  BY <1>4 DEF CleanupBegin
<1> QED
  BY <1>1, <1>2, <1>3, <1>4 DEF Request

\* Cancel and Retry hold the job between their two sections.
LEMMA HeldServe ==
  ASSUME Accounts, QueuedJobIsHeld, NEW p \in Callers, Serve(p)
  PROVE  QueuedJobIsHeld'
<1> USE DistinctAssumption
        DEF QueuedJobIsHeld, Carriers, Accounts, TypeOK, Locals, Carrying, Threads, Goto,
            Hold, Marking, pool, table
<1>1. CASE Complete(p) \/ CompleteNothing(p)
  BY <1>1 DEF Complete, CompleteNothing
<1>2. CASE CancelRunning(p) \/ CancelQueued(p)
  BY <1>2 DEF CancelRunning, CancelQueued
<1>3. CASE Unqueue(p)
  <2>1. \A j \in ToSet(queue) : j # job[p] => j \in ToSet(queue')
    BY <1>3, RemoveAtKeeps DEF Unqueue, RemoveQueued
  <2>2. p \in Carriers(job[p])'
    BY <1>3 DEF Unqueue
  <2>3. \A j \in Jobs : Carriers(j) \subseteq Carriers(j)'
    BY <1>3 DEF Unqueue
  <2> QED
    BY <1>3, <2>1, <2>2, <2>3 DEF Unqueue
<1>4. CASE RetryRefused(p)
  BY <1>4 DEF RetryRefused
<1>5. CASE RetryAccepted(p)
  BY <1>5 DEF RetryAccepted
<1>6. CASE RetryAppend(p)
  <2>1. job[p] \in Jobs
    BY <1>6 DEF RetryAppend
  <2>2. ToSet(queue') = ToSet(queue) \cup {job[p]}
    BY <1>6, <2>1, ToSetAppend DEF RetryAppend
  <2>3. \A j \in Jobs : Carriers(j) \ {p} \subseteq Carriers(j)'
    BY <1>6 DEF RetryAppend, AfterAppend
  <2>4. \A j \in Jobs : p \in Carriers(j) => j = job[p]
    OBVIOUS
  <2> QED
    BY <1>6, <2>2, <2>3, <2>4 DEF RetryAppend
<1>7. CASE CleanupEnd(p) \/ \E j \in Jobs : CleanupVisit(p, j)
  BY <1>7 DEF CleanupEnd, CleanupVisit
<1> QED
  BY <1>1, <1>2, <1>3, <1>4, <1>5, <1>6, <1>7 DEF Serve

\* Every step keeps each queued job in the queue or in some hands.
LEMMA HeldStep ==
  ASSUME Accounts, QueuedJobIsHeld, [Next]_vars
  PROVE  QueuedJobIsHeld'
<1>1. ASSUME NEW w \in Workers, WorkerStep(w)
      PROVE  QueuedJobIsHeld'
  BY <1>1, HeldPump, HeldMark, HeldRun DEF WorkerStep
<1>2. ASSUME NEW p \in Callers, CallerStep(p) \/ Request(p)
      PROVE  QueuedJobIsHeld'
  BY <1>2, HeldPump, HeldMark, HeldServe, HeldRequest DEF CallerStep
<1>3. CASE CloseStop \/ Sweep
  BY <1>3, DistinctAssumption
     DEF CloseStop, Sweep, SweepBegin, SweepCancel, SweepClose, SweepEnd, WaitReturns,
         WaitExpires, QueuedJobIsHeld, Carriers, Accounts, TypeOK, Threads, MainSteps, Goto,
         Hold, pool, table
<1>4. CASE UNCHANGED vars
  BY <1>4 DEF vars, pool, table, QueuedJobIsHeld, Carriers
<1> QED
  BY <1>1, <1>2, <1>3, <1>4 DEF Next, AtRest

\* A job shown as queued is in the queue or in the hands of a thread that will
\* move it on.
THEOREM QueuedJobs == Spec => []QueuedJobIsHeld
<1>1. Init => QueuedJobIsHeld
  BY DEF Init, QueuedJobIsHeld
<1> QED
  BY <1>1, HeldStep, AccountsInvariant, PTL DEF Spec
------------------------------------------------------------------------------
(* One visible run                                                         *)

\* Threads that will still bring their job to a run, run it, or mark the end
\* of the run.
Moving(t) == \/ pc[t] \in {"spawn", "start", "begin", "open", "work", "append"}
             \/ t \in Workers /\ pc[t] = "mark"

\* What the user sees of a job while thread t is at a step of Moving.
ShownAt(step) == IF step \in {"open", "work", "mark"} THEN "running" ELSE "queued"

\* Nobody is inside Cancel, and only streams are ended by requests.
NoCancels  == \A p \in Callers : pc[p] \notin {"cancel", "unqueue"}
OwnStreams == \A p \in Callers : pc[p] \in {"stream", "mark"} => Kind[job[p]] = "stream"

\* A job on the move is no stream, shows where it is, is not queued besides,
\* and is in the table once its run looked it up; it is on the move once.
Moved ==
  \A t \in Threads : Moving(t) =>
    /\ Kind[job[t]] # "stream" /\ status[job[t]] = ShownAt(pc[t])
    /\ pc[t] \in {"begin", "open", "work", "mark"} => job[t] \in known
    /\ \A i \in 1 .. Len(queue) : queue[i] # job[t]
OneMover ==
  \A t, u \in Threads : Moving(t) /\ Moving(u) /\ job[t] = job[u] => t = u

\* A queued entry shows as queued and is there once.
Waiting ==
  \A i \in 1 .. Len(queue) :
    /\ status[queue[i]] = "queued" /\ Kind[queue[i]] # "stream"
    /\ \A k \in 1 .. Len(queue) : queue[k] = queue[i] => k = i

OneRun == NoCancels /\ OwnStreams /\ Moved /\ OneMover /\ Waiting

\* The instances without cancellation in which no stream has the name of a job
\* that goes through the queue: CompleteDownload finds a job by its name
\* (transfers.go:680-697) and would end such a job while its worker runs it.
NobodyCancels == "cancel" \notin Requests
StreamsApart ==
  \A i, j \in Jobs : Kind[i] = "stream" /\ Name[i] = Name[j] => Kind[j] = "stream"

\* pump hands a job from the queue to itself and on to a worker.
LEMMA OneRunPump ==
  ASSUME Accounts, OneRun, NEW t \in Workers \cup Callers, Pump(t)
  PROVE  OneRun'
<1> USE DistinctAssumption
        DEF Accounts, TypeOK, Locals, Carrying, Threads, OneRun, NoCancels, OwnStreams,
            Moved, OneMover, Waiting, Moving, ShownAt, Goto, Hold, pool, table
<1>1. CASE PumpCheck(t) \/ PumpReturn(t)
  BY <1>1 DEF PumpCheck, PumpReturn, Rest
<1>2. CASE PumpTake(t)
  <2>1. /\ Head(queue) \in Jobs /\ Head(queue) = queue[1] /\ 1 \in 1 .. Len(queue)
        /\ Len(queue') = Len(queue) - 1
        /\ \A i \in 1 .. Len(queue') : i + 1 \in 1 .. Len(queue) /\ queue'[i] = queue[i + 1]
    BY <1>2, HeadTailProperties DEF PumpTake
  <2>2. /\ pc' = [pc EXCEPT ![t] = "spawn"] /\ job' = [job EXCEPT ![t] = queue[1]]
        /\ UNCHANGED <<known, status>> /\ pc[t] = "take"
    BY <1>2, <2>1 DEF PumpTake
  <2>3. NoCancels' /\ OwnStreams' /\ Waiting'
    BY <2>1, <2>2
  <2>4. Moved'
    BY <2>1, <2>2
  <2>5. OneMover'
    BY <2>1, <2>2
  <2> QED
    BY <2>3, <2>4, <2>5
<1>3. ASSUME NEW w \in Workers, Spawn(t, w)
      PROVE  OneRun'
  <2>1. NoCancels' /\ OwnStreams' /\ Waiting'
    BY <1>3 DEF Spawn
  <2>2. Moved'
    BY <1>3 DEF Spawn
  <2>3. OneMover'
    BY <1>3 DEF Spawn
  <2> QED
    BY <2>1, <2>2, <2>3
<1> QED
  BY <1>1, <1>2, <1>3 DEF Pump

\* mark ends the worker's own run, or a stream, which is nowhere on the move.
LEMMA OneRunMark ==
  ASSUME Accounts, OneRun, NEW t \in Workers \cup Callers, Mark(t)
  PROVE  OneRun'
<1> USE DistinctAssumption
        DEF Accounts, TypeOK, Locals, Carrying, RunSteps, MarkSteps, Threads, OneRun,
            NoCancels, OwnStreams, Moved, OneMover, Waiting, Moving, ShownAt, Goto, pool, table
<1>1. CASE SetStatus(t)
  <2>1. job[t] \in DOMAIN status /\ job[t] \in Jobs \cup {None}
    BY <1>1, KindAssumption DEF SetStatus, WorkerSteps, CallerSteps
  <2>2. \A u \in Threads : Moving(u) /\ u # t => job[u] # job[t]
    BY <1>1 DEF SetStatus
  <2>3. \A i \in 1 .. Len(queue) : queue[i] # job[t]
    BY <1>1 DEF SetStatus
  <2> QED
    BY <1>1, <2>1, <2>2, <2>3 DEF SetStatus
<1>2. CASE CheckDone(t)
  BY <1>2 DEF CheckDone, Marked, AfterMark
<1>3. CASE CloseDone(t)
  BY <1>3 DEF CloseDone, Marked, AfterMark
<1> QED
  BY <1>1, <1>2, <1>3 DEF Mark

\* run makes its own job running, the only thread that moves it.
LEMMA OneRunRun ==
  ASSUME Accounts, OneRun, NEW w \in Workers, Run(w)
  PROVE  OneRun'
<1> USE DistinctAssumption
        DEF Accounts, TypeOK, Locals, Carrying, RunSteps, Threads, OneRun, NoCancels,
            OwnStreams, Moved, OneMover, Waiting, Moving, ShownAt, Goto, Hold, pool, table
<1>1. CASE StartUnknown(w) \/ StartKnown(w)
  BY <1>1 DEF StartUnknown, StartKnown
<1>2. CASE BeginRun(w)
  <2>1. /\ job[w] \in Jobs /\ pc[w] = "begin" /\ pc' = [pc EXCEPT ![w] = "open"]
        /\ status' = [status EXCEPT ![job[w]] = "running"]
        /\ UNCHANGED <<queue, job, known>>
    BY <1>2 DEF BeginRun
  <2> QED
    BY <2>1
<1>3. CASE OpenFails(w) \/ Open(w) \/ Finish(w)
  BY <1>3 DEF OpenFails, Open, Finish
<1>4. CASE Release(w) \/ WgDone(w)
  BY <1>4 DEF Release, WgDone, AfterRun
<1> QED
  BY <1>1, <1>2, <1>3, <1>4 DEF Run

\* A request queues a job that was new.
LEMMA OneRunRequest ==
  ASSUME Accounts, OneRun, NobodyCancels, NEW p \in Callers, Request(p)
  PROVE  OneRun'
<1> USE DistinctAssumption
        DEF Accounts, TypeOK, Locals, Carrying, Threads, OneRun, NoCancels, OwnStreams,
            Moved, OneMover, Waiting, Moving, ShownAt, Begin, Goto, Hold, pool, table
<1>1. ASSUME NEW j \in Jobs, Enqueue(p, j)
      PROVE  OneRun'
  <2>1. /\ Len(queue') = Len(queue) + 1 /\ queue'[Len(queue) + 1] = j
        /\ \A i \in 1 .. Len(queue) : queue'[i] = queue[i]
    BY <1>1, AppendProperties DEF Enqueue
  <2>2. /\ \A u \in Threads : Moving(u) => job[u] # j
        /\ \A i \in 1 .. Len(queue) : queue[i] # j
    BY <1>1 DEF Enqueue
  <2>3. /\ pc[p] = "idle" /\ pc' = [pc EXCEPT ![p] = "pump"] /\ UNCHANGED job
        /\ status' = [status EXCEPT ![j] = "queued"] /\ known' = known \cup {j}
        /\ Kind[j] # "stream"
    BY <1>1 DEF Enqueue
  <2> HIDE DEF Accounts
  <2>4. NoCancels' /\ OwnStreams' /\ OneMover'
    BY <2>3 DEF Accounts
  <2>5. Moved'
    BY <2>1, <2>2, <2>3 DEF Accounts
  <2>6. Waiting'
    <3>1. j \in Jobs /\ Len(queue) \in Nat /\ Waiting /\ status \in [Jobs -> Statuses]
      BY LenProperties DEF Accounts
    <3>2. \A i \in 1 .. Len(queue) : status'[queue'[i]] = "queued" /\ Kind[queue'[i]] # "stream"
      BY <2>1, <2>2, <2>3, <3>1
    <3>3. \A i \in 1 .. Len(queue') : i \in 1 .. Len(queue) \/ i = Len(queue) + 1
      BY <2>1, <3>1
    <3> QED
      BY <2>1, <2>2, <2>3, <3>1, <3>2, <3>3
  <2> QED
    BY <2>4, <2>5, <2>6
<1>2. ASSUME NEW j \in Jobs, Track(p, j)
      PROVE  OneRun'
  BY <1>2 DEF Track
<1>3. ASSUME NEW j \in Jobs, Lookup(p, j, "cancel") \/ Lookup(p, j, "retry")
      PROVE  OneRun'
  BY <1>3 DEF Lookup, NobodyCancels
<1>4. CASE CleanupBegin(p)
  BY <1>4 DEF CleanupBegin
<1> QED
  BY <1>1, <1>2, <1>3, <1>4 DEF Request

\* Retry takes up a job that nobody moves, and Cleanup forgets none that
\* somebody does.
LEMMA OneRunServe ==
  ASSUME Accounts, OneRun, StreamsApart, NEW p \in Callers, Serve(p)
  PROVE  OneRun'
<1> USE DistinctAssumption
        DEF Accounts, TypeOK, Locals, Carrying, Threads, OneRun, NoCancels, OwnStreams,
            Moved, OneMover, Waiting, Moving, ShownAt, Goto, Hold, Marking, pool, table
<1>1. CASE Complete(p)
  <2>1. PICK j \in Matches(Name[job[p]]) : job' = [job EXCEPT ![p] = j]
    BY <1>1 DEF Complete
  <2>2. Kind[job[p]] = "stream" /\ job[p] \in Jobs
    BY <1>1 DEF Complete
  <2>3. j \in Jobs /\ Name[job[p]] = Name[j]
    BY <2>1 DEF Matches
  <2>4. Kind[j] = "stream"
    BY <2>2, <2>3 DEF StreamsApart
  <2>5. pc' = [pc EXCEPT ![p] = "mark"] /\ UNCHANGED <<queue, status, known>>
    BY <1>1 DEF Complete
  <2> QED
    BY <2>1, <2>3, <2>4, <2>5
<1>2. CASE CompleteNothing(p) \/ RetryRefused(p)
  BY <1>2 DEF CompleteNothing, RetryRefused
<1>3. CASE CancelRunning(p) \/ CancelQueued(p) \/ Unqueue(p)
  BY <1>3 DEF CancelRunning, CancelQueued, Unqueue
<1>4. CASE RetryAccepted(p)
  <2>1. /\ job[p] \in Jobs /\ pc[p] = "retry" /\ Kind[job[p]] # "stream"
        /\ pc' = [pc EXCEPT ![p] = "append"]
        /\ status' = [status EXCEPT ![job[p]] = "queued"]
        /\ UNCHANGED <<queue, job, known>>
    BY <1>4 DEF RetryAccepted, Retryable
  <2>2. /\ \A u \in Threads : Moving(u) => job[u] # job[p]
        /\ \A i \in 1 .. Len(queue) : queue[i] # job[p]
    BY <1>4 DEF RetryAccepted, Retryable
  <2> QED
    BY <2>1, <2>2
<1>5. CASE RetryAppend(p)
  <2>1. /\ job[p] \in Jobs /\ pc[p] = "append" /\ pc' = [pc EXCEPT ![p] = "pump"]
        /\ job' = [job EXCEPT ![p] = None] /\ UNCHANGED <<status, known>>
    BY <1>5 DEF RetryAppend, AfterAppend
  <2>2. /\ Len(queue') = Len(queue) + 1 /\ queue'[Len(queue) + 1] = job[p]
        /\ \A i \in 1 .. Len(queue) : queue'[i] = queue[i]
    BY <1>5, <2>1, AppendProperties DEF RetryAppend
  <2>3. NoCancels' /\ OwnStreams' /\ OneMover'
    BY <2>1
  <2>4. Moved'
    BY <2>1, <2>2
  <2>5. Waiting'
    BY <2>1, <2>2
  <2> QED
    BY <2>3, <2>4, <2>5
<1>6. ASSUME NEW j \in Jobs, CleanupVisit(p, j)
      PROVE  OneRun'
  BY <1>6 DEF CleanupVisit, Removable, Terminal
<1>7. CASE CleanupEnd(p)
  BY <1>7 DEF CleanupEnd
<1> QED
  BY <1>1, <1>2, <1>3, <1>4, <1>5, <1>6, <1>7 DEF Serve

\* Every step keeps each job's run the only one.
LEMMA OneRunStep ==
  ASSUME Accounts, OneRun, NobodyCancels, StreamsApart, [Next]_vars
  PROVE  OneRun'
<1>1. ASSUME NEW w \in Workers, WorkerStep(w)
      PROVE  OneRun'
  BY <1>1, OneRunPump, OneRunMark, OneRunRun DEF WorkerStep
<1>2. ASSUME NEW p \in Callers, CallerStep(p) \/ Request(p)
      PROVE  OneRun'
  BY <1>2, OneRunPump, OneRunMark, OneRunServe, OneRunRequest DEF CallerStep
<1>3. CASE CloseStop \/ Sweep
  BY <1>3, DistinctAssumption
     DEF CloseStop, Sweep, SweepBegin, SweepCancel, SweepClose, SweepEnd, WaitReturns,
         WaitExpires, Accounts, TypeOK, Threads, MainSteps, OneRun, NoCancels, OwnStreams,
         Moved, OneMover, Waiting, Moving, ShownAt, Goto, Hold, pool, table
<1>4. CASE UNCHANGED vars
  BY <1>4 DEF vars, pool, table, OneRun, NoCancels, OwnStreams, Moved, OneMover, Waiting,
              Moving
<1> QED
  BY <1>1, <1>2, <1>3, <1>4 DEF Next, AtRest

\* As long as nobody cancels, a job that a worker runs shows as running, is in
\* the table, and has no other run, through every interleaving of retries,
\* cleanups, streams and the shutdown.
THEOREM VisibleRuns ==
  ASSUME NobodyCancels, StreamsApart
  PROVE  Spec => []OneVisibleRun
<1>1. Init => OneRun
  BY DistinctAssumption
     DEF Init, Threads, OneRun, NoCancels, OwnStreams, Moved, OneMover, Waiting, Moving
<1>2. Accounts /\ OneRun /\ [Next]_vars => OneRun'
  BY OneRunStep
<1>3. Accounts /\ OneRun => OneVisibleRun
  BY DEF Accounts, TypeOK, Threads, OneRun, Moved, OneMover, Moving, ShownAt, OneVisibleRun,
         Active
<1> QED
  BY <1>1, <1>2, <1>3, AccountsInvariant, PTL DEF Spec

------------------------------------------------------------------------------
(* The queue implements the worker pool                                    *)

\* A step that starts no run and ends none, but may queue a job.
LEMMA PoolSubmits ==
  ASSUME Accounts, Accounts', NEW j \in Jobs, queue' = Append(queue, j), slots' = slots
  PROVE  [Pool!Next]_(Pool!vars)
BY DEF Accounts, SlotsAreOwned, Pool!Next, Pool!Submit, Pool!vars

\* A step that leaves both the queue and the slots alone.
LEMMA PoolStutters ==
  ASSUME Accounts, Accounts', UNCHANGED <<queue, slots>>
  PROVE  [Pool!Next]_(Pool!vars)
BY DEF Accounts, SlotsAreOwned, Pool!vars

\* Removing a queued entry withdraws a submission, or finds none.
LEMMA PoolWithdraws ==
  ASSUME Accounts, Accounts', NEW p \in Callers, Unqueue(p)
  PROVE  [Pool!Next]_(Pool!vars)
<1>1. slots' = slots /\ RemoveQueued(job[p]) /\ job[p] \in Jobs
  BY DEF Unqueue, Accounts, Locals, Carrying, Threads
<1>2. CASE UNCHANGED queue
  BY <1>1, <1>2, PoolStutters
<1>3. CASE ~UNCHANGED queue
  BY <1>1, <1>3
     DEF RemoveQueued, RemoveAt, Accounts, SlotsAreOwned, Pool!Next, Pool!Withdraw,
         Pool!RemoveAt
<1> QED
  BY <1>2, <1>3

\* pump admits the oldest job when it takes a slot for it.
LEMMA PoolPump ==
  ASSUME Accounts, Accounts', NEW t \in Workers \cup Callers, Pump(t)
  PROVE  [Pool!Next]_(Pool!vars)
<1>1. CASE PumpCheck(t) \/ PumpReturn(t)
  <2>1. UNCHANGED <<queue, slots>>
    BY <1>1 DEF PumpCheck, PumpReturn, pool
  <2> QED
    BY <2>1, PoolStutters
<1>2. CASE PumpTake(t)
  BY <1>2 DEF PumpTake, SlotFree, Accounts, SlotsAreOwned, Pool!Next, Pool!Admit
<1>3. ASSUME NEW w \in Workers, Spawn(t, w)
      PROVE  UNCHANGED <<queue, slots>>
  BY <1>3 DEF Spawn
<1> QED
  BY <1>1, <1>2, <1>3, PoolStutters DEF Pump

\* A run leaves the pool when it releases its slot.
LEMMA PoolRun ==
  ASSUME Accounts, Accounts', NEW w \in Workers, Mark(w) \/ Run(w)
  PROVE  [Pool!Next]_(Pool!vars)
<1>1. CASE Release(w)
  <2>1. slots' = slots - 1 /\ slots > 0 /\ queue' = queue
    BY <1>1, OwnedSlot DEF Release, Running, Accounts, TypeOK, RunSteps
  <2> QED
    BY <2>1 DEF Accounts, SlotsAreOwned, Pool!Next, Pool!Leave
<1>2. CASE ~Release(w)
  <2>1. UNCHANGED <<queue, slots>>
    BY <1>2 DEF Mark, SetStatus, CheckDone, CloseDone, Run, StartUnknown, StartKnown, BeginRun,
                OpenFails, Open, Finish, WgDone, pool
  <2> QED
    BY <2>1, PoolStutters
<1> QED
  BY <1>1, <1>2

\* Requests submit and withdraw; they start and end no run.
LEMMA PoolCaller ==
  ASSUME Accounts, Accounts', NEW p \in Callers, Mark(p) \/ Serve(p) \/ Request(p)
  PROVE  [Pool!Next]_(Pool!vars)
<1>1. ASSUME NEW j \in Jobs, Enqueue(p, j)
      PROVE  [Pool!Next]_(Pool!vars)
  BY <1>1, PoolSubmits DEF Enqueue
<1>2. CASE RetryAppend(p)
  <2>1. job[p] \in Jobs /\ queue' = Append(queue, job[p]) /\ slots' = slots
    BY <1>2 DEF RetryAppend, Accounts, Locals, Carrying, Threads
  <2> QED
    BY <2>1, PoolSubmits
<1>3. CASE Unqueue(p)
  BY <1>3, PoolWithdraws
<1>4. CASE Mark(p)
  <2>1. UNCHANGED <<queue, slots>>
    BY <1>4 DEF Mark, SetStatus, CheckDone, CloseDone, pool
  <2> QED
    BY <2>1, PoolStutters
<1>5. ASSUME NEW j \in Jobs,
             Track(p, j) \/ Lookup(p, j, "cancel") \/ Lookup(p, j, "retry") \/ CleanupVisit(p, j)
      PROVE  UNCHANGED <<queue, slots>>
  BY <1>5 DEF Track, Lookup, CleanupVisit, pool
<1>6. CASE Complete(p) \/ CompleteNothing(p) \/ CancelRunning(p) \/ CancelQueued(p)
             \/ RetryRefused(p) \/ RetryAccepted(p) \/ CleanupBegin(p) \/ CleanupEnd(p)
  <2>1. UNCHANGED <<queue, slots>>
    BY <1>6 DEF Complete, CompleteNothing, CancelRunning, CancelQueued, RetryRefused,
                RetryAccepted, CleanupBegin, CleanupEnd, pool
  <2> QED
    BY <2>1, PoolStutters
<1> QED
  BY <1>1, <1>2, <1>3, <1>4, <1>5, <1>6, PoolStutters DEF Serve, Request

\* Every step of the transfer queue is a step of the worker pool or changes
\* nothing the pool knows of.
LEMMA PoolStep ==
  ASSUME Accounts, Accounts', [Next]_vars
  PROVE  [Pool!Next]_(Pool!vars)
<1>1. ASSUME NEW w \in Workers, WorkerStep(w)
      PROVE  [Pool!Next]_(Pool!vars)
  BY <1>1, PoolPump, PoolRun DEF WorkerStep
<1>2. ASSUME NEW p \in Callers, CallerStep(p) \/ Request(p)
      PROVE  [Pool!Next]_(Pool!vars)
  BY <1>2, PoolPump, PoolCaller DEF CallerStep
<1>3. CASE CloseStop \/ Sweep
  <2>1. UNCHANGED <<queue, slots>>
    BY <1>3 DEF CloseStop, Sweep, SweepBegin, SweepCancel, SweepClose, SweepEnd, WaitReturns,
                WaitExpires, pool
  <2> QED
    BY <2>1, PoolStutters
<1>4. CASE UNCHANGED vars
  BY <1>4, PoolStutters DEF vars, pool
<1> QED
  BY <1>1, <1>2, <1>3, <1>4 DEF Next, AtRest

\* The transfer queue, with its locks, slots and goroutines, admits jobs as the
\* worker pool does: oldest first and never more than Limit at a time.
THEOREM PoolImplemented == Spec => ImplementsPool
<1>1. Init => Pool!Init
  <2> SUFFICES ASSUME Init PROVE Pool!Init
    OBVIOUS
  <2>1. SlotsAreOwned
    BY AccountsInit DEF Accounts
  <2> QED
    BY <2>1 DEF Init, SlotsAreOwned, Pool!Init
<1>2. Accounts /\ Accounts' /\ [Next]_vars => [Pool!Next]_(Pool!vars)
  BY PoolStep
<1> QED
  BY <1>1, <1>2, AccountsInvariant, PTL DEF Spec, ImplementsPool, Pool!Spec
==============================================================================
