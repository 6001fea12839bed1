------------------------------- MODULE WorkerPool -------------------------------
(***************************************************************************)
(* What the transfer queue promises, without its threads, locks and        *)
(* channels: jobs are admitted in the order in which they were submitted,  *)
(* at most Limit of them at a time, and one that waits may be withdrawn.   *)
(* TransferQueue implements it.                                            *)
(***************************************************************************)
EXTENDS Naturals, SequencesExt

CONSTANTS Jobs, Limit

VARIABLES waiting,  \* the jobs submitted and not yet admitted, oldest first
          busy      \* how many admitted jobs have not left

vars == <<waiting, busy>>

Init == waiting = <<>> /\ busy = 0

\* A job may be submitted again, also while it waits or runs.
Submit(j) == waiting' = Append(waiting, j) /\ UNCHANGED busy

\* The oldest waiting submission of a job is withdrawn.
Withdraw(j) ==
  /\ \E i \in DOMAIN waiting :
       /\ waiting[i] = j /\ \A k \in 1 .. i-1 : waiting[k] # j
       /\ waiting' = RemoveAt(waiting, i)
  /\ UNCHANGED busy

Admit ==
  /\ waiting # <<>> /\ busy < Limit
  /\ waiting' = Tail(waiting) /\ busy' = busy + 1

Leave == busy > 0 /\ busy' = busy - 1 /\ UNCHANGED waiting

Next == (\E j \in Jobs : Submit(j) \/ Withdraw(j)) \/ Admit \/ Leave

Spec == Init /\ [][Next]_vars
==============================================================================
