----------------------------------- MODULE Feed -----------------------------------
(***************************************************************************)
(* How the outcome of a transfer reaches the web interface.                *)
(*                                                                         *)
(* A run of a job has two goroutines that report it: its worker, with the  *)
(* first and the last update, and the ticker of progressFunc.  Each takes  *)
(* a snapshot and only then gives it to the bus (transfers.go, emit), so   *)
(* the updates of a job may pass each other.  The bus drops an update when *)
(* the buffer of a subscriber is full (events.go, Emit).  The server has   *)
(* one subscriber, fanout, which writes each event to the web sockets that *)
(* are registered at that moment (server.go).  A page redeems the code of  *)
(* its link for the token, fetches the list of transfers once, opens the   *)
(* socket and from then on only applies frames (store.tsx).                *)
(*                                                                         *)
(* Left out: the queue and cancellation (TransferQueue), the engine's      *)
(* shutdown, and the events that are no updates of a transfer.             *)
(***************************************************************************)
EXTENDS Naturals, Sequences, FiniteSets

CONSTANTS Jobs, Windows, Codes,
          Slow,           \* the pages that may stop to read their connection
          BusBuffer,      \* 128 in the code
          SocketBuffer,   \* frames the connection holds before a write blocks
          None

ASSUME FeedAssumption ==
  Slow \subseteq Windows /\ BusBuffer \in Nat \ {0} /\ SocketBuffer \in Nat \ {0}

Outcomes == {"completed", "failed"}
Status == {"queued", "running"} \cup Outcomes

\* The goroutines that emit updates; the request is the one that retried the job.
Emitters == Jobs \X {"worker", "ticker", "request"}
Update == [job : Jobs, status : Status]

ASSUME NoneAssumption == None \notin Status \cup [update : Update, to : SUBSET Windows]

VARIABLES
  status,      \* Job.Status
  done,        \* Job.done is closed
  retried,     \* the jobs whose run is not their first
  pc,          \* where each emitter is
  hand,        \* the snapshot an emitter has taken and not yet given to the bus
  buffer,      \* the channel of the server's subscription
  fan,         \* what fanout is writing, and to which clients still
  clients,     \* Server.wsClients, by the page at the other end
  frames,      \* what each connection has accepted and the page not yet read
  live,        \* authState.codes
  token,       \* the pages whose sessionStorage has the token
  page,        \* where each page is
  link,        \* the code in a page's address, until it is replaced
  shown,       \* the transfers a page shows
  offered,     \* history: the last update of a job given to the bus
  accepted,    \* history: the last one that found room in the buffer
  missed       \* history: a page was passed over by an update, and none came since

jobVars == <<status, done, retried, pc, hand>>
busVars == <<buffer, offered, accepted>>
sendVars == <<fan, clients, frames>>
loginVars == <<live, token, link>>
pageVars == <<page, shown, missed>>
vars == <<jobVars, busVars, sendVars, loginVars, pageVars>>

Ended(j) == status[j] \in Outcomes
Loaded == {"opening", "open", "closed", "gone"}   \* the list was fetched
Nothing == [j \in Jobs |-> None]

\* No goroutine has run, and nothing is on its way.
Idle ==
  /\ retried \in SUBSET Jobs
  /\ status = [j \in Jobs |-> "queued"] /\ done = [j \in Jobs |-> j \in retried]
  /\ pc = [e \in Emitters |-> IF e[2] = "request" /\ e[1] \in retried THEN "last" ELSE "idle"]
  /\ hand = [e \in Emitters |-> None]
  /\ buffer = <<>> /\ fan = None
  /\ frames = [w \in Windows |-> <<>>]
  /\ offered = Nothing /\ accepted = Nothing
  /\ missed = [w \in Windows |-> {}]

Init ==
  /\ Idle
  /\ clients = {} /\ live = Codes /\ token = {}
  /\ page = [w \in Windows |-> "check"] /\ link \in [Windows -> Codes]
  /\ shown = [w \in Windows |-> Nothing]

--------------------------------------------------------------------------
(***************************************************************************)
(* One run of each job.  A job that was retried begins like any other,     *)
(* except that its channel is closed and stays so (Retry), and that the    *)
(* request which retried it still has its update to emit.                  *)
(***************************************************************************)

Worker(j) == <<j, "worker">>
Ticker(j) == <<j, "ticker">>

At(e, here) == pc[e] = here /\ hand[e] = None
Goto(e, there) == pc' = [pc EXCEPT ![e] = there]
OnlyJobs == UNCHANGED <<busVars, sendVars, loginVars, pageVars>>

Run(j) ==
  /\ At(Worker(j), "idle")
  /\ status' = [status EXCEPT ![j] = "running"]
  /\ Goto(Worker(j), "first")
  /\ UNCHANGED <<done, retried, hand>> /\ OnlyJobs

\* The client was found: progressFunc starts the ticker.
ProgressFunc(j) ==
  /\ At(Worker(j), "client")
  /\ pc' = [pc EXCEPT ![Worker(j)] = "copying", ![Ticker(j)] = "on"]
  /\ UNCHANGED <<status, done, retried, hand>> /\ OnlyJobs

\* mark: the status is set and the channel closed, not in one step.
SetStatus(j, outcome) ==
  /\ \/ At(Worker(j), "client") /\ outcome = "failed"
     \/ At(Worker(j), "copying")
  /\ status' = [status EXCEPT ![j] = outcome]
  /\ Goto(Worker(j), "closing")
  /\ UNCHANGED <<done, retried, hand>> /\ OnlyJobs

CloseDone(j) ==
  /\ At(Worker(j), "closing")
  /\ done' = [done EXCEPT ![j] = TRUE]
  /\ Goto(Worker(j), "last")
  /\ UNCHANGED <<status, retried, hand>> /\ OnlyJobs

Snapshot(e) ==
  /\ pc[e] \in {"first", "last"} /\ hand[e] = None
  /\ hand' = [hand EXCEPT ![e] = status[e[1]]]
  /\ UNCHANGED <<status, done, retried, pc>> /\ OnlyJobs

Tick(j) ==
  /\ At(Ticker(j), "on")
  /\ hand' = [hand EXCEPT ![Ticker(j)] = status[j]]
  /\ UNCHANGED <<status, done, retried, pc>> /\ OnlyJobs

\* A plausible bug: the ticker just ends when the job does.
LastTickSilent(j) ==
  /\ At(Ticker(j), "on") /\ done[j]
  /\ Goto(Ticker(j), "over")
  /\ UNCHANGED <<status, done, retried, hand>> /\ OnlyJobs

LastTick(j) ==
  /\ At(Ticker(j), "on") /\ done[j]
  /\ Goto(Ticker(j), "last")
  /\ UNCHANGED <<status, done, retried, hand>> /\ OnlyJobs

AfterEmit == [first |-> "client", on |-> "on", last |-> "over"]

\* Bus.Emit: a full buffer loses the update.
Emit(e) ==
  LET u == [job |-> e[1], status |-> hand[e]]
      room == Len(buffer) < BusBuffer
  IN  /\ hand[e] # None
      /\ hand' = [hand EXCEPT ![e] = None]
      /\ Goto(e, AfterEmit[pc[e]])
      /\ offered' = [offered EXCEPT ![u.job] = u.status]
      /\ buffer' = IF room THEN Append(buffer, u) ELSE buffer
      /\ accepted' = IF room THEN [accepted EXCEPT ![u.job] = u.status] ELSE accepted
      /\ UNCHANGED <<status, done, retried, sendVars, loginVars, pageVars>>

--------------------------------------------------------------------------
(* fanout *)

PassOver(ws, j) == missed' = [w \in Windows |->
                     IF w \in ws /\ page[w] \in Loaded THEN missed[w] \cup {j} ELSE missed[w]]

Writing(u, ws) == fan' = IF ws = {} THEN None ELSE [update |-> u, to |-> ws]

\* The clients are copied under the lock and written to without it.
TakeEvent ==
  /\ fan = None /\ buffer # <<>>
  /\ Writing(Head(buffer), clients)
  /\ buffer' = Tail(buffer)
  /\ PassOver(Windows \ clients, Head(buffer).job)
  /\ UNCHANGED <<jobVars, offered, accepted, clients, frames, loginVars, page, shown>>

\* A plausible bug: each event is written by a goroutine of its own.
WriteAnyOrder(w) ==
  /\ fan # None /\ w \in fan.to /\ Len(frames[w]) < SocketBuffer
  /\ \E s \in {Append(frames[w], fan.update), <<fan.update>> \o frames[w]} :
       frames' = [frames EXCEPT ![w] = s]
  /\ missed' = [missed EXCEPT ![w] = @ \ {fan.update.job}]
  /\ Writing(fan.update, fan.to \ {w})
  /\ UNCHANGED <<jobVars, busVars, clients, loginVars, page, shown>>

Write(w) ==
  /\ fan # None /\ w \in fan.to /\ Len(frames[w]) < SocketBuffer
  /\ frames' = [frames EXCEPT ![w] = Append(@, fan.update)]
  /\ missed' = [missed EXCEPT ![w] = @ \ {fan.update.job}]
  /\ Writing(fan.update, fan.to \ {w})
  /\ UNCHANGED <<jobVars, busVars, clients, loginVars, page, shown>>

\* A plausible bug: a write has no deadline.
WriteWaits(w) ==
  /\ fan # None /\ w \in fan.to /\ Len(frames[w]) = SocketBuffer
  /\ UNCHANGED vars

\* The deadline of ten seconds passes: the client is forgotten and closed.
WriteFails(w) ==
  /\ fan # None /\ w \in fan.to /\ Len(frames[w]) = SocketBuffer
  /\ Writing(fan.update, fan.to \ {w})
  /\ clients' = clients \ {w}
  /\ PassOver({w}, fan.update.job)
  /\ UNCHANGED <<jobVars, busVars, frames, loginVars, page, shown>>

--------------------------------------------------------------------------
(* A page *)

Turn(w, to) == page' = [page EXCEPT ![w] = to]
OnlyPages == UNCHANGED <<jobVars, busVars>>

\* The server looks the code up and consumes it under one lock.
RedeemBootstrapCode(w) ==
  /\ page[w] = "check" /\ w \notin token /\ link[w] \in live
  /\ live' = live \ {link[w]}
  /\ Turn(w, "redeemed")
  /\ OnlyPages /\ UNCHANGED <<sendVars, token, link, shown, missed>>

\* The answer arrives: the token is stored and the address replaced.
DoBootstrap(w) ==
  /\ \/ page[w] = "redeemed"
     \/ page[w] = "check" /\ w \in token
  /\ token' = token \cup {w}
  /\ Turn(w, "load")
  /\ OnlyPages /\ UNCHANGED <<sendVars, live, link, shown, missed>>

\* 401: the page says so, and asks again with the same code every three seconds.
Unauthorized(w) ==
  /\ page[w] = "check" /\ w \notin token /\ link[w] \notin live
  /\ Turn(w, "unauthorized")
  /\ OnlyPages /\ UNCHANGED <<sendVars, loginVars, shown, missed>>

Expire(c) ==
  /\ c \in live
  /\ live' = live \ {c}
  /\ OnlyPages /\ UNCHANGED <<sendVars, token, link, pageVars>>

\* The snapshots handleTransfers answers with; nothing else changes what the page
\* shows before they arrive and the socket is opened.
List(w) ==
  /\ page[w] = "load"
  /\ shown' = [shown EXCEPT ![w] = status]
  /\ missed' = [missed EXCEPT ![w] = {}]
  /\ Turn(w, "opening")
  /\ OnlyPages /\ UNCHANGED <<sendVars, loginVars>>

\* refreshTransfers swallows the error of its request.
ListFails(w) ==
  /\ page[w] = "load"
  /\ missed' = [missed EXCEPT ![w] = Jobs]
  /\ Turn(w, "opening")
  /\ OnlyPages /\ UNCHANGED <<sendVars, loginVars, shown>>

\* handleEvents: the handshake is over and the connection registered.
Register(w) ==
  /\ page[w] = "opening"
  /\ clients' = clients \cup {w}
  /\ Turn(w, "open")
  /\ OnlyPages /\ UNCHANGED <<fan, frames, loginVars, shown, missed>>

OnMessage(w) ==
  /\ page[w] = "open" /\ frames[w] # <<>>
  /\ LET u == Head(frames[w]) IN shown' = [shown EXCEPT ![w][u.job] = u.status]
  /\ frames' = [frames EXCEPT ![w] = Tail(@)]
  /\ OnlyPages /\ UNCHANGED <<fan, clients, loginVars, page, missed>>

\* The connection breaks, and with it some of what it still held.
Cut(w) ==
  /\ w \in clients
  /\ clients' = clients \ {w}
  /\ \E k \in 0..Len(frames[w]) :
       /\ frames' = [frames EXCEPT ![w] = SubSeq(@, 1, k)]
       /\ missed' = [missed EXCEPT ![w] = @ \cup {frames[w][i].job : i \in k + 1..Len(frames[w])}
                        \cup (IF fan # None /\ w \in fan.to THEN {fan.update.job} ELSE {})]
  /\ IF fan = None THEN fan' = None ELSE Writing(fan.update, fan.to \ {w})
  /\ OnlyPages /\ UNCHANGED <<loginVars, page, shown>>

OnClose(w) ==
  /\ page[w] = "open" /\ w \notin clients /\ frames[w] = <<>>
  /\ Turn(w, "closed")
  /\ OnlyPages /\ UNCHANGED <<sendVars, loginVars, shown, missed>>

\* Three seconds later: again, unless the page is hidden just then.
Reconnect(w) ==
  /\ page[w] = "closed"
  /\ page' \in {[page EXCEPT ![w] = "opening"], [page EXCEPT ![w] = "gone"]}
  /\ OnlyPages /\ UNCHANGED <<sendVars, loginVars, shown, missed>>

\* The page is loaded again; sessionStorage stays.
Reload(w) ==
  /\ page[w] # "check"
  /\ Turn(w, "check")
  /\ clients' = clients \ {w}
  /\ frames' = [frames EXCEPT ![w] = <<>>]
  /\ IF fan = None THEN fan' = None ELSE Writing(fan.update, fan.to \ {w})
  /\ shown' = [shown EXCEPT ![w] = Nothing]
  /\ missed' = [missed EXCEPT ![w] = {}]
  /\ OnlyPages /\ UNCHANGED loginVars

--------------------------------------------------------------------------
JobNext ==
  \/ \E j \in Jobs :
       \/ Run(j) \/ ProgressFunc(j) \/ CloseDone(j)
       \/ Tick(j) \/ LastTick(j)
       \/ \E outcome \in Outcomes : SetStatus(j, outcome)
  \/ \E e \in Emitters : Snapshot(e) \/ Emit(e)

SendNext == TakeEvent \/ \E w \in Windows : Write(w) \/ WriteFails(w)

PageNext ==
  \/ \E w \in Windows :
       \/ RedeemBootstrapCode(w) \/ DoBootstrap(w) \/ Unauthorized(w)
       \/ List(w) \/ ListFails(w) \/ Register(w)
       \/ OnMessage(w) \/ Cut(w) \/ OnClose(w) \/ Reconnect(w) \/ Reload(w)
  \/ \E c \in Codes : Expire(c)

Next == JobNext \/ SendNext \/ PageNext

\* Goroutines that can go on do, an operation on a connection ends, and a page
\* that is not slow runs its callbacks.  A done job is noticed in a select that a tick may win
\* again and again, but only twice a second.
Fairness ==
  /\ \A j \in Jobs :
       /\ WF_vars(Run(j)) /\ WF_vars(ProgressFunc(j)) /\ WF_vars(CloseDone(j))
       /\ WF_vars(\E outcome \in Outcomes : SetStatus(j, outcome))
       /\ SF_vars(LastTick(j))
  /\ \A e \in Emitters : WF_vars(Snapshot(e)) /\ WF_vars(Emit(e))
  /\ WF_vars(TakeEvent)
  /\ \A w \in Windows : WF_vars(Write(w) \/ WriteFails(w))
  /\ \A w \in Windows \ Slow : WF_vars(OnMessage(w))

Spec == Init /\ [][Next]_vars /\ Fairness

--------------------------------------------------------------------------
(* Every variable keeps to its type, and no queue passes its bound. *)
TypeOK ==
  /\ status \in [Jobs -> Status] /\ done \in [Jobs -> BOOLEAN]
  /\ retried \subseteq Jobs
  /\ pc \in [Emitters -> {"idle", "first", "client", "copying", "closing", "on", "last", "over"}]
  /\ hand \in [Emitters -> Status \cup {None}]
  /\ buffer \in Seq(Update) /\ Len(buffer) <= BusBuffer
  /\ fan = None \/ fan \in [update : Update, to : SUBSET Windows]
  /\ clients \subseteq Windows
  /\ frames \in [Windows -> Seq(Update)]
  /\ \A w \in Windows : Len(frames[w]) <= SocketBuffer
  /\ live \subseteq Codes /\ token \subseteq Windows /\ link \in [Windows -> Codes]
  /\ page \in [Windows -> {"check", "redeemed", "unauthorized", "load"} \cup Loaded]
  /\ shown \in [Windows -> [Jobs -> Status \cup {None}]]
  /\ \A f \in {offered, accepted} : f \in [Jobs -> Status \cup {None}]
  /\ missed \in [Windows -> SUBSET Jobs]

Over(e) == pc[e] \in {"idle", "over"}
Quiet(j) == \A e \in Emitters : e[1] = j => Over(e)

(* When a job that was never retried has ended and its goroutines with it, *)
(* the last update the bus was given is the outcome: a tick that took its  *)
(* snapshot before the end and was overtaken by the worker's last update   *)
(* is followed by the ticker's own last one.                               *)
LastUpdateIsTrue ==
  \A j \in Jobs : j \notin retried /\ Ended(j) /\ Quiet(j) => offered[j] = status[j]

AtRest(w, j) ==
  /\ Quiet(j) /\ page[w] = "open" /\ frames[w] = <<>>
  /\ \A i \in 1..Len(buffer) : buffer[i].job # j
  /\ fan = None \/ fan.update.job # j \/ w \notin fan.to

\* The outcome was the last update given to the bus, which had no room for it.
Dropped(j) == offered[j] = status[j] /\ accepted[j] # status[j]

\* The job was retried: its closed channel ends the ticker at once, and the request that
\* retried it holds an update of its own, so one taken before the outcome came after it.
Overtaken(j) == j \in retried /\ offered[j] # status[j] /\ accepted[j] # status[j]

\* The three ways a page is left without the outcome.
Lost(w, j) == Dropped(j) \/ Overtaken(j) \/ j \in missed[w]

(* Once everything on its way has arrived, an open page shows the outcome  *)
(* of every job, whatever overtook what before, unless the bus dropped it, *)
(* an older update of a retried job came after it, or it passed while the  *)
(* page was not registered.                                                *)
OutcomeIsShown ==
  \A w \in Windows, j \in Jobs :
    AtRest(w, j) /\ Ended(j) /\ ~ Lost(w, j) => shown[w][j] = status[j]

(* The outcome of a job reaches every page that reads its connection and   *)
(* stays open, or is lost in one of the three known ways: another page     *)
(* that stops to read, or a flood of ticks, cannot hold it up for ever.    *)
OutcomeReachesPages ==
  \A w \in Windows \ Slow, j \in Jobs :
    (Ended(j) /\ page[w] = "open" /\ w \in clients)
      ~> (\/ shown[w][j] = status[j]
          \/ AtRest(w, j) /\ Lost(w, j)
          \/ ~ Ended(j) \/ page[w] # "open" \/ w \notin clients)
=================================================================================
