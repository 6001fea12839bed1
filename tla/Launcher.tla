--------------------------------- MODULE Launcher ---------------------------------
(***************************************************************************)
(* The terminal launcher (internal/tui) on top of the engine it starts and *)
(* stops (internal/app, the life cycle of internal/server).  One run loop  *)
(* handles the user's events on the top screen of a stack; connect and     *)
(* test attempts run in goroutines of their own and publish their outcome  *)
(* on the screen that asked, which may no longer be there.  Beside the     *)
(* launcher another process may run an engine in the same data directory.  *)
(*                                                                         *)
(* A key and the mouse click that does the same are one action.  Drawing   *)
(* is left out, except that it looks for an engine of another process.     *)
(***************************************************************************)
EXTENDS Naturals, Sequences, SequencesExt

CONSTANTS Screens,  \* bound: the connections screens of this instance
          Workers,  \* bound: connect and test goroutines
          None      \* no screen

ASSUME NoneAssumption == None \notin Screens

VARIABLES
  stack,     \* App.stack, the top screen last
  busy,      \* connectionsScreen.busy
  worker,    \* the goroutines of connect and test
  kind,      \* launcher.kind
  eng,       \* the one Engine of this process: see Engine
  instance,  \* whose instance file lies in the data directory
  other,     \* an engine of another process runs in the same directory
  remote,    \* the settings ask for an address beyond loopback
  quitting,  \* EvQuit is in the event queue
  ended      \* "no", or how the launcher's process ended

loop   == <<quitting, ended>>
engine == <<kind, eng, instance>>
vars   == <<stack, busy, worker, engine, other, remote, loop>>

Dialogs == {"quit", "exit", "bind", "delete"}
Plain   == {"main", "running", "error", "trust", "edit", "settings", "diagnostics", "about"}
Screen  == [kind : {"confirm"}, arg : Dialogs]
             \cup [kind : {"connections"}, arg : Screens] \cup [kind : Plain, arg : {None}]

\* up: the listener accepts requests.  pump: the transfer manager still starts
\* jobs.  fanouts: goroutines that copy the event bus to the web sockets.
\* bound: the address of the last Start.
Engine == [up : BOOLEAN, pump : BOOLEAN, fanouts : Nat, bound : {"none", "loopback", "beyond"}]

\* dial: Connect or TestConnection runs.  back: it returned.  top: the screen was
\* found on top.  prompt: the status is written and the trust prompt is due.
Attempt == [pc : {"idle", "dial", "back", "top", "prompt"}, screen : Screens \cup {None},
            op : {"connect", "test"}, answer : {"none", "done", "unknown"}]
Idle == [pc |-> "idle", screen |-> None, op |-> "connect", answer |-> "none"]

\* What the screens, the goroutines and the engines can hold.
TypeOK ==
  /\ stack \in Seq(Screen) /\ Len(stack) \in 1..2
  /\ busy \in [Screens -> BOOLEAN]
  /\ worker \in [Workers -> Attempt]
  /\ kind \in {"off", "ours", "external"}
  /\ eng \in Engine /\ eng.fanouts <= 2
  /\ instance \in {"none", "ours", "other"}
  /\ other \in BOOLEAN /\ remote \in BOOLEAN /\ quitting \in BOOLEAN
  /\ ended \in {"no", "left", "panic"}

Scr(k)        == [kind |-> k, arg |-> None]
Confirm(what) == [kind |-> "confirm", arg |-> what]
Conns(s)      == [kind |-> "connections", arg |-> s]
Main          == Scr("main")

Init ==
  /\ stack = <<Main>>
  /\ busy = [s \in Screens |-> FALSE]
  /\ worker = [w \in Workers |-> Idle]
  /\ kind = "off"
  /\ eng = [up |-> FALSE, pump |-> TRUE, fanouts |-> 0, bound |-> "none"]
  /\ other \in BOOLEAN /\ instance = IF other THEN "other" ELSE "none"
  /\ remote \in BOOLEAN
  /\ quitting = FALSE /\ ended = "no"

------------------------------------------------------------------------------
(* The screen stack                                                        *)

Top          == Last(stack)
Depth        == Len(stack)
SetScreen(s) == stack' = <<s>>
Push(s)      == stack' = Append(stack, s)

Pop     == stack' = IF Depth > 1 THEN Front(stack) ELSE stack

\* The run loop handles an event while this kind of screen is on top.
On(k) == ended = "no" /\ Top.kind = k

\* Bound: the connections screens nothing refers to any more.
Unused(s) == /\ \A i \in 1..Depth : stack[i] # Conns(s)
             /\ \A w \in Workers : worker[w].screen # s

\* A fresh connections screen replaces the stack.
ShowConnections(s) ==
  /\ Unused(s)
  /\ SetScreen(Conns(s))
  /\ busy' = [busy EXCEPT ![s] = FALSE]

\* RequestQuit: the event is dropped when the input reader has filled the queue.
RequestQuit == quitting' \in {quitting, TRUE}

\* quitAttempt
QuitAttempt ==
  /\ \/ kind = "ours" /\ Push(Confirm("quit")) /\ UNCHANGED quitting
     \/ kind = "external" /\ Push(Confirm("exit")) /\ UNCHANGED quitting
     \/ kind = "off" /\ RequestQuit /\ UNCHANGED stack
  /\ UNCHANGED <<busy, worker, engine, other, remote, ended>>

\* q on the screens that know it, Exit in the main menu.
Quit(k) == On(k) /\ k \notin {"confirm", "trust", "edit"} /\ QuitAttempt

\* Ctrl+C where the screen does not take it for a plain c: the process ends with
\* whatever runs.
CtrlC ==
  /\ ended = "no" /\ Top.kind \notin {"main", "connections"}
  /\ ended' = "left"
  /\ UNCHANGED <<stack, busy, worker, engine, other, remote, quitting>>

QuitEvent ==
  /\ ended = "no" /\ quitting
  /\ ended' = "left"
  /\ UNCHANGED <<stack, busy, worker, engine, other, remote, quitting>>

------------------------------------------------------------------------------
(* The engine                                                              *)

\* Engine.Start.  The instance file of another engine is replaced.
Start ==
  /\ kind' = "ours"
  /\ eng' = [eng EXCEPT !.up = TRUE, !.fanouts = @ + 1,
                        !.bound = IF remote THEN "beyond" ELSE "loopback"]
  /\ instance' \in {instance, "ours"}        \* writing it may fail

\* startEngine, and the screen doStart shows then.  Listening may fail.
Begin ==
  \/ kind = "ours" /\ SetScreen(Scr("running")) /\ UNCHANGED engine
  \/ kind = "off" /\ Start /\ SetScreen(Scr("running"))
  \/ kind # "ours" /\ SetScreen(Scr("error")) /\ UNCHANGED engine

\* Faulty: the confirmation is asked for once the engine listens.
DoStartFirst ==
  /\ On("main")
  /\ \/ kind = "external" /\ SetScreen(Scr("error")) /\ UNCHANGED engine
     \/ kind # "external" /\ Begin
  /\ UNCHANGED <<busy, worker, other, remote, loop>>

\* doStart
DoStart ==
  /\ On("main")
  /\ \/ kind = "external" /\ SetScreen(Scr("error")) /\ UNCHANGED engine
     \/ kind # "external" /\ remote /\ Push(Confirm("bind")) /\ UNCHANGED engine
     \/ kind # "external" /\ ~remote /\ Begin
  /\ UNCHANGED <<busy, worker, other, remote, loop>>

\* Engine.Shutdown closes the stop channel of the transfer manager first: a
\* second one panics there.  It removes the instance file, whoever wrote it.
Shutdown ==
  IF eng.pump
  THEN /\ eng' = [eng EXCEPT !.up = FALSE, !.pump = FALSE]
       /\ instance' = "none" /\ ended' = ended
  ELSE ended' = "panic" /\ UNCHANGED <<eng, instance>>

\* stopEngine
StopEngine ==
  \/ kind = "ours" /\ Shutdown /\ kind' = "off"
  \/ kind # "ours" /\ kind' = "off" /\ UNCHANGED <<eng, instance, ended>>

\* Stop Engine on the running screen.
StopButton ==
  /\ On("running") /\ StopEngine /\ SetScreen(Main)
  /\ UNCHANGED <<busy, worker, other, remote, quitting>>

\* Faulty: the probe does not spare the engine of this process.
ProbeAlways ==
  /\ ended = "no" /\ Top.kind \in {"main", "diagnostics"}
  /\ kind' \in IF instance = "none" THEN {"off"} ELSE {"external", "off"}
  /\ UNCHANGED <<stack, busy, worker, eng, instance, other, remote, loop>>

\* probeExternal, while the main menu or the diagnostics are drawn.  The health
\* request may fail although the engine runs.
Probe ==
  /\ ended = "no" /\ Top.kind \in {"main", "diagnostics"} /\ kind # "ours"
  /\ kind' \in IF instance = "other" /\ other THEN {"external", "off"} ELSE {"off"}
  /\ UNCHANGED <<stack, busy, worker, eng, instance, other, remote, loop>>

------------------------------------------------------------------------------
(* The plain screens                                                       *)

\* The main menu opens another screen.
Open(k) ==
  /\ On("main") /\ k \in {"settings", "diagnostics", "about"}
  /\ SetScreen(Scr(k))
  /\ UNCHANGED <<busy, worker, engine, other, remote, loop>>

OpenConnections(s) ==
  /\ On("main") /\ ShowConnections(s)
  /\ UNCHANGED <<worker, engine, other, remote, loop>>

\* Esc on a screen that leads back to the main menu.
Back(k) ==
  /\ On(k) /\ k \in {"running", "connections", "settings", "diagnostics", "about"}
  /\ SetScreen(Main)
  /\ UNCHANGED <<busy, worker, engine, other, remote, loop>>

LeaveError ==
  /\ On("error")
  /\ IF Depth > 1 THEN Pop ELSE SetScreen(Main)
  /\ UNCHANGED <<busy, worker, engine, other, remote, loop>>

\* The one setting the launcher reads is changed, on the settings screen or by a
\* browser while the engine runs.
ToggleRemote ==
  /\ On("settings") \/ (ended = "no" /\ eng.up)
  /\ remote' = ~remote
  /\ UNCHANGED <<stack, busy, worker, engine, other, loop>>

\* Esc, or a save that succeeded; a refused one leaves the form open.
LeaveEdit ==
  /\ On("edit") /\ Pop
  /\ UNCHANGED <<busy, worker, engine, other, remote, loop>>

------------------------------------------------------------------------------
(* Confirmations                                                           *)

\* No and Esc.
No ==
  /\ On("confirm") /\ Pop
  /\ UNCHANGED <<busy, worker, engine, other, remote, loop>>

YesQuit ==
  /\ On("confirm") /\ Top.arg = "quit"
  /\ StopEngine /\ RequestQuit
  /\ UNCHANGED <<stack, busy, worker, other, remote>>

YesExit ==
  /\ On("confirm") /\ Top.arg = "exit" /\ RequestQuit
  /\ UNCHANGED <<stack, busy, worker, engine, other, remote, ended>>

YesBind ==
  /\ On("confirm") /\ Top.arg = "bind" /\ Begin
  /\ UNCHANGED <<busy, worker, other, remote, loop>>

\* The profile is deleted and the screen below shows it; the dialog stays.
YesDelete ==
  /\ On("confirm") /\ Top.arg = "delete"
  /\ busy' = [busy EXCEPT ![stack[Depth - 1].arg] = FALSE]
  /\ UNCHANGED <<stack, worker, engine, other, remote, loop>>

------------------------------------------------------------------------------
(* The connections screen                                                  *)

\* connect and test start a goroutine.
Attempts(s, w, op) ==
  /\ worker[w].pc = "idle"
  /\ worker' = [worker EXCEPT ![w] = [Idle EXCEPT !.pc = "dial", !.screen = s, !.op = op]]

Ask(w, op) ==
  /\ On("connections") /\ ~busy[Top.arg]
  /\ Attempts(Top.arg, w, op)
  /\ busy' = [busy EXCEPT ![Top.arg] = TRUE]
  /\ UNCHANGED <<stack, engine, other, remote, loop>>

\* Duplicate writes its outcome as the screen's status, with busy off.
Duplicate ==
  /\ On("connections")
  /\ busy' = [busy EXCEPT ![Top.arg] = FALSE]
  /\ UNCHANGED <<stack, worker, engine, other, remote, loop>>

Edit ==
  /\ On("connections") /\ Push(Scr("edit"))
  /\ UNCHANGED <<busy, worker, engine, other, remote, loop>>

Delete ==
  /\ On("connections") /\ Push(Confirm("delete"))
  /\ UNCHANGED <<busy, worker, engine, other, remote, loop>>

Step(w, step) == worker' = [worker EXCEPT ![w].pc = step]

\* Connect or TestConnection returns: done with or without an error, or with an
\* identity that is not trusted yet.
Answer(w, a) ==
  /\ ended = "no" /\ worker[w].pc = "dial" /\ a \in {"done", "unknown"}
  /\ worker' = [worker EXCEPT ![w].pc = "back", ![w].answer = a]
  /\ UNCHANGED <<stack, busy, engine, other, remote, loop>>

\* The outcome is dropped unless the screen is the top one.
LookAtTop(w) ==
  /\ ended = "no" /\ worker[w].pc = "back"
  /\ IF Top = Conns(worker[w].screen) THEN Step(w, "top")
                                      ELSE worker' = [worker EXCEPT ![w] = Idle]
  /\ UNCHANGED <<stack, busy, engine, other, remote, loop>>

\* setStatus
Report(w) ==
  /\ ended = "no" /\ worker[w].pc = "top"
  /\ busy' = [busy EXCEPT ![worker[w].screen] = FALSE]
  /\ IF worker[w].op = "connect" /\ worker[w].answer = "unknown"
     THEN Step(w, "prompt") ELSE worker' = [worker EXCEPT ![w] = Idle]
  /\ UNCHANGED <<stack, engine, other, remote, loop>>

\* Faulty: the prompt replaces whatever screen is on top by now.
PromptAnyway(w) ==
  /\ ended = "no" /\ worker[w].pc = "prompt"
  /\ worker' = [worker EXCEPT ![w] = Idle]
  /\ stack' = Append(Front(stack), Scr("trust"))
  /\ UNCHANGED <<busy, engine, other, remote, loop>>

\* SetScreenIfTop
Prompt(w) ==
  /\ ended = "no" /\ worker[w].pc = "prompt"
  /\ worker' = [worker EXCEPT ![w] = Idle]
  /\ stack' = IF Top = Conns(worker[w].screen) THEN Append(Front(stack), Scr("trust"))
                                               ELSE stack
  /\ UNCHANGED <<busy, engine, other, remote, loop>>

\* Trust & connect: recorded, on a fresh connections screen, or not.
Trust(s, w) ==
  /\ On("trust") /\ Unused(s)
  /\ SetScreen(Conns(s)) /\ Attempts(s, w, "connect")
  /\ busy' = [busy EXCEPT ![s] = TRUE]
  /\ UNCHANGED <<engine, other, remote, loop>>

TrustFails ==
  /\ On("trust") /\ SetScreen(Scr("error"))
  /\ UNCHANGED <<busy, worker, engine, other, remote, loop>>

\* Cancel: a Pop, which does nothing where there is no screen below.
DontTrust ==
  /\ On("trust") /\ Pop
  /\ UNCHANGED <<busy, worker, engine, other, remote, loop>>

------------------------------------------------------------------------------
(* The other process                                                       *)

OtherStarts ==
  /\ ~other /\ other' = TRUE /\ instance' = "other"
  /\ UNCHANGED <<stack, busy, worker, kind, eng, remote, loop>>

\* It stops, removing the instance file whoever wrote it, or is killed.
OtherEnds ==
  /\ other /\ other' = FALSE /\ instance' \in {instance, "none"}
  /\ UNCHANGED <<stack, busy, worker, kind, eng, remote, loop>>

Next ==
  \/ \E k \in Plain \cup {"connections"} : Quit(k) \/ Open(k) \/ Back(k)
  \/ CtrlC \/ QuitEvent \/ DoStart \/ StopButton \/ Probe
  \/ LeaveError \/ ToggleRemote \/ LeaveEdit
  \/ No \/ YesQuit \/ YesExit \/ YesBind \/ YesDelete
  \/ Duplicate \/ Edit \/ Delete \/ TrustFails \/ DontTrust
  \/ \E s \in Screens : OpenConnections(s) \/ \E w \in Workers : Trust(s, w)
  \/ \E w \in Workers : \/ \E op \in {"connect", "test"} : Ask(w, op)
                        \/ \E a \in {"done", "unknown"} : Answer(w, a)
                        \/ LookAtTop(w) \/ Report(w) \/ Prompt(w)
  \/ OtherStarts \/ OtherEnds

Spec == Init /\ [][Next]_vars

------------------------------------------------------------------------------
(* Properties                                                              *)

\* What the launcher says of its own engine is so: it never takes the engine it
\* started for a foreign one or for a stopped one (so that it would leave it
\* running, or start it twice), nor shows one as running that is not.
KindIsTrue == ended = "no" => (kind = "ours" <=> eng.up)

\* A goroutine never takes a screen away from the user: the trust prompt appears
\* in the place of the connections screen that asked for the connection, and only
\* while that one is still on top, however the user moved since the answer came.
PromptOnItsOwnScreen ==
  [][Top.kind # "trust" /\ Top'.kind = "trust"
       => \E w \in Workers : /\ Top = Conns(worker[w].screen)
                             /\ worker[w].op = "connect" /\ worker[w].answer = "unknown"
                             /\ worker'[w] = Idle]_vars

\* The engine listens beyond loopback only if the user said Yes to just that: the
\* setting is read when the dialog is made and again when the engine starts.
BeyondIsConfirmed ==
  [][~eng.up /\ eng'.up /\ eng'.bound = "beyond" => Top = Confirm("bind")]_vars
===================================================================================
