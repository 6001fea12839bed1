----------------------------- MODULE LauncherProofs ------------------------------
(***************************************************************************)
(* Theorems about the terminal launcher.  The argument goes variable by    *)
(* variable: every step of Next does one of a few things to the stack of   *)
(* screens, to the goroutines and to the engine (StackStep, WorkerStep,    *)
(* EngineStep), and each part of the invariant and each action property    *)
(* follows from what the step does to the variables it speaks of.          *)
(***************************************************************************)
EXTENDS Launcher, TLAPS, SequenceTheorems

\* The screens that are pushed on another one and lead back to it.
Overlay == {"confirm", "edit"}

\* An overlay lies on a screen that is none, the deletion dialog on the connections
\* screen, and nothing lies on an overlay: at most two screens are stacked.
ScreensInPlace ==
  /\ Depth = 1 => Top.kind \notin Overlay
  /\ Depth = 2 => /\ Top.kind \in Overlay
                  /\ stack[1].kind \notin Overlay \cup {"trust"}
                  /\ Top = Confirm("delete") => stack[1].kind = "connections"

\* A goroutine at work has the screen that asked, and one that is due to prompt has
\* the answer to prompt for.
AttemptsInPlace ==
  \A w \in Workers :
    /\ worker[w].pc # "idle" => worker[w].screen \in Screens
    /\ worker[w].pc = "prompt" => worker[w].op = "connect" /\ worker[w].answer = "unknown"

\* One goroutine copies the event bus while the engine runs, and one more since it was
\* stopped: there is no third, because a second stop ends the process.
EngineCounted ==
  eng.fanouts = (IF eng.up THEN 1 ELSE 0) + (IF eng.pump THEN 0 ELSE 1)

\* The inductive invariant.
LauncherIInv == TypeOK /\ ScreensInPlace /\ AttemptsInPlace /\ EngineCounted /\ KindIsTrue

------------------------------------------------------------------------------
(* What a step may do to each variable                                     *)

\* It shows a screen alone, puts an overlay on a screen that takes one, takes the top
\* screen off, or has the trust prompt replace the connections screen that asked.
StackStep ==
  \/ stack' = stack
  \/ \E s \in Screen : s.kind \notin Overlay \cup {"trust"} /\ SetScreen(s)
  \/ \E s \in Screen :
       /\ s.kind \in Overlay /\ Top.kind \notin Overlay \cup {"trust"} /\ Push(s)
       /\ s = Confirm("delete") => Top.kind = "connections"
  \/ Pop
  \/ /\ stack' = Append(Front(stack), Scr("trust"))
     /\ \E w \in Workers : /\ worker[w].pc = "prompt" /\ Top = Conns(worker[w].screen)
                           /\ worker'[w] = Idle

\* It moves one goroutine on, puts one to rest or starts one.
WorkerStep ==
  \/ worker' = worker
  \/ \E w \in Workers :
       \/ worker' = [worker EXCEPT ![w] = Idle]
       \/ \E s \in Screens, op \in {"connect", "test"} : Attempts(s, w, op)
       \/ /\ worker[w].pc = "dial"
          /\ \E a \in {"done", "unknown"} :
               worker' = [worker EXCEPT ![w].pc = "back", ![w].answer = a]
       \/ worker[w].pc = "back" /\ Step(w, "top")
       \/ /\ worker[w].pc = "top" /\ worker[w].op = "connect"
          /\ worker[w].answer = "unknown" /\ Step(w, "prompt")

\* It leaves the engine alone, finds another process's engine or loses it, starts the
\* engine (beyond loopback only on a Yes to that) or stops it.
EngineStep ==
  \/ kind' = kind /\ eng' = eng /\ (ended' = ended \/ ended' = "left")
  \/ /\ kind # "ours" /\ kind' \in {"external", "off"} /\ eng' = eng /\ ended' = ended
  \/ kind = "off" /\ ended = "no" /\ Start /\ (remote => Top = Confirm("bind")) /\ ended' = ended
  \/ ended = "no" /\ StopEngine

-----------------------------------------------------------------------------
(* The stack of screens                                                    *)

LEMMA ScreenKinds ==
  /\ \A k \in Plain : Scr(k) \in Screen /\ Scr(k).kind = k
  /\ \A d \in Dialogs : Confirm(d) \in Screen /\ Confirm(d).kind = "confirm" /\ Confirm(d).arg = d
  /\ \A s \in Screens : Conns(s) \in Screen /\ Conns(s).kind = "connections" /\ Conns(s).arg = s
BY DEF Screen, Scr, Confirm, Conns, Plain, Dialogs

\* A screen of the kind "confirm" or "connections" is what its constructor makes.
LEMMA ScreenOf ==
  ASSUME NEW t \in Screen
  PROVE  /\ t.kind = "confirm" => t = Confirm(t.arg)
         /\ t.kind = "connections" => t.arg \in Screens
BY DEF Screen, Confirm, Plain

\* A stack of one or two screens, and what Front leaves of it.
LEMMA StackCases ==
  ASSUME stack \in Seq(Screen), Len(stack) \in 1..2
  PROVE  /\ Top = stack[Len(stack)] /\ Top \in Screen /\ Depth = Len(stack)
         /\ Len(stack) = 2 => stack[1] \in Screen
         /\ Front(stack) \in Seq(Screen) /\ Len(Front(stack)) = Len(stack) - 1
         /\ Len(stack) = 2 => Front(stack)[1] = stack[1]
<1>1. /\ Top = stack[Len(stack)] /\ Top \in Screen /\ Depth = Len(stack)
      /\ Len(stack) = 2 => stack[1] \in Screen
  BY DEF Top, Last, Depth
<1>2. /\ Front(stack) \in Seq(Screen) /\ Len(Front(stack)) = Len(stack) - 1
      /\ \A i \in 1..(Len(stack) - 1) : Front(stack)[i] = stack[i]
  BY DEF Front
<1> QED BY <1>1, <1>2

LEMMA Pushed ==
  ASSUME NEW S, NEW q \in Seq(S), Len(q) = 1, NEW e \in S
  PROVE  /\ Append(q, e) \in Seq(S) /\ Len(Append(q, e)) = 2
         /\ Append(q, e)[1] = q[1] /\ Append(q, e)[2] = e
<1>1. Append(q, e) \in Seq(S) /\ Len(Append(q, e)) = 2 OBVIOUS
<1>2. Append(q, e)[1] = q[1] OBVIOUS
<1>3. Append(q, e)[2] = e BY AppendProperties
<1> QED BY <1>1, <1>2, <1>3

\* What a step leaves on the stack is a stack of the invariant, and the trust prompt comes
\* up in one way alone.
LEMMA StackKept ==
  ASSUME stack \in Seq(Screen), Len(stack) \in 1..2, ScreensInPlace, StackStep
  PROVE  /\ stack' \in Seq(Screen) /\ Len(stack') \in 1..2
         /\ ScreensInPlace'
         /\ Top.kind # "trust" /\ Top'.kind = "trust"
              => \E w \in Workers : /\ worker[w].pc = "prompt" /\ Top = Conns(worker[w].screen)
                                    /\ worker'[w] = Idle
<1> USE DEF Top, Last, Depth
<1>1. CASE stack' = stack
  BY <1>1 DEF ScreensInPlace, Confirm
<1>2. ASSUME NEW s \in Screen, s.kind \notin Overlay \cup {"trust"}, SetScreen(s)
      PROVE  /\ stack' \in Seq(Screen) /\ Len(stack') = 1 /\ stack'[1] = s
  BY <1>2 DEF SetScreen
<1>3. CASE \E s \in Screen : s.kind \notin Overlay \cup {"trust"} /\ SetScreen(s)
  BY <1>2, <1>3 DEF ScreensInPlace
<1>4. ASSUME NEW s \in Screen, s.kind \in Overlay, Top.kind \notin Overlay \cup {"trust"},
             s = Confirm("delete") => Top.kind = "connections", Push(s)
      PROVE  /\ stack' \in Seq(Screen) /\ Len(stack') \in 1..2 /\ ScreensInPlace'
             /\ Top'.kind # "trust"
  <2>1. Len(stack) = 1 BY <1>4 DEF ScreensInPlace
  <2>2. /\ stack' \in Seq(Screen) /\ Len(stack') = 2 /\ stack'[1] = stack[1] /\ stack'[2] = s
    <3>1. stack' = Append(stack, s) /\ 1 \in 1..Len(stack) BY <1>4, <2>1 DEF Push
    <3> QED BY <1>4, <2>1, <3>1, Pushed
  <2>3. ScreensInPlace' BY <1>4, <2>1, <2>2 DEF ScreensInPlace, Confirm
  <2> QED BY <1>4, <2>2, <2>3 DEF Overlay
<1>5. CASE \E s \in Screen :
             /\ s.kind \in Overlay /\ Top.kind \notin Overlay \cup {"trust"} /\ Push(s)
             /\ s = Confirm("delete") => Top.kind = "connections"
  BY <1>4, <1>5
<1>6. CASE Pop
  <2>1. CASE Len(stack) = 1 BY <1>1, <1>6, <2>1 DEF Pop
  <2>2. CASE Len(stack) = 2
    <3>1. stack' = Front(stack) BY <1>6, <2>2 DEF Pop
    <3>2. stack' \in Seq(Screen) /\ Len(stack') = 1 /\ stack'[1] = stack[1]
      BY <2>2, <3>1, StackCases
    <3> QED BY <2>2, <3>2 DEF ScreensInPlace, Confirm
  <2> QED BY <2>1, <2>2
<1>7. CASE /\ stack' = Append(Front(stack), Scr("trust"))
           /\ \E w \in Workers : /\ worker[w].pc = "prompt" /\ Top = Conns(worker[w].screen)
                                 /\ worker'[w] = Idle
  <2>1. Top.kind = "connections" BY <1>7 DEF Conns
  <2>2. Len(stack) = 1 BY <2>1 DEF ScreensInPlace, Overlay
  <2>3. Scr("trust") \in Screen /\ Scr("trust").kind = "trust" BY ScreenKinds DEF Plain
  <2>4. Front(stack) \in Seq(Screen) /\ Len(Front(stack)) = 0 BY <2>2, StackCases
  <2>5. stack' \in Seq(Screen) /\ Len(stack') = 1 /\ stack'[1] = Scr("trust")
    BY <1>7, <2>3, <2>4
  <2> QED BY <1>7, <2>3, <2>5 DEF ScreensInPlace, Overlay
<1> QED BY <1>1, <1>3, <1>5, <1>6, <1>7 DEF StackStep

------------------------------------------------------------------------------
(* Every action is one of these steps                                      *)

LEMMA StackSteps ==
  ASSUME stack \in Seq(Screen), Len(stack) \in 1..2, worker \in [Workers -> Attempt], Next
  PROVE  StackStep
<1> USE ScreenKinds, StackCases
<1>1. CASE \E k \in Plain \cup {"connections"} : Quit(k) \/ Open(k) \/ Back(k)
  <2>1. ASSUME NEW k \in Plain \cup {"connections"}, Quit(k) PROVE StackStep
    BY <2>1 DEF Quit, QuitAttempt, On, StackStep, Overlay, Confirm, Dialogs
  <2>2. ASSUME NEW k, Open(k) PROVE StackStep
    BY <2>2 DEF Open, StackStep, Overlay, Plain
  <2>3. ASSUME NEW k, Back(k) PROVE StackStep
    BY <2>3 DEF Back, StackStep, Overlay, Plain, Main
  <2> QED BY <1>1, <2>1, <2>2, <2>3
<1>2. CASE CtrlC \/ QuitEvent \/ Probe \/ ToggleRemote \/ YesQuit \/ YesExit \/ YesDelete
             \/ Duplicate \/ OtherStarts \/ OtherEnds
  BY <1>2 DEF CtrlC, QuitEvent, Probe, ToggleRemote, YesQuit, YesExit, YesDelete, Duplicate,
              OtherStarts, OtherEnds, StackStep
<1>3. CASE DoStart
  BY <1>3 DEF DoStart, Begin, On, StackStep, Overlay, Plain, Dialogs, Confirm
<1>4. CASE YesBind
  BY <1>4 DEF YesBind, Begin, StackStep, Overlay, Plain
<1>5. CASE StopButton \/ LeaveError \/ TrustFails
  BY <1>5 DEF StopButton, LeaveError, TrustFails, StackStep, Overlay, Plain, Main
<1>6. CASE LeaveEdit \/ No \/ DontTrust
  BY <1>6 DEF LeaveEdit, No, DontTrust, StackStep
<1>7. CASE Edit
  BY <1>7 DEF Edit, On, StackStep, Overlay, Plain, Scr, Confirm
<1>8. CASE Delete
  BY <1>8 DEF Delete, On, StackStep, Overlay, Dialogs
<1>9. ASSUME NEW s \in Screens, OpenConnections(s) \/ \E w \in Workers : Trust(s, w)
      PROVE  StackStep
  BY <1>9 DEF OpenConnections, ShowConnections, Trust, StackStep, Overlay
<1>10. ASSUME NEW w \in Workers,
              \/ \E op \in {"connect", "test"} : Ask(w, op)
              \/ \E a \in {"done", "unknown"} : Answer(w, a)
              \/ LookAtTop(w) \/ Report(w)
       PROVE  StackStep
  BY <1>10 DEF Ask, Answer, LookAtTop, Report, StackStep
<1>11. ASSUME NEW w \in Workers, Prompt(w) PROVE StackStep
  <2>1. worker[w].pc = "prompt" /\ worker'[w] = Idle BY <1>11 DEF Prompt
  <2>2. CASE Top = Conns(worker[w].screen)
    BY <1>11, <2>1, <2>2 DEF Prompt, StackStep
  <2> QED BY <1>11, <2>2 DEF Prompt, StackStep
<1> QED
  BY <1>1, <1>2, <1>3, <1>4, <1>5, <1>6, <1>7, <1>8, <1>9, <1>10, <1>11 DEF Next

LEMMA WorkerSteps ==
  ASSUME stack \in Seq(Screen), Len(stack) \in 1..2, Next
  PROVE  WorkerStep
<1>1. CASE \E k \in Plain \cup {"connections"} : Quit(k) \/ Open(k) \/ Back(k)
  BY <1>1 DEF Quit, QuitAttempt, Open, Back, WorkerStep
<1>2. CASE \/ CtrlC \/ QuitEvent \/ DoStart \/ StopButton \/ Probe
           \/ LeaveError \/ ToggleRemote \/ LeaveEdit
           \/ No \/ YesQuit \/ YesExit \/ YesBind \/ YesDelete
           \/ Duplicate \/ Edit \/ Delete \/ TrustFails \/ DontTrust
           \/ OtherStarts \/ OtherEnds
  BY <1>2 DEF CtrlC, QuitEvent, DoStart, StopButton, Probe, LeaveError, ToggleRemote,
              LeaveEdit, No, YesQuit, YesExit, YesBind, YesDelete, Duplicate, Edit, Delete,
              TrustFails, DontTrust, OtherStarts, OtherEnds, WorkerStep
<1>3. ASSUME NEW s \in Screens, OpenConnections(s) \/ \E w \in Workers : Trust(s, w)
      PROVE  WorkerStep
  BY <1>3 DEF OpenConnections, Trust, WorkerStep
<1>4. ASSUME NEW w \in Workers, NEW op \in {"connect", "test"}, Ask(w, op)
      PROVE  WorkerStep
  <2>1. Top.arg \in Screens BY <1>4, StackCases, ScreenOf DEF Ask, On
  <2> QED BY <1>4, <2>1 DEF Ask, WorkerStep
<1>5. ASSUME NEW w \in Workers, NEW a \in {"done", "unknown"}, Answer(w, a)
      PROVE  WorkerStep
  BY <1>5 DEF Answer, WorkerStep
<1>6. ASSUME NEW w \in Workers, LookAtTop(w) \/ Report(w) \/ Prompt(w)
      PROVE  WorkerStep
  BY <1>6 DEF LookAtTop, Report, Prompt, WorkerStep
<1> QED BY <1>1, <1>2, <1>3, <1>4, <1>5, <1>6 DEF Next

LEMMA EngineSteps ==
  ASSUME stack \in Seq(Screen), Len(stack) \in 1..2, Next
  PROVE  EngineStep
<1>1. CASE \E k \in Plain \cup {"connections"} : Quit(k) \/ Open(k) \/ Back(k)
  BY <1>1 DEF Quit, QuitAttempt, Open, Back, EngineStep, engine, loop
<1>2. CASE \/ CtrlC \/ QuitEvent
           \/ LeaveError \/ ToggleRemote \/ LeaveEdit
           \/ No \/ YesExit \/ YesDelete
           \/ Duplicate \/ Edit \/ Delete \/ TrustFails \/ DontTrust
           \/ OtherStarts \/ OtherEnds
  BY <1>2 DEF CtrlC, QuitEvent, LeaveError, ToggleRemote,
              LeaveEdit, No, YesExit, YesDelete, Duplicate, Edit, Delete,
              TrustFails, DontTrust, OtherStarts, OtherEnds, EngineStep, engine, loop
<1>3. CASE DoStart
  BY <1>3 DEF DoStart, Begin, On, EngineStep, engine, loop
<1>4. CASE YesBind
  <2>1. Top = Confirm("bind") BY <1>4, StackCases, ScreenOf DEF YesBind, On
  <2> QED BY <1>4, <2>1 DEF YesBind, Begin, On, EngineStep, engine, loop
<1>5. CASE StopButton \/ YesQuit
  BY <1>5 DEF StopButton, YesQuit, On, EngineStep
<1>6. CASE Probe
  BY <1>6 DEF Probe, EngineStep, loop
<1>7. ASSUME NEW s \in Screens, OpenConnections(s) \/ \E w \in Workers : Trust(s, w)
      PROVE  EngineStep
  BY <1>7 DEF OpenConnections, Trust, EngineStep, engine, loop
<1>8. ASSUME NEW w \in Workers,
             \/ \E op \in {"connect", "test"} : Ask(w, op)
             \/ \E a \in {"done", "unknown"} : Answer(w, a)
             \/ LookAtTop(w) \/ Report(w) \/ Prompt(w)
      PROVE  EngineStep
  BY <1>8 DEF Ask, Answer, LookAtTop, Report, Prompt, EngineStep, engine, loop
<1> QED BY <1>1, <1>2, <1>3, <1>4, <1>5, <1>6, <1>7, <1>8 DEF Next

\* The variables that carry no part of the argument keep their type.
LEMMA OtherTypes ==
  ASSUME TypeOK, Next
  PROVE  /\ busy' \in [Screens -> BOOLEAN]
         /\ instance' \in {"none", "ours", "other"}
         /\ other' \in BOOLEAN /\ remote' \in BOOLEAN /\ quitting' \in BOOLEAN
         /\ ended' \in {"no", "left", "panic"}
<1> DEFINE Types == /\ busy' \in [Screens -> BOOLEAN]
                    /\ instance' \in {"none", "ours", "other"}
                    /\ other' \in BOOLEAN /\ remote' \in BOOLEAN /\ quitting' \in BOOLEAN
                    /\ ended' \in {"no", "left", "panic"}
<1> USE DEF TypeOK
<1>1. CASE \E k \in Plain \cup {"connections"} : Quit(k) \/ Open(k) \/ Back(k)
  BY <1>1 DEF Quit, QuitAttempt, RequestQuit, Open, Back, engine, loop
<1>2. CASE \/ CtrlC \/ QuitEvent \/ LeaveError \/ LeaveEdit
           \/ No \/ YesExit \/ Edit \/ Delete \/ TrustFails \/ DontTrust \/ Probe
  BY <1>2 DEF CtrlC, QuitEvent, LeaveError, LeaveEdit, No, YesExit, RequestQuit, Edit, Delete,
              TrustFails, DontTrust, Probe, engine, loop
<1>3. CASE DoStart \/ YesBind
  BY <1>3 DEF DoStart, YesBind, Begin, Start, engine, loop
<1>4. CASE StopButton \/ YesQuit
  BY <1>4 DEF StopButton, YesQuit, StopEngine, Shutdown, RequestQuit, engine, loop
<1>5. CASE ToggleRemote \/ OtherStarts \/ OtherEnds
  BY <1>5 DEF ToggleRemote, OtherStarts, OtherEnds, loop, engine
<1>6. CASE YesDelete \/ Duplicate
  BY <1>6 DEF YesDelete, Duplicate, engine, loop
<1>7. ASSUME NEW s \in Screens, OpenConnections(s) \/ \E w \in Workers : Trust(s, w)
      PROVE  Types
  BY <1>7 DEF OpenConnections, ShowConnections, Trust, engine, loop
<1>8. ASSUME NEW w \in Workers,
             \/ \E op \in {"connect", "test"} : Ask(w, op)
             \/ \E a \in {"done", "unknown"} : Answer(w, a)
             \/ LookAtTop(w) \/ Report(w) \/ Prompt(w)
      PROVE  Types
  BY <1>8 DEF Ask, Answer, LookAtTop, Report, Prompt, engine, loop
<1> QED BY <1>1, <1>2, <1>3, <1>4, <1>5, <1>6, <1>7, <1>8 DEF Next

-----------------------------------------------------------------------------
(* The invariant                                                           *)

LEMMA LauncherInit == Init => LauncherIInv
<1> SUFFICES ASSUME Init PROVE LauncherIInv
  OBVIOUS
<1>1. Main \in Screen /\ Main.kind = "main" BY ScreenKinds DEF Main, Plain
<1>2. stack \in Seq(Screen) /\ Len(stack) = 1 /\ Top = Main /\ Depth = 1
  BY <1>1 DEF Init, Top, Last, Depth
<1>3. Idle \in Attempt /\ Idle.pc = "idle" BY DEF Idle, Attempt
<1>4. eng \in Engine /\ eng.fanouts = 0 /\ ~ eng.up /\ eng.pump BY DEF Init, Engine
<1>5. TypeOK
  <2>1. stack \in Seq(Screen) /\ Len(stack) \in 1..2 BY <1>2
  <2>2. busy \in [Screens -> BOOLEAN] /\ worker \in [Workers -> Attempt] BY <1>3 DEF Init
  <2>3. eng \in Engine /\ eng.fanouts <= 2 BY <1>4
  <2> QED BY <2>1, <2>2, <2>3 DEF Init, TypeOK
<1>6. ScreensInPlace BY <1>1, <1>2 DEF ScreensInPlace, Overlay
<1>7. AttemptsInPlace BY <1>3 DEF Init, AttemptsInPlace
<1>8. EngineCounted /\ KindIsTrue BY <1>4 DEF Init, EngineCounted, KindIsTrue
<1> QED BY <1>5, <1>6, <1>7, <1>8 DEF LauncherIInv

LEMMA WorkersKept ==
  ASSUME worker \in [Workers -> Attempt], AttemptsInPlace, WorkerStep
  PROVE  worker' \in [Workers -> Attempt] /\ AttemptsInPlace'
<1>1. CASE worker' = worker
  BY <1>1 DEF AttemptsInPlace
<1>2. ASSUME NEW w \in Workers, NEW v \in Attempt, worker' = [worker EXCEPT ![w] = v],
             v.pc # "idle" => v.screen \in Screens,
             v.pc = "prompt" => v.op = "connect" /\ v.answer = "unknown"
      PROVE  worker' \in [Workers -> Attempt] /\ AttemptsInPlace'
  BY <1>2 DEF AttemptsInPlace
<1>3. ASSUME NEW w \in Workers, worker' = [worker EXCEPT ![w] = Idle]
      PROVE  worker' \in [Workers -> Attempt] /\ AttemptsInPlace'
  <2>1. Idle \in Attempt /\ Idle.pc = "idle" BY DEF Idle, Attempt
  <2> QED BY <1>2, <1>3, <2>1
<1>4. ASSUME NEW w \in Workers, NEW s \in Screens, NEW op \in {"connect", "test"},
             Attempts(s, w, op)
      PROVE  worker' \in [Workers -> Attempt] /\ AttemptsInPlace'
  <2> DEFINE v == [Idle EXCEPT !.pc = "dial", !.screen = s, !.op = op]
  <2>1. v \in Attempt /\ v.pc = "dial" /\ v.screen = s BY DEF Idle, Attempt
  <2>2. worker' = [worker EXCEPT ![w] = v] BY <1>4 DEF Attempts
  <2> HIDE DEF v
  <2> QED BY <1>2, <2>1, <2>2
<1>5. ASSUME NEW w \in Workers, NEW a \in {"done", "unknown"}, worker[w].pc = "dial",
             worker' = [worker EXCEPT ![w].pc = "back", ![w].answer = a]
      PROVE  worker' \in [Workers -> Attempt] /\ AttemptsInPlace'
  <2> DEFINE v == [worker[w] EXCEPT !.pc = "back", !.answer = a]
  <2>1. v \in Attempt /\ v.pc = "back" /\ v.screen = worker[w].screen
    BY DEF Attempt
  <2>2. worker' = [worker EXCEPT ![w] = v] BY <1>5
  <2>3. worker[w].screen \in Screens BY <1>5 DEF AttemptsInPlace
  <2> HIDE DEF v
  <2> QED BY <1>2, <2>1, <2>2, <2>3
<1>6. ASSUME NEW w \in Workers, NEW k \in {"top", "prompt"}, worker[w].pc \in {"back", "top"},
             k = "prompt" => worker[w].op = "connect" /\ worker[w].answer = "unknown",
             Step(w, k)
      PROVE  worker' \in [Workers -> Attempt] /\ AttemptsInPlace'
  <2> DEFINE v == [worker[w] EXCEPT !.pc = k]
  <2>1. /\ v \in Attempt /\ v.pc = k /\ v.screen = worker[w].screen
        /\ v.op = worker[w].op /\ v.answer = worker[w].answer
    BY DEF Attempt
  <2>2. worker' = [worker EXCEPT ![w] = v] BY <1>6 DEF Step
  <2>3. worker[w].screen \in Screens BY <1>6 DEF AttemptsInPlace
  <2> HIDE DEF v
  <2> QED BY <1>2, <1>6, <2>1, <2>2, <2>3
<1> QED BY <1>1, <1>3, <1>4, <1>5, <1>6 DEF WorkerStep

LEMMA EngineKept ==
  ASSUME kind \in {"off", "ours", "external"}, eng \in Engine, eng.fanouts <= 2,
         EngineCounted, KindIsTrue, EngineStep
  PROVE  /\ kind' \in {"off", "ours", "external"}
         /\ eng' \in Engine /\ eng'.fanouts <= 2
         /\ EngineCounted' /\ KindIsTrue'
<1>1. CASE kind' = kind /\ eng' = eng /\ (ended' = ended \/ ended' = "left")
  BY <1>1 DEF EngineCounted, KindIsTrue
<1>2. CASE /\ kind # "ours" /\ kind' \in {"external", "off"} /\ eng' = eng /\ ended' = ended
  BY <1>2 DEF EngineCounted, KindIsTrue
<1>3. CASE /\ kind = "off" /\ ended = "no" /\ Start /\ (remote => Top = Confirm("bind"))
           /\ ended' = ended
  <2>1. ~ eng.up BY <1>3 DEF KindIsTrue
  <2>2. /\ eng' \in Engine /\ eng'.fanouts = eng.fanouts + 1 /\ eng'.up
        /\ eng'.pump = eng.pump
    <3> DEFINE n == eng.fanouts + 1
               b == IF remote THEN "beyond" ELSE "loopback"
    <3>1. n \in Nat /\ b \in {"none", "loopback", "beyond"} BY DEF Engine
    <3>2. eng' = [eng EXCEPT !.up = TRUE, !.fanouts = n, !.bound = b] BY <1>3 DEF Start
    <3> HIDE DEF n, b
    <3>3. eng' \in Engine /\ eng'.fanouts = n /\ eng'.up /\ eng'.pump = eng.pump
      BY <3>1, <3>2 DEF Engine
    <3> QED BY <3>3 DEF n
  <2>3. eng.fanouts = IF eng.pump THEN 0 ELSE 1 BY <2>1 DEF EngineCounted
  <2> QED BY <1>3, <2>2, <2>3 DEF Start, EngineCounted, KindIsTrue
<1>4. CASE ended = "no" /\ StopEngine
  <2>1. CASE kind = "ours" /\ eng.pump /\ Shutdown /\ kind' = "off"
    <3>1. /\ eng' \in Engine /\ eng'.fanouts = eng.fanouts /\ ~ eng'.up /\ ~ eng'.pump
      BY <2>1 DEF Shutdown, Engine
    <3>2. eng.up BY <1>4, <2>1 DEF KindIsTrue
    <3> QED BY <2>1, <3>1, <3>2 DEF EngineCounted, KindIsTrue
  <2>2. CASE kind = "ours" /\ ~ eng.pump /\ Shutdown /\ kind' = "off"
    BY <2>2 DEF Shutdown, EngineCounted, KindIsTrue
  <2>3. CASE kind # "ours" /\ kind' = "off" /\ UNCHANGED <<eng, instance, ended>>
    BY <2>3 DEF EngineCounted, KindIsTrue
  <2> QED BY <1>4, <2>1, <2>2, <2>3 DEF StopEngine
<1> QED BY <1>1, <1>2, <1>3, <1>4 DEF EngineStep

LEMMA LauncherStep == LauncherIInv /\ [Next]_vars => LauncherIInv'
<1>1. ASSUME LauncherIInv, Next PROVE LauncherIInv'
  <2>1. /\ TypeOK /\ ScreensInPlace /\ AttemptsInPlace /\ EngineCounted /\ KindIsTrue
        /\ stack \in Seq(Screen) /\ Len(stack) \in 1..2 /\ worker \in [Workers -> Attempt]
        /\ kind \in {"off", "ours", "external"} /\ eng \in Engine /\ eng.fanouts <= 2
    BY <1>1 DEF LauncherIInv, TypeOK
  <2>2. StackStep BY <1>1, <2>1, StackSteps
  <2>3. stack' \in Seq(Screen) /\ Len(stack') \in 1..2 /\ ScreensInPlace'
    BY <2>1, <2>2, StackKept
  <2>4. worker' \in [Workers -> Attempt] /\ AttemptsInPlace'
    BY <1>1, <2>1, WorkerSteps, WorkersKept
  <2>5. /\ kind' \in {"off", "ours", "external"} /\ eng' \in Engine /\ eng'.fanouts <= 2
        /\ EngineCounted' /\ KindIsTrue'
    BY <1>1, <2>1, EngineSteps, EngineKept
  <2>6. TypeOK' BY <1>1, <2>1, <2>3, <2>4, <2>5, OtherTypes DEF TypeOK
  <2> QED BY <2>3, <2>4, <2>5, <2>6 DEF LauncherIInv
<1>2. ASSUME LauncherIInv, UNCHANGED vars PROVE LauncherIInv'
  BY <1>2 DEF LauncherIInv, vars, engine, loop, TypeOK, ScreensInPlace, AttemptsInPlace,
              EngineCounted, KindIsTrue, Top, Depth, Confirm
<1> QED BY <1>1, <1>2

\* The stack never holds more than two screens and the confirmation of a deletion lies on
\* the connections screen it is about (App.stack, Push and Pop of tui.go), a goroutine has
\* the screen that asked, and the engine leaves at most one fan-out goroutine behind.
THEOREM LauncherInvariant == Spec => []LauncherIInv
<1> QED BY LauncherInit, LauncherStep, PTL DEF Spec

\* The launcher never takes its own engine for a foreign or a stopped one, nor shows an
\* engine as running that is not (launcher.kind, startEngine, stopEngine, probeExternal).
THEOREM KindInvariant == Spec => []KindIsTrue
<1>1. LauncherIInv => KindIsTrue BY DEF LauncherIInv
<1> QED BY <1>1, LauncherInvariant, PTL

\* The trust prompt takes the place of the connections screen that asked and of no other,
\* whatever the user did since the answer came (SetScreenIfTop).
THEOREM PromptsInPlace == Spec => PromptOnItsOwnScreen
<1>1. ASSUME LauncherIInv, Next
      PROVE  Top.kind # "trust" /\ Top'.kind = "trust"
               => \E w \in Workers : /\ Top = Conns(worker[w].screen)
                                     /\ worker[w].op = "connect" /\ worker[w].answer = "unknown"
                                     /\ worker'[w] = Idle
  <2>1. /\ ScreensInPlace /\ AttemptsInPlace
        /\ stack \in Seq(Screen) /\ Len(stack) \in 1..2 /\ worker \in [Workers -> Attempt]
    BY <1>1 DEF LauncherIInv, TypeOK
  <2>2. StackStep BY <1>1, <2>1, StackSteps
  <2>3. Top.kind # "trust" /\ Top'.kind = "trust"
          => \E w \in Workers : /\ worker[w].pc = "prompt" /\ Top = Conns(worker[w].screen)
                                /\ worker'[w] = Idle
    BY <2>1, <2>2, StackKept
  <2> QED BY <2>1, <2>3 DEF AttemptsInPlace
<1>2. LauncherIInv /\ [Next]_vars =>
        [Top.kind # "trust" /\ Top'.kind = "trust"
         => \E w \in Workers : /\ Top = Conns(worker[w].screen)
                               /\ worker[w].op = "connect" /\ worker[w].answer = "unknown"
                               /\ worker'[w] = Idle]_vars
  BY <1>1
<1> QED BY <1>2, LauncherInvariant, PTL DEF Spec, PromptOnItsOwnScreen

\* The engine comes to listen beyond loopback only out of the dialog that asks for it
\* (doStart, the Yes of the bind confirmation), though the setting may change meanwhile.
THEOREM BindsAreConfirmed == Spec => BeyondIsConfirmed
<1> DEFINE A == ~eng.up /\ eng'.up /\ eng'.bound = "beyond" => Top = Confirm("bind")
<1>1. LauncherIInv /\ [Next]_vars => [A]_vars
  <2> SUFFICES ASSUME LauncherIInv, Next PROVE A
    OBVIOUS
  <2>1. stack \in Seq(Screen) /\ Len(stack) \in 1..2 /\ eng \in Engine
    BY DEF LauncherIInv, TypeOK
  <2>2. EngineStep BY <2>1, EngineSteps
  <2>3. CASE Start /\ (remote => Top = Confirm("bind"))
    <3>1. eng'.bound = IF remote THEN "beyond" ELSE "loopback" BY <2>1, <2>3 DEF Start, Engine
    <3> QED BY <2>3, <3>1
  <2>4. CASE eng' = eng BY <2>4
  <2>5. CASE StopEngine
    <3>1. eng' = eng \/ ~ eng'.up BY <2>1, <2>5 DEF StopEngine, Shutdown, Engine
    <3> QED BY <3>1
  <2> QED BY <2>2, <2>3, <2>4, <2>5 DEF EngineStep
<1> QED BY <1>1, LauncherInvariant, PTL DEF Spec, BeyondIsConfirmed
==================================================================================
