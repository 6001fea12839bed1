---------------------------- MODULE FtpControlProofs ----------------------------
(***************************************************************************)
(* Proofs about FtpControl for every number of goroutines that hold the    *)
(* client, whatever methods they call and whatever goes wrong: the control *)
(* connection stays in step.                                               *)
(*                                                                         *)
(* While calls do not overlap and transfers do not fail, one user at most  *)
(* is in a call, and what is on the wires is a function of its step        *)
(* (Underway).  Which steps may follow which is a matter of the scripts    *)
(* (Scripts), and that a closed connection carries nothing, of the         *)
(* client's lifetime (Lifetime).                                           *)
(***************************************************************************)
EXTENDS FtpControl, SequenceTheorems, TLAPS

\* The last command of a user, as it travels.
Own(u) == [by |-> u, verb |-> verb[u]]

\* What may be under way for one command c: it is asked and not answered, it
\* is answered, its transfer is accepted and that reply unread, or the transfer
\* goes on.
Pending(c)   == asked = <<c>> /\ replies = <<>> /\ transfer = NoTransfer
Told(c, ok)  == asked = <<>> /\ replies = <<Reply(c, ok)>> /\ transfer = NoTransfer
Answered(c)  == \E ok \in BOOLEAN : Told(c, ok)
Accepting(c) == /\ asked = <<>> /\ replies = <<Reply(c, TRUE)>>
                /\ transfer = c /\ data = "none"
Serving(c)   == asked = <<>> /\ replies = <<>> /\ transfer = c

\* The same for an ABOR a that follows the data command c.
Aborting(c, a) ==
  \/ Pending(a) \/ Answered(a)
  \/ asked = <<a>> /\ replies = <<>> /\ transfer = c
  \/ /\ asked = <<a>> /\ transfer = NoTransfer
     /\ \E ok \in BOOLEAN : replies = <<Reply(c, ok)>>
  \/ /\ asked = <<>> /\ transfer = NoTransfer
     /\ \E ok, last \in BOOLEAN : replies = <<Reply(c, ok), Reply(a, last)>>

\* What may be under way while user u is the only one in a call.
Underway(u) ==
  \/ Quiet
  \/ /\ pc[u] = "reply" /\ verb[u] # "ABOR"
     /\ \/ Pending(Own(u)) \/ Told(Own(u), FALSE)
        \/ verb[u] \notin DataVerbs /\ Told(Own(u), TRUE)
        \/ verb[u] \in DataVerbs /\ Accepting(Own(u))
  \/ pc[u] = "dial" /\ Serving(Own(u)) /\ data = "none"
  \/ pc[u] \in {"data", "final"} /\ (Serving(Own(u)) \/ Answered(Own(u)))
  \/ /\ pc[u] = "send" /\ verb[u] = "ABOR"
     /\ \E c \in Commands : c.by = u /\ (Serving(c) \/ Answered(c))
  \/ /\ pc[u] = "reply" /\ verb[u] = "ABOR"
     /\ \E c \in Commands : c.by = u /\ Aborting(c, Own(u))
  \/ pc[u] = "drain" /\ verb[u] = "ABOR" /\ (Pending(Own(u)) \/ Answered(Own(u)))

\* A sound client has one user in a call, and nothing under way but for it.
OneCall ==
  sound => \E u \in Users : /\ \A w \in Users \ {u} : pc[w] = "idle"
                            /\ Underway(u)

\* Where a method may be: the login keeps to its own commands, only the close
\* of a client reaches its end, listings belong to the methods that list, and
\* a sound client aborts previews alone.
LoginPlaces == {"send", "reply", "ready", "shut", "forget"}
Logging(u) == op[u] = "connect" /\ pc[u] # "idle"
Scripts ==
  \A u \in Users :
    /\ Logging(u) => pc[u] \in LoginPlaces /\ verb[u] \in LoginVerbs \cup {"QUIT"}
    /\ pc[u] = "ready" => op[u] = "connect"
    /\ pc[u] \in {"shut", "forget"} => op[u] \in {"connect", "close"}
    /\ pc[u] \in {"send", "reply"} /\ verb[u] = "QUIT" => op[u] \in {"connect", "close"}
    /\ pc[u] \in {"send", "reply", "dial", "data"} /\ verb[u] \in Listings
         => op[u] \notin {"connect", "upload", "download", "partial"}
    /\ sound /\ pc[u] \in {"send", "reply"} /\ verb[u] = "ABOR" => op[u] = "partial"

\* Calls begin after Connect and end with Close, and a closed connection has
\* nothing under way.
Lifetime ==
  /\ \A u \in Users :
       /\ Logging(u) => ~ready /\ conn # "nil" /\ \A w \in Users \ {u} : pc[w] = "idle"
       /\ op[u] = "close" /\ pc[u] # "idle" => ~ready
       /\ pc[u] = "forget" => conn # "open"
  /\ conn # "open" => Quiet

\* The inductive invariant.
ControlIInv == TypeOK /\ Scripts /\ Lifetime /\ OneCall

------------------------------------------------------------------------------
(* The scripts                                                             *)

\* The login goes on with its own commands or comes to its end.
LEMMA LoginGoesOn ==
  \A v \in LoginVerbs : Login[v] \subseteq LoginVerbs \cup {"QUIT", "ready"}
BY DEF Login, LoginVerbs

\* What may follow a command, accepted or refused: no second command of the
\* same call ends the connection or aborts, a login stays a login, and after an
\* ABOR the second reply is read.
LEMMA NextStep ==
  ASSUME TypeOK, Scripts, NEW u \in Users, pc[u] \in {"send", "reply"},
         NEW next \in Accepted(u) \cup Refused(u)
  PROVE  /\ next \in Verbs \cup {"dial", "cleanup", "idle", "ready", "shut", "deadline", "drain"}
         /\ next # "ABOR"
         /\ op[u] = "connect" => next \in LoginVerbs \cup {"QUIT", "ready", "shut"}
         /\ op[u] # "connect" => next \notin {"QUIT", "ready"}
         /\ next = "shut" => verb[u] = "QUIT"
         /\ next \in Listings => op[u] \notin {"connect", "upload", "download", "partial"}
         /\ sound /\ verb[u] = "ABOR" => next = "drain"
<1>1. CASE op[u] = "connect"
  <2>1. verb[u] \in LoginVerbs \cup {"QUIT"}
    BY <1>1 DEF Scripts, Logging
  <2>2. CASE verb[u] = "QUIT"
    <3>1. next = "shut"
      BY <1>1, <2>2 DEF Accepted, Refused, Passive, DataVerbs, Listings, Required
    <3> QED
      BY <1>1, <2>2, <3>1 DEF Listings
  <2>3. CASE verb[u] # "QUIT"
    <3>1. Accepted(u) = Login[verb[u]]
      BY <1>1, <2>1, <2>3
         DEF Accepted, Passive, DataVerbs, Listings, LoginVerbs
    <3>2. Refused(u) \in {{"QUIT"}, {"ready"}, Login[verb[u]]}
      BY <1>1, <2>1, <2>3 DEF Refused, Required, LoginVerbs
    <3>3. next \in LoginVerbs \cup {"QUIT", "ready"}
      BY <2>1, <2>3, <3>1, <3>2, LoginGoesOn
    <3> QED
      BY <1>1, <2>1, <2>3, <3>3 DEF Verbs, LoginVerbs, Listings
  <2> QED
    BY <2>2, <2>3
<1>2. CASE op[u] # "connect"
  <2>1. lister[u] \in Listings
    BY DEF TypeOK
  <2>2. CASE next \in Accepted(u)
    BY <1>2, <2>1, <2>2
       DEF Accepted, DataCommands, Passive, DataVerbs, Listings, Removals, Leave, AfterAbort,
           Verbs, LoginVerbs, TypeOK, Scripts
  <2>3. CASE next \in Refused(u)
    BY <1>2, <2>3
       DEF Refused, Leave, AfterAbort, Verbs, LoginVerbs, Passive, Listings, TypeOK, Scripts
  <2> QED
    BY <2>2, <2>3
<1> QED
  BY <1>1, <1>2

------------------------------------------------------------------------------
(* Types and scripts                                                       *)

\* What holds of users and connection, the wires apart.
Places == TypeOK /\ Scripts /\ Lifetime

\* A user goes on to a command or to a step of another kind.
LEMMA ContinueKeeps ==
  ASSUME TypeOK, NEW u \in Users, NEW next \in Verbs \cup Steps, Continue(u, next)
  PROVE  /\ pc' \in [Users -> Steps] /\ verb' \in [Users -> Verbs]
         /\ pc'[u] = IF next \in Verbs THEN "send" ELSE next
         /\ verb'[u] = IF next \in Verbs THEN next ELSE verb[u]
         /\ \A w \in Users \ {u} : pc'[w] = pc[w] /\ verb'[w] = verb[w]
BY DEF TypeOK, Continue, Steps

\* A method begins, while the session is in the table.
LEMMA UsersBegin ==
  ASSUME Places, NEW u \in Users, NEW o \in Calls, Begin(u, o)
  PROVE  Places'
<1> USE OpenerAssumption, CallsAssumption
        DEF Places, TypeOK, Scripts, Lifetime, Quiet, Logging, Begin, Continue, Listed, wire,
            server
<1>1. o \in Methods /\ o # "connect"
  BY DEF Methods, Guarded
<1>2. /\ Opening["stat"] = "SIZE" /\ Opening["remove"] = "RMD" /\ Opening["close"] = "QUIT"
      /\ Methods \ Guarded = {"stat", "remove", "close"}
  BY DEF Methods, Guarded, Opening
<1>3. PICK next \in {"deadline", "SIZE", "RMD", "QUIT"} :
        Continue(u, next) /\ (next = "QUIT" => o = "close")
  <2>1. CASE o \in Guarded \/ (o = "remove" /\ Continue(u, "deadline"))
    BY <2>1, <1>2
  <2>2. CASE o \notin Guarded /\ Continue(u, Opening[o])
    BY <2>2, <1>1, <1>2
  <2> QED
    BY <2>1, <2>2
<1>4. next \in Verbs \cup Steps /\ (next \in Verbs <=> next # "deadline")
  BY DEF Verbs, Steps, Passive, DataVerbs, LoginVerbs, Listings
<1>5. TypeOK'
  <2>1. sound' \in BOOLEAN /\ ready' \in BOOLEAN
    BY Zenon
  <2>2. pc' \in [Users -> Steps] /\ verb' \in [Users -> Verbs]
    BY <1>3, <1>4, ContinueKeeps
  <2> QED
    BY <1>1, <2>1, <2>2
<1>6. Scripts'
  BY <1>1, <1>3, <1>4 DEF Listings
<1>7. Lifetime'
  BY <1>1, <1>3, <1>4
<1> QED
  BY <1>5, <1>6, <1>7

\* A command follows another, or the call leaves the control connection alone:
\* SetDeadline, both halves of cmd, and their failures.
LEMMA UsersCommands ==
  ASSUME Places, NEW u \in Users,
         SetDeadline(u) \/ Send(u) \/ Read(u) \/ ReadFails(u) \/ TimesOut(u)
  PROVE  Places'
<1> USE OpenerAssumption
        DEF Places, TypeOK, Scripts, Lifetime, Quiet, NoTransfer, Logging, LoginPlaces,
            socket, wire, server
<1> DEFINE afterwards ==
             Verbs \cup {"dial", "cleanup", "idle", "ready", "shut", "deadline", "drain"}
<1>0. /\ afterwards \subseteq Verbs \cup Steps /\ {"panicked", "reply", "send"} \subseteq Steps
      /\ afterwards \ Verbs
           = {"dial", "cleanup", "idle", "ready", "shut", "deadline", "drain"}
      /\ Verbs \cap Steps = {}
      /\ {"EPSV", "MKD", "RNFR", "SITE"} \subseteq Verbs
      /\ Listings \cap {"EPSV", "MKD", "RNFR", "SITE"} = {}
      /\ {"QUIT", "ABOR"} \cup LoginVerbs \cup Listings \subseteq Verbs
      /\ Listings \cap LoginVerbs = {} /\ {"QUIT", "ABOR"} \cap (Listings \cup LoginVerbs) = {}
  BY DEF Verbs, Steps, Passive, DataVerbs, LoginVerbs, Listings
<1>1. CASE SetDeadline(u)
  <2>1. PICK next \in {"panicked", "EPSV", "MKD", "RNFR", "SITE"} : Continue(u, next)
    BY <1>1 DEF SetDeadline, Opening
  <2>2. next \in Verbs \cup Steps
    BY <1>0, <2>1
  <2>3. pc' \in [Users -> Steps] /\ verb' \in [Users -> Verbs]
    BY <2>1, <2>2, ContinueKeeps
  <2>4. TypeOK'
    BY <1>1, <2>3 DEF SetDeadline
  <2>5. op[u] # "connect"
    BY <1>1 DEF SetDeadline
  <2>6. Scripts'
    BY <1>0, <1>1, <2>1, <2>5 DEF SetDeadline, Continue
  <2>7. Lifetime'
    BY <1>0, <1>1, <2>1, <2>5 DEF SetDeadline, Continue
  <2> QED
    BY <2>4, <2>6, <2>7
<1>2. ASSUME NEW next \in Accepted(u) \cup Refused(u), pc[u] \in {"send", "reply"},
             Continue(u, next), UNCHANGED <<ready, conn, op>>, sound' => sound
      PROVE  /\ Scripts' /\ pc' \in [Users -> Steps] /\ verb' \in [Users -> Verbs]
             /\ (conn # "open" => Quiet') => Lifetime'
  <2> DEFINE step == IF next \in Verbs THEN "send" ELSE next
             word == IF next \in Verbs THEN next ELSE verb[u]
  <2>1. next \in afterwards
    BY <1>2, NextStep
  <2>2. /\ pc' \in [Users -> Steps] /\ verb' \in [Users -> Verbs]
        /\ pc'[u] = step /\ verb'[u] = word
        /\ \A w \in Users \ {u} : pc'[w] = pc[w] /\ verb'[w] = verb[w]
    BY <1>0, <1>2, <2>1, ContinueKeeps
  <2>3. /\ step \in {"send", "dial", "cleanup", "idle", "ready", "shut", "deadline", "drain"}
        /\ step = "ready" => op[u] = "connect"
        /\ step = "shut" => op[u] \in {"connect", "close"}
    BY <1>0, <1>2, <2>1, NextStep
  <2>31. op[u] = "connect" => step \in LoginPlaces /\ word \in LoginVerbs \cup {"QUIT"}
    <3> SUFFICES ASSUME op[u] = "connect"
                 PROVE  step \in LoginPlaces /\ word \in LoginVerbs \cup {"QUIT"}
      OBVIOUS
    <3>1. next \in LoginVerbs \cup {"QUIT", "ready", "shut"}
      BY <1>2, NextStep
    <3>2. verb[u] \in LoginVerbs \cup {"QUIT"}
      BY <1>2
    <3> QED
      BY <1>0, <3>1, <3>2
  <2>4. step = "send" => /\ word # "ABOR"
                         /\ word = "QUIT" => op[u] = "connect"
                         /\ word \in Listings
                              => op[u] \notin {"connect", "upload", "download", "partial"}
    BY <1>0, <1>2, <2>1, NextStep
  <2>5. step # "send" => /\ word = verb[u]
                         /\ word \in Listings
                              => op[u] \notin {"connect", "upload", "download", "partial"}
    BY <1>0, <1>2, <2>1
  <2> HIDE DEF step, word, afterwards
  <2>6. Scripts'
    BY <1>2, <2>2, <2>3, <2>31, <2>4, <2>5
  <2>7. (conn # "open" => Quiet') => Lifetime'
    BY <1>2, <2>2, <2>3, <2>31
  <2> QED
    BY <2>2, <2>6, <2>7
<1>3. CASE Send(u)
  <2>1. CASE conn = "open"
    <3>1. Continue(u, "reply") /\ asked' = Append(asked, Own(u))
          /\ UNCHANGED <<socket, replies, server, op, lister, listed, sound>>
      BY <1>3, <2>1 DEF Send, Own
    <3>2. pc' = [pc EXCEPT ![u] = "reply"] /\ UNCHANGED verb
      BY <1>0, <3>1 DEF Continue
    <3>3. TypeOK'
      BY <1>0, <3>1, <3>2 DEF Own, Commands
    <3>4. Scripts'
      BY <1>3, <3>1, <3>2 DEF Send
    <3>5. Lifetime'
      BY <1>3, <2>1, <3>1, <3>2 DEF Send
    <3> QED
      BY <3>3, <3>4, <3>5
  <2>2. CASE conn # "open"
    <3>1. PICK next \in Refused(u) : Continue(u, next)
      BY <1>3, <2>2 DEF Send
    <3>2. UNCHANGED <<asked, socket, replies, server, op, lister, listed, sound>>
      BY <1>3, <2>2 DEF Send
    <3>3. Scripts' /\ pc' \in [Users -> Steps] /\ verb' \in [Users -> Verbs] /\ Lifetime'
      BY <1>2, <1>3, <3>1, <3>2 DEF Send
    <3> QED
      BY <3>2, <3>3
  <2> QED
    BY <2>1, <2>2
<1>4. CASE Read(u)
  <2>1. PICK next \in Accepted(u) \cup Refused(u) : Continue(u, next)
    BY <1>4 DEF Read
  <2>2. /\ pc[u] = "reply" /\ conn = "open" /\ replies' = Tail(replies) /\ replies # <<>>
        /\ mlsd' \in BOOLEAN
        /\ UNCHANGED <<conn, armed, ready, asked, server, op, lister, listed, sound>>
    BY <1>4 DEF Read
  <2>3. Scripts' /\ pc' \in [Users -> Steps] /\ verb' \in [Users -> Verbs] /\ Lifetime'
    BY <1>2, <2>1, <2>2
  <2>4. replies' \in Seq([to : Commands, ok : BOOLEAN])
    BY <2>2, HeadTailProperties
  <2> QED
    BY <2>2, <2>3, <2>4
<1>5. ASSUME Waits(u), conn # "open" \/ sound' = FALSE,
             \E next \in AfterError(u) : Continue(u, next),
             UNCHANGED <<socket, wire, server, op, lister, listed>>,
             sound' \in BOOLEAN, sound' => sound
      PROVE  Places'
  <2>0. /\ UNCHANGED <<ready, conn, op, asked, replies, transfer>>
        /\ sound' \in BOOLEAN /\ (sound' => sound)
    BY <1>5
  <2>1. Scripts' /\ pc' \in [Users -> Steps] /\ verb' \in [Users -> Verbs] /\ Lifetime'
    <3>1. CASE pc[u] = "reply"
      <4>1. PICK next \in Accepted(u) \cup Refused(u) : Continue(u, next)
        BY <1>5, <3>1 DEF AfterError
      <4> QED
        BY <1>2, <2>0, <3>1, <4>1
    <3>2. CASE pc[u] # "reply"
      <4>1. Continue(u, "cleanup") /\ pc[u] \in {"final", "drain"}
        BY <1>5, <3>2 DEF AfterError, Waits
      <4>2. "cleanup" \notin Verbs /\ "cleanup" \in Steps
        BY <1>0 DEF Steps
      <4>3. pc' = [pc EXCEPT ![u] = "cleanup"] /\ UNCHANGED verb
        BY <4>1, <4>2 DEF Continue
      <4>4. op[u] # "connect"
        BY <4>1
      <4>5. Scripts'
        BY <2>0, <4>1, <4>3, <4>4
      <4>6. Lifetime'
        BY <2>0, <4>1, <4>3, <4>4
      <4> QED
        BY <4>2, <4>3, <4>5, <4>6
    <3> QED
      BY <3>1, <3>2
  <2> QED
    BY <1>5, <2>1
<1>6. CASE ReadFails(u)
  BY <1>5, <1>6 DEF ReadFails
<1>7. CASE TimesOut(u)
  <2>1. sound' \in BOOLEAN /\ ~sound'
    BY <1>7, Zenon DEF TimesOut
  <2> QED
    BY <1>5, <1>7, <2>1 DEF TimesOut
<1> QED
  BY <1>1, <1>3, <1>4, <1>6, <1>7

\* A method that has left the control connection goes on with its transfer, to
\* its end, or back to a command.
LEMMA Passes ==
  ASSUME Places, NEW u \in Users, pc[u] \in {"dial", "data", "final", "drain", "cleanup"},
         NEW next \in {"data", "final", "cleanup", "deadline", "idle", "panicked",
                       "ABOR", "DELE", "RMD"},
         Continue(u, next), next = "data" => pc[u] = "dial",
         next = "ABOR" => (sound' => op[u] = "partial"),
         UNCHANGED <<ready, conn, op>>, sound' \in BOOLEAN, sound' => sound,
         conn # "open" => Quiet'
  PROVE  /\ Scripts' /\ Lifetime'
         /\ pc' \in [Users -> Steps] /\ verb' \in [Users -> Verbs]
<1> USE OpenerAssumption
        DEF Places, TypeOK, Scripts, Lifetime, Quiet, NoTransfer, Logging, LoginPlaces
<1> DEFINE command == next \in {"ABOR", "DELE", "RMD"}
<1>1. /\ next \in Verbs <=> command
      /\ next \in Verbs \cup Steps
      /\ command => next \notin Listings
  BY DEF Verbs, Steps, Passive, DataVerbs, LoginVerbs, Listings
<1>2. /\ pc' \in [Users -> Steps] /\ verb' \in [Users -> Verbs]
      /\ pc'[u] = IF command THEN "send" ELSE next
      /\ verb'[u] = IF command THEN next ELSE verb[u]
      /\ \A w \in Users \ {u} : pc'[w] = pc[w] /\ verb'[w] = verb[w]
  BY <1>1, ContinueKeeps
<1>3. op[u] # "connect"
  OBVIOUS
<1>4. Scripts'
  BY <1>1, <1>2, <1>3
<1>5. Lifetime'
  BY <1>2, <1>3
<1> QED
  BY <1>2, <1>4, <1>5

\* The data connection and what follows it.
LEMMA UsersData ==
  ASSUME Places, NEW u \in Users,
         \/ Dial(u) \/ DialFails(u) \/ Transferred(u) \/ TransferFails(u)
         \/ Final(u) \/ Drain(u) \/ Cleanup(u)
  PROVE  Places'
<1> USE OpenerAssumption DEF socket, wire, server, Quiet, NoTransfer
<1>1. TypeOK /\ (conn # "open" => Quiet)
  BY DEF Places, Lifetime
<1>2. CASE Dial(u)
  <2>1. UNCHANGED <<ready, conn, op, asked, replies, transfer, sound>>
    BY <1>2 DEF Dial
  <2>2. Scripts' /\ Lifetime' /\ pc' \in [Users -> Steps] /\ verb' \in [Users -> Verbs]
    BY <1>1, <1>2, <2>1, Passes DEF Dial, TypeOK
  <2> QED
    BY <1>1, <1>2, <2>2 DEF Dial, Places, TypeOK
<1>3. CASE DialFails(u)
  <2>1. sound' \in BOOLEAN /\ ~sound'
    BY <1>3, Zenon DEF DialFails
  <2>2. UNCHANGED <<ready, conn, op, asked, replies, transfer>>
    BY <1>3 DEF DialFails
  <2>3. Scripts' /\ Lifetime' /\ pc' \in [Users -> Steps] /\ verb' \in [Users -> Verbs]
    BY <1>1, <1>3, <2>1, <2>2, Passes DEF DialFails
  <2> QED
    BY <1>1, <1>3, <2>1, <2>3 DEF DialFails, Places, TypeOK
<1>4. CASE Transferred(u)
  <2>1. UNCHANGED <<ready, conn, op, asked, replies, transfer, sound>>
    BY <1>4 DEF Transferred
  <2>2. Scripts' /\ Lifetime' /\ pc' \in [Users -> Steps] /\ verb' \in [Users -> Verbs]
    BY <1>1, <1>4, <2>1, Passes DEF Transferred, AfterData, TypeOK
  <2> QED
    BY <1>1, <1>4, <2>2 DEF Transferred, HangUp, Places, TypeOK
<1>5. CASE TransferFails(u)
  <2>1. sound' \in BOOLEAN
    BY <1>5, Zenon DEF TransferFails
  <2>2. /\ sound' => sound /\ verb[u] = "MLSD"
        /\ UNCHANGED <<ready, conn, op, asked, replies, transfer>>
    BY <1>5 DEF TransferFails
  <2>3. PICK next \in {"ABOR", "final", "cleanup"} :
          Continue(u, next) /\ (next = "ABOR" => op[u] = "upload")
    BY <1>5 DEF TransferFails
  <2>4. next = "ABOR" => ~sound'
    BY <1>5, <2>2, <2>3 DEF TransferFails, Places, Scripts, Listings
  <2>5. Scripts' /\ Lifetime' /\ pc' \in [Users -> Steps] /\ verb' \in [Users -> Verbs]
    BY <1>1, <1>5, <2>1, <2>2, <2>3, <2>4, Passes DEF TransferFails
  <2> QED
    BY <1>1, <1>5, <2>1, <2>5 DEF TransferFails, HangUp, Places, TypeOK
<1>6. CASE Final(u)
  <2>1. /\ UNCHANGED <<ready, conn, op, sound>> /\ conn = "open" /\ replies' = Tail(replies)
        /\ replies # <<>> /\ listed' \in [Users -> BOOLEAN]
    BY <1>1, <1>6 DEF Final, Listed, TypeOK
  <2>2. Scripts' /\ Lifetime' /\ pc' \in [Users -> Steps] /\ verb' \in [Users -> Verbs]
    BY <1>1, <1>6, <2>1, Passes DEF Final, TypeOK
  <2>3. replies' \in Seq([to : Commands, ok : BOOLEAN])
    BY <1>1, <2>1, HeadTailProperties DEF TypeOK
  <2> QED
    BY <1>1, <1>6, <2>1, <2>2, <2>3 DEF Final, Places, TypeOK
<1>7. CASE Drain(u)
  <2>1. /\ UNCHANGED <<ready, conn, op, sound>> /\ conn = "open" /\ replies' = Tail(replies)
        /\ replies # <<>>
    BY <1>7 DEF Drain
  <2>2. Scripts' /\ Lifetime' /\ pc' \in [Users -> Steps] /\ verb' \in [Users -> Verbs]
    BY <1>1, <1>7, <2>1, Passes DEF Drain, TypeOK
  <2>3. replies' \in Seq([to : Commands, ok : BOOLEAN])
    BY <1>1, <2>1, HeadTailProperties DEF TypeOK
  <2> QED
    BY <1>1, <1>7, <2>1, <2>2, <2>3 DEF Drain, Places, TypeOK
<1>8. CASE Cleanup(u)
  <2>1. /\ UNCHANGED <<ready, conn, op, asked, replies, transfer, sound>>
    BY <1>8 DEF Cleanup
  <2>2. PICK next \in {"panicked", "deadline", "DELE", "RMD", "idle"} : Continue(u, next)
    BY <1>8 DEF Cleanup, AfterCleanup, Removals
  <2>3. Scripts' /\ Lifetime' /\ pc' \in [Users -> Steps] /\ verb' \in [Users -> Verbs]
    BY <1>1, <1>8, <2>1, <2>2, Passes DEF Cleanup, TypeOK
  <2>4. lister' \in [Users -> Listings] /\ armed' \in BOOLEAN
    BY <1>1, <1>8 DEF Cleanup, TypeOK, Listings
  <2>5. /\ data' \in {"none", "open", "ended"} /\ listed' \in [Users -> BOOLEAN]
        /\ UNCHANGED <<mlsd, listening>>
    BY <1>1, <1>8 DEF Cleanup, HangUp, Listed, TypeOK
  <2> QED
    BY <1>1, <2>1, <2>3, <2>4, <2>5 DEF Places, TypeOK
<1> QED
  BY <1>2, <1>3, <1>4, <1>5, <1>6, <1>7, <1>8

\* The login ends, and the client is closed.
LEMMA UsersEnds ==
  ASSUME Places, NEW u \in Users, Connected(u) \/ Shut(u) \/ Forget(u)
  PROVE  Places'
<1> USE OpenerAssumption
        DEF Places, TypeOK, Scripts, Lifetime, Quiet, NoTransfer, Logging, LoginPlaces,
            socket, wire, server
<1>0. {"idle", "forget", "panicked"} \subseteq Steps \ Verbs
  BY DEF Verbs, Steps, Passive, DataVerbs, LoginVerbs, Listings
<1>1. CASE Connected(u)
  <2>1. op[u] = "connect" /\ Logging(u) /\ conn # "nil" /\ \A w \in Users \ {u} : pc[w] = "idle"
    BY <1>1 DEF Connected
  <2>2. pc' = [pc EXCEPT ![u] = "idle"] /\ UNCHANGED verb
    BY <1>0, <1>1 DEF Connected, Continue
  <2>3. lister' \in [Users -> Listings]
    BY <1>1 DEF Connected, Listings
  <2>4. TypeOK'
    BY <1>0, <1>1, <2>1, <2>2, <2>3 DEF Connected
  <2>5. Scripts' /\ Lifetime'
    BY <1>1, <2>1, <2>2 DEF Connected
  <2> QED
    BY <2>4, <2>5
<1>2. CASE Shut(u)
  <2>1. /\ op[u] \in {"connect", "close"} /\ pc[u] = "shut" /\ ~ready
        /\ op[u] = "connect" => conn # "nil"
    BY <1>2 DEF Shut
  <2>2. PICK next \in {"forget", "panicked"} :
          /\ pc' = [pc EXCEPT ![u] = next] /\ UNCHANGED verb
          /\ next = "panicked" => conn = "nil" /\ conn' = conn
          /\ next = "forget" => conn # "nil" /\ conn' = "shut"
    BY <1>0, <1>2 DEF Shut, Continue
  <2>3. /\ asked' = <<>> /\ replies' = <<>> /\ transfer' = NoTransfer
        /\ UNCHANGED <<armed, ready, mlsd, listening, data, op, lister, listed, sound>>
    BY <1>2 DEF Shut
  <2>4. TypeOK'
    BY <1>0, <2>1, <2>2, <2>3
  <2>5. Scripts' /\ Lifetime'
    BY <2>1, <2>2, <2>3
  <2> QED
    BY <2>4, <2>5
<1>3. CASE Forget(u)
  <2>1. /\ op[u] \in {"connect", "close"} /\ pc[u] = "forget" /\ ~ready /\ conn # "open"
        /\ \A w \in Users \ {u} : ~Logging(w)
    BY <1>3 DEF Forget
  <2>2. pc' = [pc EXCEPT ![u] = "idle"] /\ UNCHANGED verb
    BY <1>0, <1>3 DEF Forget, Continue
  <2>3. /\ conn' = "nil"
        /\ UNCHANGED <<armed, ready, mlsd, wire, server, op, lister, listed, sound>>
    BY <1>3 DEF Forget
  <2>4. TypeOK'
    BY <1>0, <2>1, <2>2, <2>3
  <2>5. Scripts' /\ Lifetime'
    BY <2>1, <2>2, <2>3
  <2> QED
    BY <2>4, <2>5
<1> QED
  BY <1>1, <1>2, <1>3

\* One reply, and two, are a sequence of replies.
LEMMA ShortSequences ==
  ASSUME NEW S, NEW a \in S, NEW b \in S
  PROVE  <<a>> \in Seq(S) /\ <<a, b>> \in Seq(S)
OBVIOUS

\* The server changes the wire and its own data connection alone.
LEMMA UsersServer ==
  ASSUME Places, Server
  PROVE  Places'
<1> USE OpenerAssumption DEF Places, Quiet, NoTransfer, socket, wire, server
<1>1. UNCHANGED <<socket, pc, op, verb, lister, listed, sound>>
  BY DEF Server, Answer, AnswerData, EndTransfer, GiveUp, Abort
<1>2. conn = "open"
  BY DEF Server, Answer, AnswerData, EndTransfer, GiveUp, Abort, Lifetime
<1>3. Scripts' /\ Lifetime'
  BY <1>1, <1>2 DEF Scripts, Lifetime, Logging
<1>4. \A c \in Commands, ok \in BOOLEAN : Reply(c, ok) \in [to : Commands, ok : BOOLEAN]
  BY DEF Reply
<1>5. asked # <<>> => Head(asked) \in Commands /\ Tail(asked) \in Seq(Commands)
  BY HeadTailProperties DEF TypeOK
<1>6. transfer # NoTransfer => transfer \in Commands /\ transfer.verb \in DataVerbs
  BY DEF TypeOK
<1>7. \A c \in Commands : c.by \in Users
  BY DEF Commands
<1>8. \A c \in Commands, ok \in BOOLEAN :
        Append(replies, Reply(c, ok)) \in Seq([to : Commands, ok : BOOLEAN])
  BY <1>4, AppendProperties DEF TypeOK
<1>9. /\ asked' \in Seq(Commands) /\ replies' \in Seq([to : Commands, ok : BOOLEAN])
      /\ listening' \in Users \cup {None} /\ data' \in {"none", "open", "ended"}
      /\ transfer' = NoTransfer \/ (transfer' \in Commands /\ transfer'.verb \in DataVerbs)
  <2> USE DEF TypeOK
  <2> HIDE DEF NoTransfer
  <2>1. CASE Answer
    BY <1>5, <1>7, <1>8, <2>1 DEF Answer
  <2>2. CASE AnswerData
    BY <1>5, <1>7, <1>8, <2>2 DEF AnswerData
  <2>3. CASE EndTransfer \/ GiveUp
    BY <1>6, <1>8, <2>3 DEF EndTransfer, GiveUp
  <2>4. CASE Abort
    <3>1. CASE transfer = NoTransfer
      BY <1>5, <1>8, <2>4, <3>1 DEF Abort
    <3>2. CASE transfer # NoTransfer
      <4> DEFINE R == [to : Commands, ok : BOOLEAN]
                 last == <<Reply(transfer, FALSE), Reply(Head(asked), TRUE)>>
      <4>1. Reply(transfer, FALSE) \in R /\ Reply(Head(asked), TRUE) \in R
        BY <1>4, <1>5, <1>6, <2>4, <3>2 DEF Abort
      <4>2. last \in Seq(R)
        BY <4>1, ShortSequences
      <4>3. replies' = replies \o last
        BY <2>4, <3>2 DEF Abort
      <4>4. replies \in Seq(R)
        OBVIOUS
      <4> HIDE DEF R, last
      <4>5. replies' \in Seq(R)
        BY <4>2, <4>3, <4>4, ConcatProperties
      <4> QED
        BY <1>5, <2>4, <3>2, <4>5 DEF Abort, R
    <3> QED
      BY <3>1, <3>2
  <2> QED
    BY <2>1, <2>2, <2>3, <2>4 DEF Server
<1> QED
  BY <1>1, <1>3, <1>9 DEF TypeOK

\* The connection breaks.
LEMMA UsersDrop ==
  ASSUME Places, Drop
  PROVE  Places'
BY DEF Places, TypeOK, Scripts, Lifetime, Quiet, NoTransfer, Logging, Drop

\* Every step keeps the types, the scripts and the sessions.
LEMMA UsersStep ==
  ASSUME Places, [Next]_vars
  PROVE  Places'
<1>1. ASSUME NEW u \in Users, Step(u) \/ TimesOut(u)
      PROVE  Places'
  BY <1>1, UsersCommands, UsersData, UsersEnds DEF Step
<1>2. ASSUME NEW u \in Users, NEW o \in Calls, Begin(u, o)
      PROVE  Places'
  BY <1>2, UsersBegin
<1>3. CASE UNCHANGED vars
  BY <1>3 DEF vars, socket, wire, server, Places, TypeOK, Scripts, Lifetime, Quiet, NoTransfer,
              Logging
<1> QED
  BY <1>1, <1>2, <1>3, UsersServer, UsersDrop DEF Next

------------------------------------------------------------------------------
(* What is under way                                                       *)

\* Short wires.
LEMMA Wires ==
  ASSUME NEW x, NEW y
  PROVE  /\ <<x>> # <<>> /\ Head(<<x>>) = x /\ Tail(<<x>>) = <<>>
         /\ <<x, y>> # <<>> /\ Head(<<x, y>>) = x /\ Tail(<<x, y>>) = <<y>>
         /\ Append(<<>>, x) = <<x>> /\ Append(<<x>>, y) = <<x, y>>
         /\ <<>> \o <<x, y>> = <<x, y>>
<1>1. <<x, y>> \in Seq({x, y})
  OBVIOUS
<1>2. <<>> \o <<x, y>> = <<x, y>>
  BY <1>1, ConcatEmptySeq
<1>3. <<x>> # <<>> /\ Head(<<x>>) = x /\ Tail(<<x>>) = <<>>
  OBVIOUS
<1>4. <<x, y>> # <<>> /\ Head(<<x, y>>) = x
  OBVIOUS
<1>5. Tail(<<x, y>>) = <<y>>
  OBVIOUS
<1>6. Append(<<>>, x) = <<x>>
  OBVIOUS
<1>7. Append(<<x>>, y) = <<x, y>>
  <2> DEFINE S == {x, y}
             q == Append(<<x>>, y)
             r == <<x, y>>
  <2>1. <<x>> \in Seq(S) /\ Len(<<x>>) = 1 /\ <<x>>[1] = x /\ y \in S
    OBVIOUS
  <2>2. r \in Seq(S) /\ Len(r) = 2 /\ r[1] = x /\ r[2] = y
    OBVIOUS
  <2>3. q \in Seq(S) /\ Len(q) = 2 /\ q[1] = x /\ q[2] = y
    BY <2>1, AppendProperties
  <2> HIDE DEF q, r, S
  <2>4. \A i \in 1 .. 2 : q[i] = r[i]
    BY <2>2, <2>3
  <2>5. q = r
    BY <2>2, <2>3, <2>4, SeqEqual
  <2> QED
    BY <2>5 DEF q, r
<1> QED
  BY <1>2, <1>3, <1>4, <1>5, <1>6, <1>7

\* Where nothing is under way but for a user's command, nothing is under way at
\* the other steps.
LEMMA QuietElsewhere ==
  ASSUME NEW u \in Users, Underway(u),
         pc[u] \notin {"reply", "dial", "data", "final", "drain"},
         pc[u] = "send" => verb[u] # "ABOR"
  PROVE  Quiet
BY DEF Underway

\* A command goes out after everything before it was read; an ABOR after the
\* data command it aborts.
LEMMA UnderwaySend ==
  ASSUME Places, sound, NEW u \in Users, Underway(u), Send(u)
  PROVE  Underway(u)'
<1> USE DEF Quiet, NoTransfer
<1>1. CASE conn # "open"
  BY <1>1 DEF Send, socket, server, Places, Lifetime, Underway
<1>2. CASE conn = "open"
  <2>1. /\ asked' = Append(asked, Own(u)) /\ pc[u] = "send" /\ pc'[u] = "reply"
        /\ UNCHANGED <<replies, transfer, data, verb>>
    BY <1>2 DEF Send, Own, Continue, Verbs, Passive, DataVerbs, LoginVerbs, Listings, server,
                Places, TypeOK
  <2>2. Own(u)' = Own(u) /\ Own(u) \in Commands /\ Own(u).by = u
    BY <2>1 DEF Own, Commands, Places, TypeOK
  <2>3. CASE verb[u] # "ABOR"
    <3>1. asked' = <<Own(u)>> /\ replies = <<>> /\ transfer = NoTransfer
      BY <2>1, <2>3, QuietElsewhere, Wires
    <3>2. Pending(Own(u))'
      BY <2>1, <2>2, <3>1 DEF Pending
    <3> QED
      BY <2>1, <2>3, <3>2 DEF Underway
  <2>4. CASE verb[u] = "ABOR"
    <3>1. PICK c \in Commands : c.by = u /\ (Quiet \/ Serving(c) \/ Answered(c))
      BY <2>1, <2>2, <2>4 DEF Underway
    <3>2. asked' = <<Own(u)>>
      BY <2>1, <3>1, Wires DEF Serving, Answered, Told
    <3>3. Aborting(c, Own(u))'
      BY <2>1, <2>2, <3>1, <3>2 DEF Aborting, Serving, Answered, Told, Pending
    <3> QED
      BY <2>1, <2>2, <2>4, <3>1, <3>3 DEF Underway
  <2> QED
    BY <2>3, <2>4
<1> QED
  BY <1>1, <1>2

\* A reply is read: nothing is left under way but the transfer it accepts, or
\* the second reply after an ABOR.
LEMMA UnderwayRead ==
  ASSUME Places, sound, NEW u \in Users, Underway(u), Read(u)
  PROVE  Underway(u)'
<1> USE DEF Quiet, NoTransfer
<1>1. /\ pc[u] = "reply" /\ replies # <<>> /\ replies' = Tail(replies)
      /\ UNCHANGED <<asked, transfer, data>>
  BY DEF Read, server
<1>2. CASE verb[u] # "ABOR"
  <2>1. CASE Accepting(Own(u)) /\ verb[u] \in DataVerbs
    <3>1. Head(replies) = Reply(Own(u), TRUE) /\ replies' = <<>>
      BY <1>1, <2>1, Wires DEF Accepting
    <3>2. Succeeds(u, Head(replies))
      BY <2>1, <3>1 DEF Succeeds, Reply, DataVerbs, Listings, Passive
    <3>3. op[u] # "connect"
      BY <1>1, <2>1 DEF Places, Scripts, Logging, DataVerbs, Listings, LoginVerbs
    <3>4. Accepted(u) = {"dial"}
      BY <2>1, <3>3 DEF Accepted, DataVerbs, Listings, Passive
    <3>5. Continue(u, "dial")
      BY <3>2, <3>4 DEF Read
    <3>6. pc'[u] = "dial" /\ verb' = verb
      BY <3>5 DEF Continue, Verbs, Passive, DataVerbs, LoginVerbs, Listings, Places, TypeOK
    <3>7. Serving(Own(u))' /\ data' = "none"
      BY <1>1, <2>1, <3>1, <3>6 DEF Accepting, Serving, Own
    <3> QED
      BY <3>6, <3>7 DEF Underway
  <2>2. CASE ~(Accepting(Own(u)) /\ verb[u] \in DataVerbs)
    <3>1. PICK ok \in BOOLEAN : Told(Own(u), ok)
      BY <1>1, <1>2, <2>2 DEF Underway, Pending
    <3>2. Quiet'
      BY <1>1, <3>1, Wires DEF Told
    <3> QED
      BY <3>2 DEF Underway
  <2> QED
    BY <2>1, <2>2
<1>3. CASE verb[u] = "ABOR"
  <2>1. PICK next \in Accepted(u) \cup Refused(u) : Continue(u, next)
    BY DEF Read
  <2>2. next = "drain"
    BY <1>1, <1>3, NextStep DEF Places
  <2>3. pc'[u] = "drain" /\ verb' = verb
    BY <2>1, <2>2 DEF Continue, Verbs, Passive, DataVerbs, LoginVerbs, Listings, Places, TypeOK
  <2>4. PICK c \in Commands : Aborting(c, Own(u))
    BY <1>1, <1>3 DEF Underway
  <2>5. Own(u)' = Own(u)
    BY <2>3 DEF Own
  <2>6. Quiet' \/ Pending(Own(u))' \/ Answered(Own(u))'
    <3> DEFINE a == Own(u)
    <3>1. CASE \E ok \in BOOLEAN : replies = <<Reply(c, ok)>> \/ replies = <<Reply(a, ok)>>
      <4>1. replies' = <<>>
        BY <1>1, <3>1, Wires
      <4>2. /\ transfer = NoTransfer
            /\ asked = <<>> \/ asked = <<a>>
        BY <1>1, <2>4, <3>1, Wires DEF Aborting, Pending, Answered, Told
      <4> QED
        BY <1>1, <2>5, <4>1, <4>2 DEF Pending
    <3>2. CASE \E ok, last \in BOOLEAN : replies = <<Reply(c, ok), Reply(a, last)>>
      <4>1. PICK ok, last \in BOOLEAN : replies = <<Reply(c, ok), Reply(a, last)>>
        BY <3>2
      <4>2. replies' = <<Reply(a, last)>> /\ Reply(a, last)' = Reply(a, last)
        BY <1>1, <2>5, <4>1, Wires DEF Reply
      <4>3. asked = <<>> /\ transfer = NoTransfer
        BY <2>4, <4>1 DEF Aborting, Pending, Answered, Told
      <4> QED
        BY <1>1, <2>5, <4>2, <4>3 DEF Answered, Told
    <3> QED
      BY <1>1, <2>4, <3>1, <3>2 DEF Aborting, Pending, Answered, Told
  <2> QED
    BY <1>3, <2>3, <2>6 DEF Underway
<1> QED
  BY <1>2, <1>3

\* The data connection opens, ends, and its final reply is read.
LEMMA UnderwayData ==
  ASSUME Places, sound, NEW u \in Users, Underway(u), sound',
         Dial(u) \/ Transferred(u) \/ TransferFails(u) \/ Final(u) \/ Drain(u)
  PROVE  Underway(u)'
<1> USE DEF Quiet, NoTransfer
<1>0. /\ {"data", "final", "cleanup"} \cap Verbs = {} /\ "ABOR" \in Verbs
      /\ pc \in [Users -> Steps] /\ verb \in [Users -> Verbs]
  BY DEF Verbs, Passive, DataVerbs, LoginVerbs, Listings, Places, TypeOK
<1>1. CASE Dial(u)
  <2>1. pc[u] = "dial" /\ pc'[u] = "data" /\ verb' = verb /\ UNCHANGED <<asked, replies, transfer>>
    BY <1>0, <1>1 DEF Dial, Continue, wire
  <2> QED
    BY <2>1 DEF Underway, Serving, Own
<1>2. CASE Transferred(u) /\ op[u] = "partial"
  <2>1. /\ pc[u] = "data" /\ pc'[u] = "send" /\ verb'[u] = "ABOR"
        /\ UNCHANGED <<asked, replies, transfer>>
    BY <1>0, <1>2 DEF Transferred, AfterData, Continue, wire
  <2>2. Own(u) \in Commands /\ Own(u).by = u
    BY <1>0 DEF Own, Commands
  <2>3. PICK c \in Commands : c.by = u /\ (Quiet \/ Serving(c) \/ Answered(c))
    BY <2>1, <2>2 DEF Underway
  <2>4. Quiet' \/ Serving(c)' \/ Answered(c)'
    BY <2>1, <2>3 DEF Serving, Answered, Told
  <2> QED
    BY <2>1, <2>3, <2>4 DEF Underway
<1>3. CASE (Transferred(u) /\ op[u] # "partial") \/ TransferFails(u)
  <2>1. TransferFails(u) => op[u] # "upload" /\ verb[u] = "MLSD"
    BY DEF TransferFails, Places, Scripts, Listings
  <2>2. /\ pc[u] = "data" /\ pc'[u] = "final" /\ verb' = verb
        /\ UNCHANGED <<asked, replies, transfer>>
    BY <1>0, <1>3, <2>1 DEF Transferred, TransferFails, AfterData, Continue, wire
  <2> QED
    BY <2>2 DEF Underway, Serving, Answered, Told, Own
<1>4. CASE Final(u) \/ Drain(u)
  <2>1. /\ pc[u] \in {"final", "drain"} /\ replies # <<>> /\ replies' = Tail(replies)
        /\ UNCHANGED <<asked, transfer>>
    BY <1>4 DEF Final, Drain, server
  <2>2. Answered(Own(u))
    BY <2>1 DEF Underway, Serving, Pending
  <2>3. Quiet'
    BY <2>1, <2>2, Wires DEF Answered, Told
  <2> QED
    BY <2>3 DEF Underway
<1> QED
  BY <1>1, <1>2, <1>3, <1>4

\* A step of the one user in a call keeps what is under way its own.
LEMMA UnderwayStep ==
  ASSUME Places, sound, NEW u \in Users, Underway(u), sound', Step(u) \/ TimesOut(u)
  PROVE  Underway(u)'
<1> USE DEF Quiet, NoTransfer
<1>1. CASE SetDeadline(u) \/ Cleanup(u) \/ Connected(u) \/ Forget(u)
  <2>1. Quiet
    BY <1>1, QuietElsewhere DEF SetDeadline, Cleanup, Connected, Forget
  <2> QED
    BY <1>1, <2>1 DEF SetDeadline, Cleanup, Connected, Forget, wire, server, Underway
<1>2. CASE Shut(u)
  BY <1>2 DEF Shut, Underway
<1>3. CASE ReadFails(u)
  BY <1>3 DEF ReadFails, Places, Lifetime, wire, server, Underway
<1>4. ~DialFails(u) /\ ~TimesOut(u)
  BY DEF DialFails, TimesOut
<1> QED
  BY <1>1, <1>2, <1>3, <1>4, UnderwaySend, UnderwayRead, UnderwayData DEF Step

\* What the server does with a command it has been sent: it answers it, or
\* accepts its transfer.
LEMMA ServerAnswers ==
  ASSUME Places, NEW u \in Users, Underway(u), Answer \/ AnswerData
  PROVE  Underway(u)'
<1> USE DEF NoTransfer
<1> DEFINE c == Own(u)
<1>1. /\ asked # <<>> /\ transfer = NoTransfer /\ Head(asked).verb # "ABOR"
      /\ asked' = Tail(asked) /\ UNCHANGED <<pc, verb>> /\ Own(u)' = c
  BY DEF Answer, AnswerData, DataVerbs, Listings, Own
<1>2. c.verb = verb[u] /\ c.by = u /\ c # NoTransfer
  BY OpenerAssumption DEF Own
<1>3. pc[u] = "reply" /\ verb[u] # "ABOR" /\ Pending(c)
  <2>1. asked = <<c>> => verb[u] # "ABOR"
    BY <1>1, <1>2, Wires
  <2>2. \A d : Aborting(d, c) => asked = <<>> \/ asked = <<c>>
    BY DEF Aborting, Pending, Answered, Told
  <2> QED
    BY <1>1, <2>1, <2>2 DEF Underway, Quiet, Told, Answered, Accepting, Serving, Pending
<1>4. Head(asked) = c /\ asked' = <<>> /\ \A r : Append(replies, r) = <<r>>
  BY <1>1, <1>3, Wires DEF Pending
<1>5. \A ok \in BOOLEAN : Reply(c, ok)' = Reply(c, ok)
  BY <1>1 DEF Reply
<1>6. CASE Answer
  <2>1. PICK ok \in BOOLEAN : replies' = <<Reply(c, ok)>>
    BY <1>4, <1>6 DEF Answer
  <2>2. transfer' = NoTransfer /\ verb[u] \notin DataVerbs
    BY <1>2, <1>3, <1>4, <1>6 DEF Answer, Pending
  <2>3. Told(c, ok)'
    BY <1>1, <1>4, <1>5, <2>1, <2>2 DEF Told
  <2> QED
    BY <1>1, <1>3, <2>2, <2>3 DEF Underway
<1>7. CASE AnswerData
  <2>1. verb[u] \in DataVerbs
    BY <1>2, <1>4, <1>7 DEF AnswerData
  <2>2. CASE replies' = <<Reply(c, FALSE)>> /\ UNCHANGED <<transfer, data>>
    <3>1. Told(c, FALSE)'
      BY <1>1, <1>4, <1>5, <2>2 DEF Told
    <3> QED
      BY <1>1, <1>3, <3>1 DEF Underway
  <2>3. CASE replies' = <<Reply(c, TRUE)>> /\ transfer' = c /\ data' = "none"
    <3>1. Accepting(c)'
      BY <1>1, <1>4, <1>5, <2>3 DEF Accepting
    <3> QED
      BY <1>1, <1>3, <2>1, <3>1 DEF Underway
  <2> QED
    BY <1>4, <1>7, <2>2, <2>3 DEF AnswerData
<1> QED
  BY <1>6, <1>7

\* A transfer ends with a reply of its own, never before the reply that accepts
\* it was read.
LEMMA ServerEnds ==
  ASSUME Places, NEW u \in Users, Underway(u), EndTransfer \/ GiveUp
  PROVE  Underway(u)'
<1> USE DEF NoTransfer
<1>1. /\ transfer # NoTransfer /\ transfer' = NoTransfer
      /\ UNCHANGED <<asked, pc, verb>> /\ Own(u)' = Own(u)
  BY DEF EndTransfer, GiveUp, Own
<1>2. PICK ok \in BOOLEAN : replies' = Append(replies, Reply(transfer, ok))
  BY DEF EndTransfer, GiveUp
<1>3. /\ data = "none" => pc[transfer.by] \notin {"reply", "dial"}
  BY DEF EndTransfer, GiveUp
<1>4. \A d \in Commands : Serving(d) => Answered(d)'
  <2> SUFFICES ASSUME NEW d \in Commands, Serving(d) PROVE Told(d, ok)'
    BY DEF Answered
  <2> QED
    BY <1>1, <1>2, Wires DEF Serving, Told, Reply
<1>5. Own(u) \in Commands /\ Own(u).by = u
  BY DEF Own, Commands, Places, TypeOK
<1>6. CASE pc[u] \in {"data", "final"}
  <2>1. Serving(Own(u))
    BY <1>1, <1>6 DEF Underway, Quiet, Answered, Told
  <2> QED
    BY <1>1, <1>4, <1>5, <1>6, <2>1 DEF Underway
<1>7. CASE pc[u] = "send"
  <2>1. verb[u] = "ABOR" /\ \E d \in Commands : d.by = u /\ Serving(d)
    BY <1>1, <1>7 DEF Underway, Quiet, Answered, Told
  <2> QED
    BY <1>1, <1>4, <1>7, <2>1 DEF Underway
<1>8. CASE pc[u] = "reply"
  <2>1. verb[u] = "ABOR" /\ \E d \in Commands : d.by = u /\ Aborting(d, Own(u))
    BY <1>1, <1>3, <1>5, <1>8
       DEF Underway, Quiet, Answered, Told, Accepting, Pending, EndTransfer, GiveUp
  <2>2. PICK d \in Commands : d.by = u /\ Aborting(d, Own(u))
    BY <2>1
  <2>3. asked = <<Own(u)>> /\ replies = <<>> /\ transfer = d
    BY <1>1, <2>2 DEF Aborting, Pending, Answered, Told
  <2>4. replies' = <<Reply(d, ok)>> /\ Reply(d, ok)' = Reply(d, ok)
    BY <1>2, <2>3, Wires DEF Reply
  <2>5. Aborting(d, Own(u))'
    BY <1>1, <2>3, <2>4 DEF Aborting
  <2> QED
    BY <1>1, <1>8, <2>1, <2>2, <2>5 DEF Underway
<1>9. CASE pc[u] = "dial"
  <2>1. Serving(Own(u)) /\ data = "none"
    BY <1>1, <1>9 DEF Underway, Quiet
  <2> QED
    BY <1>3, <1>5, <1>9, <2>1 DEF Serving
<1>10. CASE pc[u] \notin {"reply", "dial", "data", "final", "send"}
  BY <1>1, <1>10 DEF Underway, Quiet, Pending, Answered, Told
<1> QED
  BY <1>6, <1>7, <1>8, <1>9, <1>10

\* ABOR ends a transfer that goes on, and is answered itself.
LEMMA ServerAborts ==
  ASSUME Places, NEW u \in Users, Underway(u), Abort
  PROVE  Underway(u)'
<1> USE DEF NoTransfer
<1> DEFINE a == Own(u)
<1>1. /\ asked # <<>> /\ Head(asked).verb = "ABOR" /\ asked' = Tail(asked)
      /\ transfer' = NoTransfer /\ UNCHANGED <<pc, verb>> /\ Own(u)' = a
  BY DEF Abort, Own
<1>2. a.verb = verb[u] /\ a.by = u
  BY DEF Own
<1>3. /\ asked = <<a>> /\ verb[u] = "ABOR"
      /\ \/ pc[u] = "drain" /\ Pending(a)
         \/ pc[u] = "reply" /\ \E c \in Commands : c.by = u /\ Aborting(c, a)
  <2>1. asked = <<a>> => verb[u] = "ABOR"
    BY <1>1, <1>2, Wires
  <2>2. \A c : Aborting(c, a) => asked = <<>> \/ asked = <<a>>
    BY DEF Aborting, Pending, Answered, Told
  <2> QED
    BY <1>1, <2>1, <2>2 DEF Underway, Quiet, Told, Answered, Accepting, Serving, Pending
<1>4. asked' = <<>> /\ Head(asked) = a
  BY <1>1, <1>3, Wires
<1>5. \A c, ok : Reply(c, ok)' = Reply(c, ok)
  BY DEF Reply
<1>6. CASE Pending(a)
  <2>1. replies' = <<Reply(a, TRUE)>>
    BY <1>4, <1>6, Wires DEF Abort, Pending
  <2>2. Answered(a)'
    BY <1>1, <1>4, <2>1 DEF Answered, Told, Reply
  <2>3. a \in Commands
    BY DEF Own, Commands, Places, TypeOK
  <2>4. Aborting(a, a)'
    BY <1>1, <2>2 DEF Aborting
  <2> QED
    BY <1>1, <1>2, <1>3, <2>2, <2>3, <2>4 DEF Underway
<1>7. CASE ~Pending(a)
  <2>1. PICK c \in Commands : c.by = u /\ Aborting(c, a)
    BY <1>3, <1>7
  <2>2. pc[u] = "reply"
    BY <1>3, <1>7
  <2>3. CASE transfer # NoTransfer
    <3>1. replies = <<>> /\ transfer = c
      BY <1>3, <1>7, <2>1, <2>3 DEF Aborting, Answered, Told
    <3>2. replies' = <<Reply(c, FALSE), Reply(a, TRUE)>>
      <4> DEFINE x == Reply(c, FALSE)
                 y == Reply(a, TRUE)
      <4>1. replies' = <<>> \o <<x, y>>
        BY <1>4, <2>3, <3>1 DEF Abort
      <4> HIDE DEF x, y
      <4>2. <<>> \o <<x, y>> = <<x, y>>
        BY Wires
      <4> QED
        BY <4>1, <4>2 DEF x, y
    <3>3. Aborting(c, a)'
      BY <1>1, <1>4, <3>2 DEF Aborting, Reply
    <3> QED
      BY <1>1, <1>3, <2>1, <2>2, <3>3 DEF Underway
  <2>4. CASE transfer = NoTransfer
    <3>1. c # NoTransfer
      BY <2>1, OpenerAssumption DEF Commands
    <3>2. PICK ok \in BOOLEAN : replies = <<Reply(c, ok)>>
      BY <1>1, <1>3, <1>7, <2>1, <2>4, <3>1 DEF Aborting, Answered, Told
    <3>3. replies' = <<Reply(c, ok), Reply(a, TRUE)>>
      <4> DEFINE x == Reply(c, ok)
                 y == Reply(a, TRUE)
      <4>1. replies' = Append(<<x>>, y)
        BY <1>4, <2>4, <3>2 DEF Abort
      <4> HIDE DEF x, y
      <4>2. Append(<<x>>, y) = <<x, y>>
        BY Wires
      <4> QED
        BY <4>1, <4>2 DEF x, y
    <3>4. Aborting(c, a)'
      BY <1>1, <1>4, <3>3 DEF Aborting, Reply
    <3> QED
      BY <1>1, <1>3, <2>1, <2>2, <3>4 DEF Underway
  <2> QED
    BY <2>3, <2>4
<1> QED
  BY <1>6, <1>7

\* Whatever happens, a client that is still sound has one call under way.
LEMMA OneCallStep ==
  ASSUME ControlIInv, [Next]_vars
  PROVE  OneCall'
<1> USE DEF ControlIInv
<1>1. Places
  BY DEF Places
<1>2. SUFFICES ASSUME sound'
               PROVE  \E u \in Users : (\A w \in Users \ {u} : pc'[w] = "idle") /\ Underway(u)'
  BY DEF OneCall
<1>3. sound
  BY <1>2
     DEF Next, Step, Begin, SetDeadline, Send, Read, ReadFails, TimesOut, Dial, DialFails,
         Transferred, TransferFails, Final, Drain, Cleanup, Connected, Shut, Forget, Server,
         Answer, AnswerData, EndTransfer, GiveUp, Abort, Drop, vars
<1>4. PICK u \in Users : (\A w \in Users \ {u} : pc[w] = "idle") /\ Underway(u)
  BY <1>3 DEF OneCall
<1>5. ASSUME NEW v \in Users, Step(v) \/ TimesOut(v)
      PROVE  \E x \in Users : (\A w \in Users \ {x} : pc'[w] = "idle") /\ Underway(x)'
  <2>1. pc[v] # "idle"
    BY <1>5
       DEF Step, SetDeadline, Send, Read, ReadFails, TimesOut, Waits, Dial, DialFails,
           Transferred, TransferFails, Final, Drain, Cleanup, Connected, Shut, Forget
  <2>2. v = u
    BY <1>4, <2>1
  <2>3. PICK next : Continue(v, next)
    BY <1>5
       DEF Step, SetDeadline, Send, Read, ReadFails, TimesOut, Dial, DialFails,
           Transferred, TransferFails, Final, Drain, Cleanup, Connected, Shut, Forget
  <2>4. \A w \in Users \ {v} : pc'[w] = pc[w]
    BY <2>3 DEF Continue, TypeOK
  <2>5. Underway(u)'
    BY <1>1, <1>2, <1>3, <1>4, <1>5, <2>2, UnderwayStep
  <2> QED
    BY <1>4, <2>2, <2>4, <2>5
<1>6. ASSUME NEW v \in Users, NEW o \in Calls, Begin(v, o)
      PROVE  \E x \in Users : (\A w \in Users \ {x} : pc'[w] = "idle") /\ Underway(x)'
  <2>1. \A w \in Users : pc[w] = "idle"
    BY <1>2, <1>6 DEF Begin
  <2>2. Quiet'
    BY <1>4, <1>6, <2>1, QuietElsewhere DEF Begin, Quiet, NoTransfer, wire, server
  <2>3. PICK next : Continue(v, next)
    BY <1>6 DEF Begin
  <2>4. \A w \in Users \ {v} : pc'[w] = pc[w]
    BY <2>3 DEF Continue, TypeOK
  <2> QED
    BY <2>1, <2>2, <2>4 DEF Underway
<1>7. CASE Server
  <2>1. Underway(u)'
    BY <1>1, <1>4, <1>7, ServerAnswers, ServerEnds, ServerAborts DEF Server
  <2>2. pc' = pc
    BY <1>7 DEF Server, Answer, AnswerData, EndTransfer, GiveUp, Abort
  <2> QED
    BY <1>4, <2>1, <2>2
<1>8. CASE Drop
  BY <1>4, <1>8 DEF Drop, Underway, Quiet, NoTransfer
<1>9. CASE UNCHANGED vars
  <2>1. Underway(u)'
    BY <1>4, <1>9 DEF vars, socket, wire, server, Underway, Quiet, NoTransfer, Pending, Told,
                      Answered, Accepting, Serving, Aborting, Own, Reply
  <2> QED
    BY <1>4, <1>9, <2>1 DEF vars
<1> QED
  BY <1>5, <1>6, <1>7, <1>8, <1>9 DEF Next

------------------------------------------------------------------------------
(* The theorems                                                            *)

\* The invariant holds throughout (ftp_client.go:49-63, 282-345).
THEOREM ControlInvariant == Spec => []ControlIInv
<1>1. Init => ControlIInv
  <2> SUFFICES ASSUME Init PROVE ControlIInv
    OBVIOUS
  <2> USE OpenerAssumption DEF Init
  <2>1. "GREET" \in LoginVerbs /\ "GREET" \in Verbs /\ {"reply", "idle"} \subseteq Steps
    BY DEF LoginVerbs, Verbs, Steps
  <2>2. Own(Opener) \in Commands /\ Own(Opener) = [by |-> Opener, verb |-> "GREET"]
    BY <2>1 DEF Own, Commands
  <2>3. replies = <<Reply(Own(Opener), TRUE)>>
    BY <2>2 DEF Reply
  <2>4. TypeOK
    <3>1. Reply(Own(Opener), TRUE) \in [to : Commands, ok : BOOLEAN]
      BY <2>2 DEF Reply
    <3>2. replies \in Seq([to : Commands, ok : BOOLEAN])
      <4> DEFINE R == [to : Commands, ok : BOOLEAN]
                 r == Reply(Own(Opener), TRUE)
      <4>1. r \in R /\ replies = <<r>>
        BY <2>3, <3>1
      <4> HIDE DEF R, r
      <4>2. <<r>> \in Seq(R)
        BY <4>1, ShortSequences
      <4>3. replies \in Seq(R)
        BY <4>1, <4>2
      <4> QED
        BY <4>3 DEF R
    <3>3. asked \in Seq(Commands)
      OBVIOUS
    <3>4. pc \in [Users -> Steps] /\ verb \in [Users -> Verbs]
      BY <2>1
    <3>5. op \in [Users -> Methods \cup {"connect"}] /\ lister \in [Users -> Listings]
      BY DEF Listings
    <3> QED
      BY <3>2, <3>3, <3>4, <3>5 DEF TypeOK
  <2>5. Scripts /\ Lifetime
    BY <2>1 DEF Scripts, Lifetime, Logging, LoginPlaces, Listings
  <2>6. Underway(Opener)
    BY <2>3 DEF Underway, Told, DataVerbs, Listings
  <2> QED
    BY <2>4, <2>5, <2>6 DEF ControlIInv, OneCall
<1>2. ControlIInv /\ [Next]_vars => ControlIInv'
  BY UsersStep, OneCallStep DEF ControlIInv, Places
<1> QED
  BY <1>1, <1>2, PTL DEF Spec

\* What the client, the wires and the server hold keeps its type; in
\* particular no session is in the table whose connection Close has forgotten
\* (ftp_client.go:282-289).
THEOREM TypeInvariant == Spec => []TypeOK
BY ControlInvariant, PTL DEF ControlIInv

\* The control connection stays in step: in a client whose calls did not
\* overlap and whose transfers did not fail, a command other than ABOR goes out
\* when every earlier reply was read, whatever was refused
\* (ftp_client.go:291-345).
THEOREM CommandsInStep == Spec => InStep
<1>1. ControlIInv => \A u \in Users : sound /\ Sends(u) => Quiet
  <2> SUFFICES ASSUME ControlIInv, NEW u \in Users, sound, Sends(u)
               PROVE  Quiet
    OBVIOUS
  <2>1. PICK v \in Users : (\A w \in Users \ {v} : pc[w] = "idle") /\ Underway(v)
    BY DEF ControlIInv, OneCall
  <2>2. pc[u] = "send" /\ verb[u] # "ABOR"
    BY DEF Sends, Send
  <2>3. v = u
    BY <2>1, <2>2
  <2> QED
    BY <2>1, <2>2, <2>3, QuietElsewhere
<1> QED
  BY <1>1, ControlInvariant, PTL DEF InStep

\* In the same circumstances the reply that a method reads is the one to its
\* own last command, or to the data command its ABOR ended
\* (ftp_client.go:301-345, 668-697).
THEOREM RepliesAreOwn == Spec => OwnReply
<1>1. ControlIInv => \A u \in Users : sound /\ (Read(u) \/ Final(u)) =>
                       /\ Head(replies).to.by = u
                       /\ Head(replies).to.verb = verb[u] \/ verb[u] = "ABOR"
  <2> SUFFICES ASSUME ControlIInv, NEW u \in Users, sound, Read(u) \/ Final(u)
               PROVE  /\ Head(replies).to.by = u
                      /\ Head(replies).to.verb = verb[u] \/ verb[u] = "ABOR"
    OBVIOUS
  <2>1. PICK v \in Users : (\A w \in Users \ {v} : pc[w] = "idle") /\ Underway(v)
    BY DEF ControlIInv, OneCall
  <2>2. pc[u] \in {"reply", "final"} /\ replies # <<>>
    BY DEF Read, Final
  <2>3. v = u
    BY <2>1, <2>2
  <2>4. \A c : Reply(c, TRUE).to = c /\ \A ok \in BOOLEAN : Reply(c, ok).to = c
    BY DEF Reply
  <2>5. Own(u).by = u /\ Own(u).verb = verb[u]
    BY DEF Own
  <2>6. CASE pc[u] = "reply" /\ verb[u] = "ABOR"
    <3>1. PICK c \in Commands : c.by = u /\ Aborting(c, Own(u))
      BY <2>1, <2>2, <2>3, <2>6 DEF Underway, Quiet
    <3>2. Head(replies).to \in {c, Own(u)}
      BY <2>2, <2>4, <3>1, Wires DEF Aborting, Pending, Answered, Told
    <3> QED
      BY <2>5, <2>6, <3>1, <3>2
  <2>7. CASE ~(pc[u] = "reply" /\ verb[u] = "ABOR")
    <3>1. \E ok \in BOOLEAN : replies = <<Reply(Own(u), ok)>>
      BY <2>1, <2>2, <2>3, <2>7
         DEF Underway, Quiet, Pending, Answered, Told, Accepting, Serving
    <3>2. Head(replies).to = Own(u)
      BY <2>4, <3>1, Wires
    <3> QED
      BY <2>5, <3>2
  <2> QED
    BY <2>6, <2>7
<1> QED
  BY <1>1, ControlInvariant, PTL DEF OwnReply
==============================================================================
