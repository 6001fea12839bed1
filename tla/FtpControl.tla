------------------------------- MODULE FtpControl -------------------------------
(***************************************************************************)
(* The FTP client of internal/protocol/ftp_client.go: one control          *)
(* connection on which every goroutine that holds the client sends its     *)
(* commands and reads replies, and the data connections of transfers.  The *)
(* protocol has no numbers: a reply belongs to the oldest command that is  *)
(* still due one, and the client stays in step only if it reads every      *)
(* reply before the next command (ftp_client.go:291-292).                  *)
(*                                                                         *)
(* A call is the script of commands of one method of the client.  What the *)
(* commands and replies say is left out, but for refusals and for the port *)
(* of a passive reply.  A reply is read whole: readReply joins its lines.  *)
(***************************************************************************)
EXTENDS Naturals, SequencesExt

CONSTANTS Users,     \* goroutines that hold the client
          Opener,    \* the one that connects it
          Calls,     \* the methods this instance calls
          Failures,  \* what may go wrong beside refused commands
          Backlog,   \* bound: commands and replies on their way beyond which no
                     \* command is sent, once a transfer has failed
          None       \* no user

\* Methods that run under a deadline, and the others.
Guarded  == {"list", "mkdir", "rename", "chmod", "upload", "download", "partial"}
Methods  == Guarded \cup {"stat", "remove", "close"}
Troubles == {"dial", "copy", "late", "drop"}

ASSUME OpenerAssumption   == Opener \in Users /\ None \notin Users
ASSUME CallsAssumption    == Calls \subseteq Methods
ASSUME FailuresAssumption == Failures \subseteq Troubles
ASSUME BacklogAssumption  == Backlog \in Nat

Passive    == {"EPSV", "PASV"}
Listings   == {"MLSD", "LIST"}
DataVerbs  == Listings \cup {"RETR", "STOR", "APPE"}
\* PBSZ is sent a second time, as PBSZ0, whose answer nobody looks at.
LoginVerbs == {"GREET", "AUTH", "PBSZ", "PROT", "USER", "PASS", "FEAT", "TYPE",
               "PBSZ0", "PWD", "CWD"}
Verbs == Passive \cup DataVerbs \cup LoginVerbs
           \cup {"MKD", "RNFR", "RNTO", "SITE", "SIZE", "MDTM", "RMD", "DELE",
                 "REST", "ABOR", "QUIT"}
Steps == {"idle", "deadline", "send", "reply", "dial", "data", "final", "drain",
          "cleanup", "ready", "shut", "forget", "panicked"}

VARIABLES
  conn,       \* c.conn: "open", "shut" (closed by either side) or "nil"
  armed,      \* the connection has a deadline
  ready,      \* the session is in the manager's table: calls may begin
  mlsd,       \* c.featMLSD
  asked,      \* commands on their way to the server
  replies,    \* replies on their way to the client
  listening,  \* the user whose passive port the server listens on
  transfer,   \* the data command the server is serving
  data,       \* its data connection: "none", "open" or "ended"
  pc,         \* the next step of each user
  op,         \* the method each user is in
  verb,       \* the last command of each user
  lister,     \* how each user's next listing is asked for
  listed,     \* whether each user's listing has succeeded
  sound       \* so far no two calls overlapped, and no transfer but an MLSD failed

wire   == <<asked, replies>>
server == <<listening, transfer, data>>
socket == <<conn, armed, ready, mlsd>>
vars   == <<socket, wire, server, pc, op, verb, lister, listed, sound>>

Commands == [by : Users, verb : Verbs]
NoTransfer == [by |-> None, verb |-> "QUIT"]

\* What the client, the wire and the server can hold.
TypeOK ==
  /\ conn \in {"open", "shut", "nil"}
  /\ armed \in BOOLEAN /\ ready \in BOOLEAN /\ mlsd \in BOOLEAN /\ sound \in BOOLEAN
  /\ asked \in Seq(Commands)
  /\ replies \in Seq([to : Commands, ok : BOOLEAN])
  /\ listening \in Users \cup {None}
  /\ transfer = NoTransfer \/ (transfer \in Commands /\ transfer.verb \in DataVerbs)
  /\ data \in {"none", "open", "ended"}
  /\ pc \in [Users -> Steps] /\ op \in [Users -> Methods \cup {"connect"}]
  /\ verb \in [Users -> Verbs] /\ lister \in [Users -> Listings]
  /\ listed \in [Users -> BOOLEAN]
  /\ ready => conn # "nil"

\* The dial has succeeded and the server greets.
Init ==
  /\ conn = "open" /\ armed = FALSE /\ ready = FALSE /\ mlsd = FALSE /\ sound = TRUE
  /\ asked = <<>>
  /\ replies = <<[to |-> [by |-> Opener, verb |-> "GREET"], ok |-> TRUE]>>
  /\ listening = None /\ transfer = NoTransfer /\ data = "none"
  /\ pc = [u \in Users |-> IF u = Opener THEN "reply" ELSE "idle"]
  /\ op = [u \in Users |-> "connect"]
  /\ verb = [u \in Users |-> "GREET"]
  /\ lister = [u \in Users |-> "LIST"] /\ listed = [u \in Users |-> FALSE]

------------------------------------------------------------------------------
(* The scripts: what follows a reply                                       *)

\* The commands of Connect in their order, with the choices the profile makes:
\* explicit TLS or none, a password or none, a start folder or none.
Login == [GREET |-> {"AUTH", "USER"}, AUTH |-> {"PBSZ", "QUIT"}, PBSZ |-> {"PROT"},
          PROT |-> {"USER"}, USER |-> {"PASS", "FEAT"}, PASS |-> {"FEAT"},
          FEAT |-> {"TYPE"}, TYPE |-> {"PBSZ0"}, PBSZ0 |-> {"PWD", "CWD"},
          PWD |-> {"CWD", "ready"}, CWD |-> {"ready"}]
\* Connect ends with Close if one of these, or the TLS handshake after AUTH,
\* fails; failures of the others are ignored.
Required == {"GREET", "AUTH", "PBSZ", "PROT", "USER", "PASS"}

\* The first command of the methods that open no data connection.
Opening == [mkdir |-> "MKD", rename |-> "RNFR", chmod |-> "SITE",
            stat |-> "SIZE", remove |-> "RMD", close |-> "QUIT"]

\* What a method asks for once it has a port.
DataCommands(u) ==
  CASE op[u] = "upload"   -> {"STOR", "REST"}
    [] op[u] = "download" -> {"RETR", "REST"}
    [] op[u] = "partial"  -> {"RETR"}
    [] OTHER              -> {lister[u]}

\* The rest of a recursive removal: its tree is left open, so that any entry,
\* folder or end may come next.
Removals == {"DELE", "RMD", "deadline"}

\* Where a method, or a listing inside one, returns to.
UnderDeadline(u) == op[u] \in Guarded \/ verb[u] \in Passive \cup Listings
Leave(u) == IF UnderDeadline(u) THEN "cleanup" ELSE "idle"

AfterAbort(u) == IF op[u] = "partial" THEN "drain" ELSE "cleanup"

Accepted(u) ==
  CASE op[u] = "connect" /\ verb[u] # "QUIT" -> Login[verb[u]]
    [] verb[u] \in Passive        -> DataCommands(u)
    [] verb[u] = "REST"           -> {IF op[u] = "upload" THEN "APPE" ELSE "RETR"}
    [] verb[u] \in DataVerbs      -> {"dial"}
    [] verb[u] = "RNFR"           -> {"RNTO"}
    [] verb[u] = "SIZE"           -> {"MDTM"}
    [] verb[u] \in {"RMD", "DELE"} -> Removals \cup {"idle"}
    [] verb[u] = "ABOR"           -> {AfterAbort(u)}
    [] verb[u] = "QUIT"           -> {"shut"}
    [] OTHER                      -> {Leave(u)}

\* Faulty: one more reply is awaited after a refused EPSV.
RefusedWithMore(u) == IF verb[u] = "EPSV" THEN {"drain"} ELSE {Leave(u)}

\* cmd returns an error: the command was refused, or not sent or answered.
Refused(u) ==
  CASE op[u] = "connect" /\ verb[u] \in Required -> {"QUIT"}
    [] op[u] = "connect" /\ verb[u] = "PWD"      -> {"ready"}
    [] op[u] = "connect" /\ verb[u] \notin Required \cup {"PWD", "QUIT"} -> Login[verb[u]]
    [] verb[u] = "EPSV" -> {"PASV"}
    [] verb[u] = "SIZE" -> {"deadline"}
    [] verb[u] = "RMD"  -> {"DELE"}
    [] verb[u] = "ABOR" -> {AfterAbort(u)}
    [] verb[u] = "QUIT" -> {"shut"}
    [] OTHER            -> {Leave(u)}

------------------------------------------------------------------------------
(* The client                                                              *)

\* A next step is a command to send or a step of another kind.
Continue(u, next) ==
  IF next \in Verbs
    THEN pc' = [pc EXCEPT ![u] = "send"] /\ verb' = [verb EXCEPT ![u] = next]
    ELSE pc' = [pc EXCEPT ![u] = next] /\ UNCHANGED verb

Listed(u, result) == listed' = [listed EXCEPT ![u] = result]

\* A method is called: a session that is still in the table hands its client
\* out, Close comes from the manager and takes the session out first.
Begin(u, o) ==
  /\ pc[u] = "idle" /\ ready /\ o \in Calls
  /\ ready' = (o # "close")
  /\ op' = [op EXCEPT ![u] = o]
  /\ \/ o \in Guarded /\ Continue(u, "deadline")
     \/ o \notin Guarded /\ Continue(u, Opening[o])
     \/ o = "remove" /\ Continue(u, "deadline")
  /\ Listed(u, FALSE)
  /\ sound' = (sound /\ \A w \in Users \ {u} : pc[w] = "idle")
  /\ UNCHANGED <<conn, armed, mlsd, wire, server, lister>>

\* applyDeadline: c.conn is used as it is, nil or not.
SetDeadline(u) ==
  /\ pc[u] = "deadline"
  /\ IF conn = "nil"
       THEN Continue(u, "panicked") /\ UNCHANGED armed
       ELSE /\ armed' = TRUE
            /\ Continue(u, IF op[u] \in {"mkdir", "rename", "chmod"} THEN Opening[op[u]]
                           ELSE "EPSV")
  /\ UNCHANGED <<conn, ready, mlsd, wire, server, op, lister, listed, sound>>

\* The first half of cmd.
Send(u) ==
  /\ pc[u] = "send"
  /\ sound \/ Len(asked \o replies) <= Backlog
  /\ IF conn = "open"
       THEN /\ asked' = Append(asked, [by |-> u, verb |-> verb[u]])
            /\ Continue(u, "reply")
       ELSE UNCHANGED asked /\ \E next \in Refused(u) : Continue(u, next)
  /\ UNCHANGED <<socket, replies, server, op, lister, listed, sound>>

\* A reply read for a command: an error code, or one without the port a passive
\* command asks for, is a refusal.  The greeting's code is not looked at.
Succeeds(u, r) ==
  /\ r.ok \/ verb[u] = "GREET"
  /\ verb[u] \in Passive => r.to.verb = verb[u]

\* The second half of cmd.
Read(u) ==
  /\ pc[u] = "reply" /\ conn = "open" /\ replies # <<>>
  /\ replies' = Tail(replies)
  /\ \E next \in IF Succeeds(u, Head(replies)) THEN Accepted(u) ELSE Refused(u) :
       Continue(u, next)
  /\ mlsd' \in IF verb[u] = "FEAT" /\ Head(replies).ok THEN BOOLEAN ELSE {mlsd}
  /\ UNCHANGED <<conn, armed, ready, asked, server, op, lister, listed, sound>>

\* A method that reads a reply gets an error instead: the connection is closed,
\* or the deadline passes before anything arrives.
Waits(u) == pc[u] \in {"reply", "final", "drain"}
AfterError(u) == IF pc[u] = "reply" THEN Refused(u) ELSE {"cleanup"}
ReadFails(u) ==
  /\ Waits(u) /\ conn # "open"
  /\ \E next \in AfterError(u) : Continue(u, next)
  /\ UNCHANGED <<socket, wire, server, op, lister, listed, sound>>

TimesOut(u) ==
  /\ Waits(u) /\ armed /\ replies = <<>> /\ "late" \in Failures
  /\ \E next \in AfterError(u) : Continue(u, next)
  /\ sound' = FALSE
  /\ UNCHANGED <<socket, wire, server, op, lister, listed>>

\* The data connection: the port of this user's passive reply is still the one
\* the server listens on.
Dial(u) ==
  /\ pc[u] = "dial" /\ listening = u /\ transfer.by = u
  /\ data' = "open" /\ listening' = None
  /\ Continue(u, "data")
  /\ UNCHANGED <<socket, wire, transfer, op, lister, listed, sound>>

DialFails(u) ==
  /\ pc[u] = "dial"
  /\ "dial" \in Failures \/ listening # u \/ transfer.by # u
  /\ Continue(u, "cleanup")
  /\ sound' = FALSE
  /\ UNCHANGED <<socket, wire, server, op, lister, listed>>

\* The client is done with its data connection, or its peer is.
HangUp(u) == data' = IF transfer.by = u THEN "ended" ELSE data

\* Faulty: a listing returns without its final reply.
AfterDataEarly(u) ==
  IF op[u] = "partial" THEN "ABOR"
  ELSE IF verb[u] \in Listings THEN "cleanup" ELSE "final"

\* ReadPartial has what it wants and aborts; the others read to the end, or send
\* all they have, and wait for the final reply.
AfterData(u) == IF op[u] = "partial" THEN "ABOR" ELSE "final"
Transferred(u) ==
  /\ pc[u] = "data"
  /\ transfer.by # u \/ op[u] \in {"upload", "partial"}
  /\ HangUp(u)
  /\ Continue(u, AfterData(u))
  /\ UNCHANGED <<socket, wire, listening, transfer, op, lister, listed, sound>>

\* A data connection fails, or the caller's end of the copy: an upload aborts,
\* the loop over an MLSD listing ends and the final reply is read before the
\* error is looked at (552-555), the others return at once.
TransferFails(u) ==
  /\ pc[u] = "data" /\ "copy" \in Failures /\ op[u] # "partial"
  /\ Continue(u, CASE op[u] = "upload"  -> "ABOR"
                   [] verb[u] = "MLSD"   -> "final"
                   [] OTHER              -> "cleanup")
  /\ IF op[u] = "upload" THEN UNCHANGED data ELSE HangUp(u)
  /\ sound' = (sound /\ verb[u] = "MLSD")
  /\ UNCHANGED <<socket, wire, listening, transfer, op, lister, listed>>

\* The final reply; its code is not looked at.  An MLSD listing may have failed
\* before it.
Final(u) ==
  /\ pc[u] = "final" /\ conn = "open" /\ replies # <<>>
  /\ replies' = Tail(replies)
  /\ Continue(u, "cleanup")
  /\ \E result \in BOOLEAN : (verb[u] # "MLSD" => result) /\ Listed(u, result)
  /\ UNCHANGED <<socket, asked, server, op, lister, sound>>

\* Faulty: the reply to ABOR is left behind.
LeavesReply(u) ==
  /\ pc[u] = "drain"
  /\ Continue(u, "cleanup")
  /\ UNCHANGED <<socket, wire, server, op, lister, listed, sound>>

\* ReadPartial reads the second of the two replies that follow an ABOR.
Drain(u) ==
  /\ pc[u] = "drain" /\ conn = "open" /\ replies # <<>>
  /\ replies' = Tail(replies)
  /\ Continue(u, "cleanup")
  /\ UNCHANGED <<socket, asked, server, op, lister, listed, sound>>

\* What comes after a listing or a guarded method: a failed MLSD is tried
\* again as LIST, a removal goes on, a method returns.
FallsBack(u) == lister[u] = "MLSD" /\ ~listed[u] /\ op[u] \in {"list", "stat", "remove"}
AfterCleanup(u) ==
  IF op[u] = "remove" THEN (IF listed[u] THEN Removals ELSE {"RMD"}) ELSE {"idle"}

\* The function applyDeadline returned, deferred to the end of the method: it
\* uses c.conn as it is, too.  An upload's data connection ends with it.
Cleanup(u) ==
  /\ pc[u] = "cleanup"
  /\ IF conn = "nil" THEN Continue(u, "panicked") /\ UNCHANGED <<armed, lister>>
     ELSE /\ armed' = FALSE
          /\ IF FallsBack(u)
               THEN Continue(u, "deadline") /\ lister' = [lister EXCEPT ![u] = "LIST"]
               ELSE /\ \E next \in AfterCleanup(u) : Continue(u, next)
                    /\ lister' = [lister EXCEPT ![u] = IF mlsd THEN "MLSD" ELSE "LIST"]
  /\ HangUp(u)
  /\ Listed(u, FALSE)
  /\ UNCHANGED <<conn, ready, mlsd, wire, listening, transfer, op, sound>>

\* Connect returns nil and the manager makes the session usable.
Connected(u) ==
  /\ pc[u] = "ready"
  /\ ready' = TRUE
  /\ lister' = [w \in Users |-> IF mlsd THEN "MLSD" ELSE "LIST"]
  /\ Continue(u, "idle")
  /\ UNCHANGED <<conn, armed, mlsd, wire, server, op, listed, sound>>

\* Close, after QUIT: c.conn.Close() and c.conn = nil.
Shut(u) ==
  /\ pc[u] = "shut"
  /\ IF conn = "nil" THEN Continue(u, "panicked") /\ UNCHANGED conn
     ELSE conn' = "shut" /\ Continue(u, "forget")
  /\ asked' = <<>> /\ replies' = <<>> /\ transfer' = NoTransfer
  /\ UNCHANGED <<armed, ready, mlsd, listening, data, op, lister, listed, sound>>

Forget(u) ==
  /\ pc[u] = "forget"
  /\ conn' = "nil"
  /\ Continue(u, "idle")
  /\ UNCHANGED <<armed, ready, mlsd, wire, server, op, lister, listed, sound>>

------------------------------------------------------------------------------
(* The server: it answers commands in their order                          *)

Reply(c, ok) == [to |-> c, ok |-> ok]

\* A command without a data connection is done or refused.
Answer ==
  /\ asked # <<>> /\ transfer = NoTransfer
  /\ Head(asked).verb \notin DataVerbs \cup {"ABOR"}
  /\ \E ok \in BOOLEAN :
       /\ replies' = Append(replies, Reply(Head(asked), ok))
       /\ listening' = IF ok /\ Head(asked).verb \in Passive THEN Head(asked).by
                       ELSE listening
  /\ asked' = Tail(asked)
  /\ UNCHANGED <<socket, transfer, data, pc, op, verb, lister, listed, sound>>

\* A data command is refused, or accepted with a preliminary reply.
AnswerData ==
  /\ asked # <<>> /\ transfer = NoTransfer
  /\ Head(asked).verb \in DataVerbs
  /\ \/ /\ replies' = Append(replies, Reply(Head(asked), FALSE))
        /\ UNCHANGED <<transfer, data>>
     \/ /\ listening # None
        /\ replies' = Append(replies, Reply(Head(asked), TRUE))
        /\ transfer' = Head(asked) /\ data' = "none"
  /\ asked' = Tail(asked)
  /\ UNCHANGED <<socket, listening, pc, op, verb, lister, listed, sound>>

\* The final reply of a transfer: its data connection ended, or the server has
\* sent all there is.
EndTransfer ==
  /\ transfer # NoTransfer
  /\ data = "ended" \/ (data = "open" /\ transfer.verb \in Listings \cup {"RETR"})
  /\ \E ok \in BOOLEAN : replies' = Append(replies, Reply(transfer, ok))
  /\ transfer' = NoTransfer /\ data' = "ended"
  /\ UNCHANGED <<socket, asked, listening, pc, op, verb, lister, listed, sound>>

\* Nobody opened the data connection.
GiveUp ==
  /\ transfer # NoTransfer /\ data = "none"
  /\ pc[transfer.by] \notin {"reply", "dial"}
  /\ replies' = Append(replies, Reply(transfer, FALSE))
  /\ transfer' = NoTransfer
  /\ UNCHANGED <<socket, asked, listening, data, pc, op, verb, lister, listed, sound>>

\* ABOR is looked at during a transfer: it ends that with an error reply of its
\* own, then is answered itself.
Abort ==
  /\ asked # <<>> /\ Head(asked).verb = "ABOR"
  /\ replies' = IF transfer = NoTransfer
                  THEN Append(replies, Reply(Head(asked), TRUE))
                  ELSE replies \o <<Reply(transfer, FALSE), Reply(Head(asked), TRUE)>>
  /\ transfer' = NoTransfer
  /\ data' = IF transfer = NoTransfer THEN data ELSE "ended"
  /\ asked' = Tail(asked)
  /\ UNCHANGED <<socket, listening, pc, op, verb, lister, listed, sound>>

\* The connection breaks, and with it what was under way.
Drop ==
  /\ conn = "open" /\ "drop" \in Failures
  /\ conn' = "shut"
  /\ asked' = <<>> /\ replies' = <<>> /\ transfer' = NoTransfer
  /\ UNCHANGED <<armed, ready, mlsd, listening, data, pc, op, verb, lister, listed, sound>>

Server == Answer \/ AnswerData \/ EndTransfer \/ GiveUp \/ Abort

------------------------------------------------------------------------------
Step(u) ==
  \/ SetDeadline(u) \/ Send(u) \/ Read(u) \/ ReadFails(u)
  \/ Dial(u) \/ DialFails(u) \/ Transferred(u) \/ TransferFails(u)
  \/ Final(u) \/ Drain(u) \/ Cleanup(u)
  \/ Connected(u) \/ Shut(u) \/ Forget(u)

Next ==
  \/ \E u \in Users : Step(u) \/ TimesOut(u) \/ \E o \in Calls : Begin(u, o)
  \/ Server \/ Drop

Spec == Init /\ [][Next]_vars

\* Goroutines run, and the server answers what it was asked, at any pace.
FairSpec == Spec /\ WF_vars(Server) /\ \A u \in Users : WF_vars(Step(u))

------------------------------------------------------------------------------
(* What the design promises and the code keeps                             *)

\* Nothing is due from the server.
Quiet == asked = <<>> /\ replies = <<>> /\ transfer = NoTransfer

\* A user that puts a command on the wire; ABOR alone may follow a command
\* whose final reply is due.
Sends(u) == Send(u) /\ conn = "open" /\ verb[u] # "ABOR"

\* As long as no transfer but an MLSD has failed and calls did not overlap, a
\* command is sent only when every earlier reply has been read, whatever the
\* server refuses (ftp_client.go:291-292): through the fall-backs from EPSV to
\* PASV and from MLSD to LIST, the two replies of an aborted preview, and the
\* recursion of Remove.
InStep == [][\A u \in Users : sound /\ Sends(u) => Quiet]_vars

\* In the same circumstances a user reads the reply to its own last command;
\* only the reply to ABOR may be preceded by the one to the aborted command.
OwnReply ==
  [][\A u \in Users : sound /\ (Read(u) \/ Final(u)) =>
       /\ Head(replies).to.by = u
       /\ Head(replies).to.verb = verb[u] \/ verb[u] = "ABOR"]_vars

\* In the same circumstances nobody is left waiting: every reply a method waits
\* for is one that the server owes, after refusals, fall-backs and aborts alike.
RepliesArrive == \A u \in Users : Waits(u) ~> (~Waits(u) \/ ~sound)
==============================================================================
