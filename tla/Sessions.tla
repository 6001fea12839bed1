--------------------------------- MODULE Sessions ---------------------------------
(***************************************************************************)
(* The session table of internal/manager/manager.go: requests connect,     *)
(* disconnect, reconnect, test and delete connection profiles while other  *)
(* requests do the same and the engine shuts down.  A session enters the   *)
(* table before its client dials and the dialing holds no lock, so that    *)
(* everything may happen to it meanwhile.                                  *)
(*                                                                         *)
(* A session's metadata, the events and the credential vault are left out. *)
(***************************************************************************)
EXTENDS Naturals, FiniteSets

CONSTANTS Conns,      \* connection profiles
          Ftp,        \* those that speak FTP; the others speak SFTP
          Ids,        \* bound: the session identifiers of this instance
          Callers,    \* request goroutines
          Main,       \* the goroutine that shuts the engine down
          None        \* no thread, no session, no profile

ASSUME ConnsAssumption == Ftp \subseteq Conns
ASSUME NoneAssumption == None \notin Conns \cup Ids \cup Callers \cup {Main}
ASSUME MainAssumption == Main \notin Callers

Threads == Callers \cup {Main}

VARIABLES
  profiles,  \* the profiles of the configuration store
  table,     \* the keys of m.sessions
  state,     \* Session.State; "new" before the identifier is used
  owner,     \* Session.ConnID
  link,      \* what the session's client holds: see Links
  holder,    \* the thread that keeps m.mu over several steps
  pc,        \* the next step of each thread
  task,      \* the request each thread serves
  sess,      \* the session each thread is dealing with
  conn,      \* the profile each thread is dealing with
  doomed     \* the sessions Shutdown took out of the table and has yet to close

registry == <<table, state, owner>>
thread   == <<pc, task, sess, conn>>
vars     == <<profiles, registry, link, holder, thread, doomed>>

\* A client holds no connection, one on which the login still runs, a usable
\* one, one that its server dropped, or one that was closed.
Links  == {"none", "login", "open", "dropped", "closed"}
States == {"new", "connecting", "connected", "disconnected"}
Tasks  == {"none", "connect", "test", "disconnect", "reconnect", "delete"}
Dials  == {"dial", "login"}
Steps  == {"idle", "lookup", "register", "unregister", "connected", "remove",
           "close", "disconnected", "deleting", "forget", "down"} \cup Dials

TypeOK ==
  /\ profiles \subseteq Conns /\ table \subseteq Ids /\ doomed \subseteq Ids
  /\ state \in [Ids -> States] /\ link \in [Ids -> Links]
  /\ owner \in [Ids -> Conns \cup {None}]
  /\ holder \in Callers \cup {None} /\ (holder # None => pc[holder] = "deleting")
  /\ pc \in [Threads -> Steps] /\ task \in [Threads -> Tasks]
  /\ sess \in [Threads -> Ids \cup {None}]
  /\ conn \in [Threads -> Conns \cup {None}]

Init ==
  /\ profiles = Conns /\ table = {} /\ doomed = {}
  /\ state = [s \in Ids |-> "new"] /\ link = [s \in Ids |-> "none"]
  /\ owner = [s \in Ids |-> None]
  /\ holder = None
  /\ pc = [t \in Threads |-> "idle"] /\ task = [t \in Threads |-> "none"]
  /\ sess = [t \in Threads |-> None] /\ conn = [t \in Threads |-> None]

MuFree == holder = None

Goto(t, step)  == pc' = [pc EXCEPT ![t] = step]
Deal(t, s)     == sess' = [sess EXCEPT ![t] = s]
Become(s, st)  == state' = [state EXCEPT ![s] = st]
Wire(s, l)     == link' = [link EXCEPT ![s] = l]

\* The request is answered.
Answer(t) ==
  /\ Goto(t, "idle") /\ Deal(t, None)
  /\ task' = [task EXCEPT ![t] = "none"]
  /\ conn' = [conn EXCEPT ![t] = None]

\* Client.Close: nothing to close before the connection is stored in the client.
AfterClose(l) == IF l = "none" THEN "none" ELSE "closed"

Ask(t, request) == t \in Callers /\ pc[t] = "idle" /\ task' = [task EXCEPT ![t] = request]

------------------------------------------------------------------------------
(* Connect                                                                 *)

\* Connect and TestConnection.
AskConnect(t, c, request) ==
  /\ Ask(t, request)
  /\ conn' = [conn EXCEPT ![t] = c]
  /\ Goto(t, "lookup")
  /\ UNCHANGED <<profiles, registry, link, holder, sess, doomed>>

\* The profile is read and its adapter built, without m.mu.
Lookup(t) ==
  /\ pc[t] = "lookup" /\ conn[t] \in profiles
  /\ Goto(t, "register")
  /\ UNCHANGED <<profiles, registry, link, holder, task, sess, conn, doomed>>

\* No such profile, no access to its secrets, or no adapter for it.
LookupFails(t) ==
  /\ pc[t] = "lookup"
  /\ Answer(t)
  /\ UNCHANGED <<profiles, registry, link, holder, doomed>>

\* Faulty: m.mu stays locked while the client dials.
RegisterKeepsLock(t, s) ==
  /\ pc[t] = "register" /\ MuFree
  /\ state[s] = "new"
  /\ table' = table \cup {s}
  /\ Become(s, "connecting")
  /\ owner' = [owner EXCEPT ![s] = conn[t]]
  /\ holder' = t
  /\ Deal(t, s) /\ Goto(t, "dial")
  /\ UNCHANGED <<profiles, link, task, conn, doomed>>

Register(t, s) ==
  /\ pc[t] = "register" /\ MuFree
  /\ state[s] = "new"
  /\ table' = table \cup {s}
  /\ Become(s, "connecting")
  /\ owner' = [owner EXCEPT ![s] = conn[t]]
  /\ Deal(t, s) /\ Goto(t, "dial")
  /\ UNCHANGED <<profiles, link, holder, task, conn, doomed>>

\* The FTP client stores its connection before it logs in.
DialFtp(t) ==
  /\ pc[t] = "dial" /\ conn[t] \in Ftp
  /\ Wire(sess[t], "login") /\ Goto(t, "login")
  /\ UNCHANGED <<profiles, registry, holder, task, sess, conn, doomed>>

\* The SFTP client stores its connection when it is ready for use.
DialSftp(t) ==
  /\ pc[t] = "dial" /\ conn[t] \notin Ftp
  /\ Wire(sess[t], "open") /\ Goto(t, "connected")
  /\ UNCHANGED <<profiles, registry, holder, task, sess, conn, doomed>>

Login(t) ==
  /\ pc[t] = "login" /\ link[sess[t]] = "login"
  /\ Wire(sess[t], "open") /\ Goto(t, "connected")
  /\ UNCHANGED <<profiles, registry, holder, task, sess, conn, doomed>>

\* Unreachable, untrusted, refused, or closed under the login: the client
\* closes what it holds.
ConnectFails(t) ==
  /\ pc[t] \in Dials
  /\ Wire(sess[t], AfterClose(link[sess[t]]))
  /\ Goto(t, "unregister")
  /\ UNCHANGED <<profiles, registry, holder, task, sess, conn, doomed>>

\* Faulty: the session of a failed attempt stays in the table.
UnregisterForgotten(t) ==
  /\ pc[t] = "unregister" /\ MuFree
  /\ Answer(t)
  /\ UNCHANGED <<profiles, registry, link, holder, doomed>>

Unregister(t) ==
  /\ pc[t] = "unregister" /\ MuFree
  /\ table' = table \ {sess[t]}
  /\ Answer(t)
  /\ UNCHANGED <<profiles, state, owner, link, holder, doomed>>

\* The state is written without m.mu; whether the session is still in the
\* table is not looked at.  TestConnection goes on to disconnect it.
Connected(t) ==
  /\ pc[t] = "connected"
  /\ Become(sess[t], "connected")
  /\ IF task[t] = "test" THEN Goto(t, "remove") /\ UNCHANGED <<task, sess, conn>>
                         ELSE Answer(t)
  /\ UNCHANGED <<profiles, table, owner, link, holder, doomed>>

------------------------------------------------------------------------------
(* Disconnect and Reconnect                                                *)

\* Reconnect first reads the session's profile, in a section of its own.
AskDisconnect(t, s, request) ==
  /\ Ask(t, request)
  /\ s \in table /\ MuFree
  /\ Deal(t, s) /\ conn' = [conn EXCEPT ![t] = owner[s]]
  /\ Goto(t, "remove")
  /\ UNCHANGED <<profiles, registry, link, holder, doomed>>

\* Faulty: Reconnect insists on a Disconnect without an error.
OnwardAgain(t) ==
  IF task[t] = "reconnect" THEN Goto(t, "remove") /\ UNCHANGED <<task, sess, conn>>
  ELSE Answer(t)

\* What follows Disconnect, whatever it returned.
Onward(t) ==
  IF task[t] = "reconnect" THEN Goto(t, "lookup") /\ Deal(t, None) /\ UNCHANGED <<task, conn>>
  ELSE Answer(t)

\* Faulty: the session is looked up and left in the table until it is closed.
RemoveLater(t) ==
  /\ pc[t] = "remove" /\ MuFree
  /\ sess[t] \in table
  /\ Goto(t, "close")
  /\ UNCHANGED <<profiles, registry, link, holder, task, sess, conn, doomed>>

\* Whoever takes the session out of the table closes it.
Remove(t) ==
  /\ pc[t] = "remove" /\ MuFree
  /\ sess[t] \in table
  /\ table' = table \ {sess[t]}
  /\ Goto(t, "close")
  /\ UNCHANGED <<profiles, state, owner, link, holder, task, sess, conn, doomed>>

RemoveMisses(t) ==
  /\ pc[t] = "remove" /\ MuFree
  /\ sess[t] \notin table
  /\ Onward(t)
  /\ UNCHANGED <<profiles, registry, link, holder, doomed>>

Close(t) ==
  /\ pc[t] = "close"
  /\ Wire(sess[t], AfterClose(link[sess[t]]))
  /\ Goto(t, "disconnected")
  /\ UNCHANGED <<profiles, registry, holder, task, sess, conn, doomed>>

Disconnected(t) ==
  /\ pc[t] = "disconnected"
  /\ Become(sess[t], "disconnected")
  /\ Onward(t)
  /\ UNCHANGED <<profiles, table, owner, link, holder, doomed>>

------------------------------------------------------------------------------
(* DeleteProfile: closes the profile's sessions while it holds m.mu        *)

AskDelete(t, c) ==
  /\ Ask(t, "delete") /\ MuFree
  /\ conn' = [conn EXCEPT ![t] = c]
  /\ holder' = t
  /\ Goto(t, "deleting")
  /\ UNCHANGED <<profiles, registry, link, sess, doomed>>

SessionsOf(c) == {s \in table : owner[s] = c}

DeleteSession(t, s) ==
  /\ pc[t] = "deleting" /\ s \in SessionsOf(conn[t])
  /\ Wire(s, AfterClose(link[s]))
  /\ table' = table \ {s}
  /\ UNCHANGED <<profiles, state, owner, holder, thread, doomed>>

DeleteEnd(t) ==
  /\ pc[t] = "deleting" /\ SessionsOf(conn[t]) = {}
  /\ holder' = None
  /\ Goto(t, "forget")
  /\ UNCHANGED <<profiles, registry, link, task, sess, conn, doomed>>

\* The secrets, then the profile, are removed without m.mu.
Forget(t) ==
  /\ pc[t] = "forget"
  /\ profiles' = profiles \ {conn[t]}
  /\ Answer(t)
  /\ UNCHANGED <<registry, link, holder, doomed>>

------------------------------------------------------------------------------
(* Shutdown, and the servers                                               *)

\* The table is replaced by an empty one; its sessions are closed afterwards.
Shutdown ==
  /\ pc[Main] = "idle" /\ MuFree
  /\ doomed' = table /\ table' = {}
  /\ Goto(Main, "close")
  /\ UNCHANGED <<profiles, state, owner, link, holder, task, sess, conn>>

CloseDoomed(s) ==
  /\ pc[Main] = "close" /\ s \in doomed
  /\ Wire(s, AfterClose(link[s]))
  /\ doomed' = doomed \ {s}
  /\ UNCHANGED <<profiles, registry, holder, thread>>

ShutdownEnds ==
  /\ pc[Main] = "close" /\ doomed = {}
  /\ Goto(Main, "down")
  /\ UNCHANGED <<profiles, registry, link, holder, task, sess, conn, doomed>>

\* A server drops a connection; nobody in the engine notices by itself.
Drop(s) ==
  /\ link[s] = "open" /\ Wire(s, "dropped")
  /\ UNCHANGED <<profiles, registry, holder, thread, doomed>>

------------------------------------------------------------------------------
Request(t) ==
  \/ \E c \in Conns : \/ AskConnect(t, c, "connect") \/ AskConnect(t, c, "test")
                      \/ AskDelete(t, c)
  \/ \E s \in Ids : AskDisconnect(t, s, "disconnect") \/ AskDisconnect(t, s, "reconnect")
Dialing(t) == DialFtp(t) \/ DialSftp(t) \/ Login(t) \/ ConnectFails(t)
Serve(t) ==
  \/ Lookup(t) \/ LookupFails(t) \/ (\E s \in Ids : Register(t, s))
  \/ Unregister(t) \/ Connected(t)
  \/ Remove(t) \/ RemoveMisses(t) \/ Close(t) \/ Disconnected(t)
  \/ (\E s \in Ids : DeleteSession(t, s)) \/ DeleteEnd(t) \/ Forget(t)
Stopping == Shutdown \/ (\E s \in Ids : CloseDoomed(s)) \/ ShutdownEnds

\* Nothing left to do but new requests, or no identifier left for a session.
AtRest ==
  /\ \A t \in Callers : pc[t] = "idle" \/ (pc[t] = "register" /\ \A s \in Ids : state[s] # "new")
  /\ UNCHANGED vars

Next ==
  \/ \E t \in Callers : Request(t) \/ Dialing(t) \/ Serve(t)
  \/ Stopping
  \/ \E s \in Ids : Drop(s)
  \/ AtRest

Spec == Init /\ [][Next]_vars

\* Goroutines run and the mutex is handed to those that wait for it; closing a
\* client returns.  Nothing is assumed of a dial or a login: no deadline bounds
\* the SSH handshake or the replies of an FTP server.
FairSpec == Spec /\ \A t \in Callers : SF_vars(Serve(t))
------------------------------------------------------------------------------
(* What the design promises and the code keeps                             *)

\* What Client and Sessions0 hand out to file operations and transfers.
Usable(s) == s \in table /\ state[s] = "connected"

\* No file operation or transfer is given a client that the engine has closed,
\* however connects, disconnects and deletions interleave (manager.go:434-445):
\* the session leaves the table before, or under the same lock as, its client
\* is closed, and "connected" is only written over a connection that stands.
UsableIsOpen ==
  \A s \in Ids : (Usable(s) /\ MuFree) => link[s] \in {"open", "dropped"}

\* The threads that closed, or are about to close, what they took from the table.
Closers(s) == {t \in Callers : pc[t] = "close" /\ sess[t] = s}
                \cup (IF s \in doomed THEN {Main} ELSE {})

\* A session has one thread that closes it: the one that took it out of the
\* table (manager.go:389-399, 545-554).
OneCloser ==
  \A s \in Ids : Cardinality(Closers(s)) <= 1 /\ (s \in table => Closers(s) = {})

\* A session shown as connecting has a Connect behind it that will settle it:
\* none stays in the table for ever (manager.go:338-347, "the partial session
\* is removed").
ConnectingIsAttended ==
  \A s \in table : state[s] = "connecting"
    => \E t \in Callers : sess[t] = s /\ pc[t] \in Dials \cup {"unregister", "connected"}

\* A server that never answers holds up the request that dials it and no other:
\* every other request is answered (manager.go:338-344 dials without m.mu).
OthersAreAnswered ==
  \A t \in Callers : pc[t] # "idle" ~> pc[t] \in Dials \cup {"idle", "register"}
==============================================================================
