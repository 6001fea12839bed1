----------------------------- MODULE SessionsProofs -----------------------------
(***************************************************************************)
(* Proofs about Sessions for every number of profiles, requests and        *)
(* sessions.                                                               *)
(***************************************************************************)
EXTENDS Sessions, FiniteSetTheorems, TLAPS

\* Where a thread is still to settle the session it registered.
Settling == Dials \cup {"unregister", "connected"}

\* The locals of a thread are set where its next step reads them.
LocalsSet ==
  \A t \in Callers :
    pc[t] \in Settling \cup {"remove", "close", "disconnected"} => sess[t] \in Ids

\* An identifier is fresh until it is registered.
FreshIds ==
  \A s \in Ids : state[s] = "new" => /\ s \notin table \cup doomed
                                     /\ \A t \in Callers : sess[t] # s

\* A session is settled by one thread, and not connected before that.
OneSettler ==
  \A t \in Callers : pc[t] \in Settling =>
    /\ state[sess[t]] # "connected"
    /\ \A u \in Callers : (pc[u] \in Settling /\ sess[u] = sess[t]) => u = t

\* What was taken out of the table has one closer.
TakenOnce ==
  /\ doomed \cap table = {}
  /\ \A t \in Callers : pc[t] \in {"close", "disconnected"} => sess[t] \notin table
  /\ \A t \in Callers : pc[t] = "close" =>
       /\ sess[t] \notin doomed
       /\ \A u \in Callers : (pc[u] = "close" /\ sess[u] = sess[t]) => u = t

\* What is in the table is being connected or stands.
TableStands ==
  /\ \A s \in table : state[s] \in {"connecting", "connected"}
  /\ \A s \in table : state[s] = "connected" => link[s] \in {"open", "dropped"}
  /\ \A t \in Callers : (pc[t] = "connected" /\ sess[t] \in table)
       => link[sess[t]] \in {"open", "dropped"}

\* The inductive invariant.  UsableIsOpen needs it all: that a session in the
\* table has an open connection follows from who closes (TakenOnce), from who
\* writes "connected" and when (OneSettler), and from nobody reusing an
\* identifier (FreshIds).
Registry ==
  /\ TypeOK /\ LocalsSet /\ FreshIds /\ OneSettler /\ TakenOnce /\ TableStands
  /\ ConnectingIsAttended

------------------------------------------------------------------------------
(* Every step keeps it                                                     *)

\* The first step of a request (manager.go:315, 380, 389, 408, 246).
LEMMA RegistryRequest ==
  ASSUME Registry, NEW t \in Callers, Request(t)
  PROVE  Registry'
<1> USE NoneAssumption, MainAssumption
        DEF Registry, TypeOK, LocalsSet, FreshIds, OneSettler, TakenOnce, TableStands,
            ConnectingIsAttended, Settling, Dials, Threads, Steps, Tasks, Ask, Goto, Deal,
            registry, MuFree
<1>1. ASSUME NEW c \in Conns, NEW request \in {"connect", "test"}, AskConnect(t, c, request)
      PROVE  Registry'
  BY <1>1 DEF AskConnect
<1>2. ASSUME NEW c \in Conns, AskDelete(t, c)
      PROVE  Registry'
  BY <1>2 DEF AskDelete
<1>3. ASSUME NEW s \in Ids, NEW request \in {"disconnect", "reconnect"},
             AskDisconnect(t, s, request)
      PROVE  Registry'
  BY <1>3 DEF AskDisconnect, States
<1> QED
  BY <1>1, <1>2, <1>3 DEF Request

\* The client dials, and settles on an open connection or none.
LEMMA RegistryDialing ==
  ASSUME Registry, NEW t \in Callers, Dialing(t)
  PROVE  Registry'
<1> USE NoneAssumption, MainAssumption
        DEF Registry, TypeOK, LocalsSet, FreshIds, OneSettler, TakenOnce, TableStands,
            ConnectingIsAttended, Settling, Dials, Threads, Steps, Links, Goto, Wire, registry
<1>1. CASE DialFtp(t)
  BY <1>1 DEF DialFtp
<1>2. CASE DialSftp(t)
  BY <1>2 DEF DialSftp
<1>3. CASE Login(t)
  BY <1>3 DEF Login
<1>4. CASE ConnectFails(t)
  BY <1>4 DEF ConnectFails, AfterClose
<1> QED
  BY <1>1, <1>2, <1>3, <1>4 DEF Dialing

\* Connect before and after the dial.
LEMMA RegistryConnect ==
  ASSUME Registry, NEW t \in Callers,
         Lookup(t) \/ LookupFails(t) \/ (\E s \in Ids : Register(t, s))
           \/ Unregister(t) \/ Connected(t)
  PROVE  Registry'
<1> USE NoneAssumption, MainAssumption
        DEF Registry, TypeOK, LocalsSet, FreshIds, OneSettler, TakenOnce, TableStands,
            ConnectingIsAttended, Settling, Dials, Threads, Steps, States, Tasks, Goto, Deal,
            Become, Answer, registry, MuFree
<1>1. CASE Lookup(t)
  BY <1>1 DEF Lookup
<1>2. CASE LookupFails(t)
  BY <1>2 DEF LookupFails
<1>3. ASSUME NEW s \in Ids, Register(t, s)
      PROVE  Registry'
  BY <1>3 DEF Register
<1>4. CASE Unregister(t)
  BY <1>4 DEF Unregister
<1>5. CASE Connected(t)
  BY <1>5 DEF Connected
<1> QED
  BY <1>1, <1>2, <1>3, <1>4, <1>5

\* Disconnect, alone or as the first half of Reconnect.
LEMMA RegistryDisconnect ==
  ASSUME Registry, NEW t \in Callers,
         Remove(t) \/ RemoveMisses(t) \/ Close(t) \/ Disconnected(t)
  PROVE  Registry'
<1> USE NoneAssumption, MainAssumption
        DEF Registry, TypeOK, LocalsSet, FreshIds, OneSettler, TakenOnce, TableStands,
            ConnectingIsAttended, Settling, Dials, Threads, Steps, States, Tasks, Links, Goto,
            Deal, Become, Wire, Answer, Onward, registry, MuFree
<1>1. CASE Remove(t)
  BY <1>1 DEF Remove
<1>2. CASE RemoveMisses(t)
  BY <1>2 DEF RemoveMisses
<1>3. CASE Close(t)
  BY <1>3 DEF Close, AfterClose
<1>4. CASE Disconnected(t)
  BY <1>4 DEF Disconnected
<1> QED
  BY <1>1, <1>2, <1>3, <1>4

\* DeleteProfile closes and removes under one lock.
LEMMA RegistryDelete ==
  ASSUME Registry, NEW t \in Callers,
         (\E s \in Ids : DeleteSession(t, s)) \/ DeleteEnd(t) \/ Forget(t)
  PROVE  Registry'
<1> USE NoneAssumption, MainAssumption
        DEF Registry, TypeOK, LocalsSet, FreshIds, OneSettler, TakenOnce, TableStands,
            ConnectingIsAttended, Settling, Dials, Threads, Steps, Tasks, Links, Goto, Deal,
            Wire, Answer, registry, thread
<1>1. ASSUME NEW s \in Ids, DeleteSession(t, s)
      PROVE  Registry'
  BY <1>1 DEF DeleteSession, SessionsOf, AfterClose
<1>2. CASE DeleteEnd(t)
  BY <1>2 DEF DeleteEnd
<1>3. CASE Forget(t)
  BY <1>3 DEF Forget
<1> QED
  BY <1>1, <1>2, <1>3

\* Shutdown, and a server that drops a connection.
LEMMA RegistryStopping ==
  ASSUME Registry, Stopping \/ (\E s \in Ids : Drop(s))
  PROVE  Registry'
<1> USE NoneAssumption, MainAssumption
        DEF Registry, TypeOK, LocalsSet, FreshIds, OneSettler, TakenOnce, TableStands,
            ConnectingIsAttended, Settling, Dials, Threads, Steps, Links, Goto, Wire,
            registry, thread
<1>1. CASE Shutdown
  BY <1>1 DEF Shutdown
<1>2. ASSUME NEW s \in Ids, CloseDoomed(s)
      PROVE  Registry'
  BY <1>2 DEF CloseDoomed, AfterClose
<1>3. CASE ShutdownEnds
  BY <1>3 DEF ShutdownEnds
<1>4. ASSUME NEW s \in Ids, Drop(s)
      PROVE  Registry'
  BY <1>4 DEF Drop
<1> QED
  BY <1>1, <1>2, <1>3, <1>4 DEF Stopping

\* The session table is right at the start and every step keeps it so
\* (manager.go:315-418, 544-555).
THEOREM RegistryInvariant == Spec => []Registry
<1>1. Init => Registry
  BY NoneAssumption, MainAssumption
     DEF Init, Registry, TypeOK, LocalsSet, FreshIds, OneSettler, TakenOnce, TableStands,
         ConnectingIsAttended, Settling, Dials, Threads, Steps, States, Links, Tasks
<1>2. Registry /\ [Next]_vars => Registry'
  <2> SUFFICES ASSUME Registry, [Next]_vars PROVE Registry'
    OBVIOUS
  <2>1. ASSUME NEW t \in Callers, Request(t) \/ Dialing(t) \/ Serve(t)
        PROVE  Registry'
    BY <2>1, RegistryRequest, RegistryDialing, RegistryConnect, RegistryDisconnect,
       RegistryDelete DEF Serve
  <2>2. CASE Stopping \/ \E s \in Ids : Drop(s)
    BY <2>2, RegistryStopping
  <2>3. CASE UNCHANGED vars
    BY <2>3 DEF vars, registry, thread, Registry, TypeOK, LocalsSet, FreshIds, OneSettler,
                TakenOnce, TableStands, ConnectingIsAttended
  <2> QED
    BY <2>1, <2>2, <2>3 DEF Next, AtRest
<1> QED
  BY <1>1, <1>2, PTL DEF Spec

------------------------------------------------------------------------------
(* What follows from it                                                    *)

\* The table, the connections and the threads keep their types: no session is
\* in the table under an identifier nobody gave out (manager.go:315-347).
THEOREM TypeInvariant == Spec => []TypeOK
<1>1. Registry => TypeOK
  BY DEF Registry
<1> QED
  BY <1>1, RegistryInvariant, PTL

\* No file operation or transfer gets a client that the engine has closed
\* (manager.go:434-445).
THEOREM UsableSessions == Spec => []UsableIsOpen
<1>1. Registry => UsableIsOpen
  BY DEF Registry, TableStands, UsableIsOpen, Usable
<1> QED
  BY <1>1, RegistryInvariant, PTL

\* No session stays in the table as connecting with nobody to settle it
\* (manager.go:338-347).
THEOREM SettledSessions == Spec => []ConnectingIsAttended
<1>1. Registry => ConnectingIsAttended
  BY DEF Registry
<1> QED
  BY <1>1, RegistryInvariant, PTL

\* A session is closed by the one thread that took it out of the table
\* (manager.go:389-399, 545-554).
THEOREM ClosedByOne == Spec => []OneCloser
<1>1. Registry => OneCloser
  <2> SUFFICES ASSUME Registry, NEW s \in Ids
               PROVE  /\ Cardinality(Closers(s)) <= 1
                      /\ s \in table => Closers(s) = {}
    BY DEF OneCloser
  <2>1. ASSUME NEW t \in Closers(s)
        PROVE  Closers(s) = {t}
    BY <2>1, MainAssumption DEF Closers, Registry, TakenOnce
  <2>2. s \in table => Closers(s) = {}
    BY DEF Closers, Registry, TakenOnce
  <2>3. Cardinality(Closers(s)) <= 1
    <3>1. CASE Closers(s) = {}
      BY <3>1, FS_EmptySet
    <3>2. ASSUME NEW t \in Closers(s)
          PROVE  Cardinality(Closers(s)) <= 1
      <4>1. Cardinality({t}) = 1
        BY FS_Singleton
      <4> QED
        BY <2>1, <4>1
    <3> QED
      BY <3>1, <3>2
  <2> QED
    BY <2>2, <2>3
<1> QED
  BY <1>1, RegistryInvariant, PTL
==============================================================================
