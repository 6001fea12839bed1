------------------------------ MODULE StoresProofs ------------------------------
(***************************************************************************)
(* Proofs about TrustStore and ProfileVault for every set of hosts,        *)
(* identities, attempts, profiles, secrets and requests.                   *)
(***************************************************************************)
EXTENDS ProfileVault, TrustStore, TLAPS

------------------------------------------------------------------------------
(* TrustStore                                                              *)

\* A handshake is about a host; the pin it was given is the certificate the store
\* trusted, which the user had confirmed, unless the host is an IPv6 address; and a
\* prompt shows an identity.
AttemptsAreSound ==
  \A a \in Attempts : attempt[a].pc # "idle" =>
    /\ attempt[a].host \in Hosts
    /\ attempt[a].pin = IF attempt[a].host \in Bracketed THEN NoId ELSE attempt[a].trusted
    /\ attempt[a].trusted \in attempt[a].allowed \cup {NoId}
    /\ attempt[a].pc = "prompt" => attempt[a].shown \in Identities

\* The inductive invariant.
Trusted == TrustTypeOK /\ AttemptsAreSound /\ OnlyConfirmedIsTrusted

\* Nothing is trusted at first.
LEMMA TrustedInit == TrustInit => Trusted
BY IdentityAssumption
   DEF TrustInit, Trusted, TrustTypeOK, Table, Attempt, NoAttempt, Kinds, AttemptsAreSound,
       OnlyConfirmedIsTrusted, Identities

\* A handshake begins, ends or turns into a prompt (manager.go:277-309, trust.go:112-157).
LEMMA TrustedHandshake ==
  ASSUME Trusted, NEW a \in Attempts,
         \/ \E h \in Hosts, kind \in Kinds : Dial(a, h, kind)
         \/ \E id \in Identities : Accept(a, id) \/ ChainFails(a, id) \/ Refuse(a, id)
         \/ Decline(a)
  PROVE  Trusted'
<1> USE IdentityAssumption
        DEF Trusted, TrustTypeOK, Table, Attempt, NoAttempt, AttemptsAreSound,
            OnlyConfirmedIsTrusted, Identities, Kinds
<1>1. ASSUME NEW h \in Hosts, NEW kind \in Kinds, Dial(a, h, kind)
      PROVE  Trusted'
  <2> DEFINE trusted == IF kind # "ssh" /\ entries[h] \in Certs THEN entries[h] ELSE NoId
             t == [NoAttempt EXCEPT !.pc = "handshake", !.host = h, !.kind = kind,
                     !.pin = IF h \in Bracketed THEN NoId ELSE trusted,
                     !.trusted = trusted, !.allowed = confirmed[h]]
  <2>1. attempt' = [attempt EXCEPT ![a] = t] /\ UNCHANGED <<entries, saved, pending, confirmed>>
    BY <1>1 DEF Dial
  <2>2. trusted \in Certs \cup {NoId} /\ trusted \in confirmed[h] \cup {NoId}
    OBVIOUS
  <2>3. /\ t \in Attempt /\ t.host = h /\ t.pc = "handshake" /\ t.allowed = confirmed[h]
        /\ t.trusted = trusted /\ t.pin = IF h \in Bracketed THEN NoId ELSE trusted
    BY <2>2
  <2> HIDE DEF t, trusted
  <2> QED BY <2>1, <2>2, <2>3
<1>2. ASSUME NEW id \in Identities, Accept(a, id) \/ ChainFails(a, id)
      PROVE  Trusted'
  BY <1>2 DEF Accept, ChainFails
<1>3. ASSUME NEW id \in Identities, Refuse(a, id)
      PROVE  Trusted'
  <2> DEFINE t == [attempt[a] EXCEPT !.pc = "prompt", !.shown = id]
  <2>1. /\ attempt[a] \in Attempt /\ attempt[a].host \in Hosts
        /\ attempt' = [attempt EXCEPT ![a] = t]
    BY <1>3 DEF Refuse
  <2>2. pending' \in Table /\ UNCHANGED <<entries, saved, confirmed>>
    BY <1>3, <2>1 DEF Refuse
  <2>3. /\ t \in Attempt /\ t.host = attempt[a].host /\ t.shown \in Identities
        /\ t.pin = attempt[a].pin /\ t.allowed = attempt[a].allowed
        /\ t.trusted = attempt[a].trusted
    <3>1. id \in Identities /\ attempt[a] \in Attempt BY <1>3, <2>1
    <3>2. t \in Attempt BY <3>1
    <3>3. t.host = attempt[a].host /\ t.shown = id BY <3>1
    <3>4. /\ t.pin = attempt[a].pin /\ t.allowed = attempt[a].allowed
          /\ t.trusted = attempt[a].trusted
      BY <3>1
    <3> QED BY <3>1, <3>2, <3>3, <3>4
  <2>4. attempt' \in [Attempts -> Attempt]
    BY <2>1, <2>3
  <2>5. attempt[a].pc # "idle" BY <1>3 DEF Refuse
  <2>6. AttemptsAreSound'
    <3> HIDE DEF t
    <3> QED BY <2>1, <2>3, <2>5
  <2> QED
    BY <2>2, <2>4, <2>6
<1>4. CASE Decline(a)
  BY <1>4 DEF Decline
<1> QED
  BY <1>1, <1>2, <1>3, <1>4

\* A Yes (trust.go:159-195): confirmed grows before the store does.
LEMMA TrustedYes ==
  ASSUME Trusted, NEW a \in Attempts, TrustPending(a)
  PROVE  Trusted'
<1> DEFINE h  == attempt[a].host
           id == attempt[a].shown
<1> USE IdentityAssumption DEF TrustPending
<1>1. h \in Hosts /\ id \in Identities /\ NoId \notin Identities
  BY DEF Trusted, AttemptsAreSound, Identities
<1>2. /\ entries' \in Table /\ saved' \in Table /\ pending' \in Table
      /\ confirmed' \in [Hosts -> SUBSET Identities]
  BY <1>1 DEF Trusted, TrustTypeOK, Table, Save
<1>3. attempt' \in [Attempts -> Attempt]
  BY <1>1 DEF Trusted, TrustTypeOK, Attempt, NoAttempt, Kinds
<1>4. AttemptsAreSound'
  BY <1>1 DEF Trusted, TrustTypeOK, Attempt, NoAttempt, Kinds, AttemptsAreSound
<1>5. OnlyConfirmedIsTrusted'
  <2> SUFFICES ASSUME NEW g \in Hosts
               PROVE  {entries'[g], saved'[g]} \subseteq confirmed'[g] \cup {NoId}
    BY DEF OnlyConfirmedIsTrusted
  <2>1. /\ {entries[g], saved[g]} \subseteq confirmed[g] \cup {NoId}
        /\ entries \in Table /\ saved \in Table /\ confirmed \in [Hosts -> SUBSET Identities]
    BY DEF Trusted, TrustTypeOK, OnlyConfirmedIsTrusted
  <2>2. confirmed'[g] = IF g = h THEN confirmed[g] \cup {id} ELSE confirmed[g]
    BY <2>1
  <2>3. /\ entries'[g] \in {entries[g], IF g = h THEN id ELSE entries[g]}
        /\ saved'[g] \in {saved[g], IF g = h THEN id ELSE entries[g]}
    BY <2>1 DEF Save, Table
  <2> QED
    BY <2>1, <2>2, <2>3
<1> QED
  BY <1>2, <1>3, <1>4, <1>5 DEF Trusted, TrustTypeOK

\* A revocation, and a start of a process (trust.go:61-82, 224-231).
LEMMA TrustedStore ==
  ASSUME Trusted, Reopen \/ \E h \in Hosts : RemoveTrust(h)
  PROVE  Trusted'
<1> USE IdentityAssumption
        DEF Trusted, TrustTypeOK, Table, Attempt, NoAttempt, AttemptsAreSound,
            OnlyConfirmedIsTrusted, Identities, Kinds
<1>1. CASE Reopen
  BY <1>1 DEF Reopen
<1>2. ASSUME NEW h \in Hosts, RemoveTrust(h)
      PROVE  Trusted'
  BY <1>2 DEF RemoveTrust, Save
<1> QED
  BY <1>1, <1>2

\* Every step of the store keeps the invariant.
LEMMA TrustedStep == Trusted /\ [TrustNext]_trustVars => Trusted'
<1> SUFFICES ASSUME Trusted, [TrustNext]_trustVars
             PROVE  Trusted'
  OBVIOUS
<1>1. CASE UNCHANGED trustVars
  BY <1>1 DEF trustVars, Trusted, TrustTypeOK, AttemptsAreSound, OnlyConfirmedIsTrusted
<1>2. CASE TrustNext
  BY <1>2, TrustedHandshake, TrustedYes, TrustedStore DEF TrustNext
<1> QED
  BY <1>1, <1>2

\* What memory, file and handshakes hold, and that they are sound.
THEOREM TrustedInvariant == TrustSpec => []Trusted
BY TrustedInit, TrustedStep, PTL DEF TrustSpec

\* The store trusts only what the user said Yes to and has not revoked, in memory
\* and on disk, in every order of handshakes, answers, revocations and restarts.
THEOREM ConfirmedInvariant == TrustSpec => []OnlyConfirmedIsTrusted
<1>1. Trusted => OnlyConfirmedIsTrusted
  BY DEF Trusted
<1> QED
  BY <1>1, TrustedInvariant, PTL

\* A handshake that checks the server succeeds only with what the user agreed to, and
\* with TLSVerify never with a certificate that does not verify, whatever the orders
\* of prompts, answers and revocations; TLSVerify off and the pin of an IPv6 address
\* are the exceptions HandshakeIsSafe names (ftp_client.go:105-113, manager.go:301).
THEOREM HandshakesAreSafe == TrustSpec => HandshakeIsSafe
<1> DEFINE Safe(a, id) ==
      LET t == attempt[a] IN
      /\ t.kind = "ssh" => id \in confirmed[t.host]
      /\ t.kind = "verified" =>
           /\ id \in Genuine
           /\ \/ id \in t.allowed
              \/ id \in Direct /\ (t.trusted = NoId \/ t.host \in Bracketed)
<1>1. ASSUME Trusted, NEW a \in Attempts, NEW id \in Identities, Accept(a, id)
      PROVE  Safe(a, id)
  <2>1. id # NoId /\ attempt[a].host \in Hosts /\ Accepts(a, id) /\ attempt[a].pc # "idle"
    BY <1>1, IdentityAssumption DEF Identities, Trusted, AttemptsAreSound, Accept
  <2>2. CASE attempt[a].kind = "ssh"
    BY <1>1, <2>1, <2>2 DEF Trusted, OnlyConfirmedIsTrusted, Accepts
  <2>3. CASE attempt[a].kind = "verified"
    BY <1>1, <2>1, <2>3 DEF Trusted, AttemptsAreSound, Accepts
  <2> QED BY <2>2, <2>3
<1>2. Trusted => [\A a \in Attempts, id \in Identities : Accept(a, id) => Safe(a, id)]_trustVars
  BY <1>1
<1> QED
  BY <1>2, TrustedInvariant, PTL DEF HandshakeIsSafe

------------------------------------------------------------------------------
(* ProfileVault                                                            *)

\* At most one process works in the data directory.  Two overwrite each other's
\* configuration, and neither property holds then.
OneProcess == \A by, other \in Procs : by = other

Vault == [Profiles -> Secrets \cup {None, "torn"}]

\* What a claim says of a profile's entry in a document.
Agrees(claim, entry) ==
  /\ claim \in Secrets => entry = [hasSecret |-> TRUE]
  /\ claim = "plain"   => entry = [hasSecret |-> FALSE]
  /\ claim = "there"   => entry # None
  /\ claim = "gone"    => entry = None

\* ... and of its entry in the vault.
Kept(claim, secret) ==
  /\ claim \in Secrets           => secret = claim
  /\ claim \in {"plain", "gone"} => secret = None

Fits(p, entry) ==
  Agrees(settled[p], entry) /\ (p \notin excused /\ vault[p] # None => entry # None)

\* A process may write its copy at any moment, so what is claimed of a profile holds
\* of the file and of the copy alike.
ProfileAgrees(p) ==
  /\ Fits(p, file[p]) /\ Kept(settled[p], vault[p])
  /\ \A by \in Procs : status[by] # "down" => Fits(p, root[by][p])

\* Nothing is claimed of a profile a request is dealing with, nor of an excused
\* one; a profile that is not excused has one request at most.
ClaimsRest ==
  /\ \A r \in Requests : req[r].pc # "idle" => settled[req[r].on] = "unknown"
  /\ \A p \in excused : settled[p] = "unknown"
  /\ \A r, o \in Requests : req[r].on = req[o].on /\ req[r].on \in Profiles \ excused => r = o

\* What a request has in its fields where its next step reads them.
FieldsSet(q) ==
  IF q.pc = "idle" THEN q = Idle
  ELSE /\ q.by \in Procs /\ q.on \in Profiles
       /\ q.pc \in {"upsert", "get"} =>
            IF q.from = None THEN q.wish \in Wishes /\ (q.pc = "get" => q.wish # "keep")
                             ELSE q.wish = None
       /\ q.pc \in {"truncate", "write"} => q.wish \in Secrets
       /\ q.pc = "clear" => q.wish = "clear" /\ q.from = None
       /\ q.pc = "flag" => q.wish \in Secrets \/ (q.wish = "clear" /\ q.from = None)

\* What a request has done to the two stores by then.
DoneSoFar(r) ==
  LET q == req[r] IN
  q.on \notin excused =>
    /\ q.pc \in {"get", "truncate", "write", "clear", "flag"} =>
         /\ file[q.on] # None /\ root[q.by][q.on] # None
         /\ q.from # None => /\ file[q.on] = [hasSecret |-> TRUE]
                             /\ root[q.by][q.on] = [hasSecret |-> TRUE]
    /\ q.pc = "flag" => vault[q.on] = IF q.wish = "clear" THEN None ELSE q.wish
    /\ q.pc = "drop" => vault[q.on] = None

\* The inductive invariant.
Agreed ==
  /\ TypeOK /\ ClaimsRest
  /\ \A r \in Requests : FieldsSet(req[r]) /\ DoneSoFar(r)
  /\ \A p \in Profiles : ProfileAgrees(p)

\* What every step of a request that is under way does: it touches its own profile
\* and writes the other ones as its process has them in memory ...
Elsewhere(r) ==
  \A g \in Profiles \ {req[r].on} :
    /\ vault'[g] = vault[g] /\ file'[g] \in {file[g], root[req[r].by][g]}
    /\ \A x \in Procs : root'[x][g] = root[x][g]

\* ... and moves on, or ends.
Works(r) ==
  LET p == req[r].on IN
  /\ req[r].pc # "idle" /\ req' = [req EXCEPT ![r] = req'[r]]
  /\ req'[r] \in Request /\ FieldsSet(req'[r])
  /\ req'[r].pc # "idle" => req'[r].on = p /\ req'[r].by = req[r].by
  /\ Elsewhere(r) /\ status' = status
  /\ \A g \in Profiles \ {p} : settled'[g] = settled[g]
  /\ settled'[p] # "unknown" => req'[r].pc = "idle" /\ p \notin excused'
  /\ excused \subseteq excused' /\ excused' \subseteq excused \cup {p}
  /\ ConfigTypeOK' /\ vault' \in Vault /\ settled' \in [Profiles -> Claims]
  /\ DoneSoFar(r)' /\ \A g \in Profiles : g = p => ProfileAgrees(g)'

LEMMA AgreedWork ==
  ASSUME OneProcess, Agreed, NEW r \in Requests, Works(r)
  PROVE  Agreed'
<1> DEFINE p  == req[r].on
           by == req[r].by
<1>1. /\ req \in [Requests -> Request] /\ req' \in [Requests -> Request]
      /\ p \in Profiles /\ by \in Procs /\ status[by] = "up"
      /\ req[r].pc # "idle" /\ excused \subseteq Profiles /\ settled[p] = "unknown"
  BY DEF Agreed, TypeOK, FieldsSet, Works, ClaimsRest
<1>2. \A o \in Requests \ {r} : req'[o] = req[o]
  BY <1>1 DEF Works
<1>3. req'[r].on \in {p, None} /\ None \notin Profiles
  BY NamesApart DEF Works, FieldsSet, Idle
<1>4. ClaimsRest'
  <2>1. \A o \in Requests : req'[o].pc # "idle" => settled'[req'[o].on] = "unknown"
    <3> SUFFICES ASSUME NEW o \in Requests, req'[o].pc # "idle"
                 PROVE  settled'[req'[o].on] = "unknown"
      OBVIOUS
    <3>1. CASE o = r
      BY <3>1 DEF Works
    <3>2. CASE o # r
      <4>1. req'[o] = req[o] /\ req[o].on \in Profiles /\ settled[req[o].on] = "unknown"
        BY <3>2, <1>2 DEF Agreed, ClaimsRest, FieldsSet
      <4>2. CASE req[o].on # p
        BY <4>1, <4>2 DEF Works
      <4>3. CASE req[o].on = p
        BY <4>1, <4>3, <3>2, <1>1 DEF Works, Agreed, ClaimsRest
      <4> QED
        BY <4>2, <4>3
    <3> QED
      BY <3>1, <3>2
  <2>2. \A g \in excused' : settled'[g] = "unknown"
    BY <1>1 DEF Works, Agreed, ClaimsRest, TypeOK
  <2>3. \A q, o \in Requests :
          req'[q].on = req'[o].on /\ req'[q].on \in Profiles \ excused' => q = o
    <3> SUFFICES ASSUME NEW q \in Requests, NEW o \in Requests, req'[q].on = req'[o].on,
                        req'[q].on \in Profiles \ excused'
                 PROVE  q = o
      OBVIOUS
    <3>1. req[q].on = req'[q].on /\ req[o].on = req'[o].on
      BY <1>2, <1>3
    <3>2. req[q].on \in Profiles \ excused
      BY <3>1 DEF Works
    <3> QED
      BY <3>1, <3>2 DEF Agreed, ClaimsRest
  <2> QED
    BY <2>1, <2>2, <2>3 DEF ClaimsRest
<1>5. ASSUME NEW o \in Requests
      PROVE  FieldsSet(req'[o]) /\ DoneSoFar(o)'
  <2>1. CASE o = r
    BY <2>1 DEF Works
  <2>2. CASE o # r
    <3>1. req'[o] = req[o] /\ FieldsSet(req[o]) /\ DoneSoFar(o)
      BY <2>2, <1>2 DEF Agreed
    <3>2. CASE req[o].pc = "idle"
      BY <3>1, <3>2 DEF DoneSoFar
    <3>3. CASE req[o].pc # "idle" /\ req[o].on \notin excused'
      <4>1. req[o].on \in Profiles \ excused /\ req[o].by = by
        BY <3>1, <3>3, <1>1 DEF FieldsSet, Works, OneProcess
      <4>2. req[o].on # p
        BY <4>1, <2>2 DEF Agreed, ClaimsRest
      <4>3. /\ vault'[req[o].on] = vault[req[o].on]
            /\ file'[req[o].on] \in {file[req[o].on], root[by][req[o].on]}
            /\ root'[by][req[o].on] = root[by][req[o].on]
        BY <4>1, <4>2, <1>1 DEF Works, Elsewhere
      <4> QED
        BY <3>1, <4>1, <4>3 DEF DoneSoFar
    <3> QED
      BY <3>1, <3>2, <3>3 DEF DoneSoFar
  <2> QED
    BY <2>1, <2>2
<1>6. ASSUME NEW g \in Profiles
      PROVE  ProfileAgrees(g)'
  <2>1. CASE g = p
    BY <2>1 DEF Works
  <2>2. CASE g # p
    <3>1. /\ vault'[g] = vault[g] /\ settled'[g] = settled[g] /\ status' = status
          /\ file'[g] \in {file[g], root[by][g]} /\ \A x \in Procs : root'[x][g] = root[x][g]
          /\ g \notin excused' => g \notin excused
      BY <2>2, <1>1 DEF Works, Elsewhere
    <3>2. ProfileAgrees(g) /\ Fits(g, root[by][g])
      BY <1>1 DEF Agreed, ProfileAgrees
    <3>3. \A entry : Fits(g, entry) => Fits(g, entry)'
      BY <3>1 DEF Fits, Agrees
    <3> QED
      BY <3>1, <3>2, <3>3 DEF ProfileAgrees
  <2> QED
    BY <2>1, <2>2
<1>7. TypeOK'
  BY <1>1, <1>2 DEF Works, Agreed, TypeOK, Vault
<1> QED
  BY <1>4, <1>5, <1>6, <1>7 DEF Agreed

\* What a request that is under way knows (cited by the lemmas on its steps).
LEMMA AtWork ==
  ASSUME Agreed, NEW r \in Requests, req[r].pc # "idle"
  PROVE  LET p  == req[r].on
             by == req[r].by
         IN
         /\ req \in [Requests -> Request] /\ p \in Profiles /\ by \in Procs
         /\ status[by] = "up" /\ settled[p] = "unknown" /\ settled \in [Profiles -> Claims]
         /\ excused \subseteq Profiles /\ FieldsSet(req[r]) /\ DoneSoFar(r) /\ ProfileAgrees(p)
         /\ p \in excused \/ \A o \in Requests \ {r} : req[o].on # p
         /\ vault \in Vault /\ ConfigTypeOK
BY DEF Agreed, TypeOK, FieldsSet, ClaimsRest, Vault

\* A request that has ended has nothing left to do, and claims nothing of an excused
\* profile.
LEMMA Reported ==
  ASSUME Agreed, NEW r \in Requests, req[r].pc # "idle",
         Fail(r) \/ \E claim \in Claims : Report(r, claim)
  PROVE  LET p == req[r].on
         IN
         /\ req' \in [Requests -> Request] /\ req' = [req EXCEPT ![r] = req'[r]]
         /\ req'[r] = Idle /\ FieldsSet(req'[r]) /\ DoneSoFar(r)'
         /\ settled' \in [Profiles -> Claims]
         /\ \A g \in Profiles \ {p} : settled'[g] = settled[g]
         /\ Fail(r) => settled'[p] = "unknown"
         /\ \A claim \in Claims : Report(r, claim) =>
              settled'[p] = IF p \in excused THEN "unknown" ELSE claim
<1>1. req' = [req EXCEPT ![r] = Idle] /\ Idle \in Request
  BY DEF Fail, Report, Idle, Request
<1>2. /\ req' \in [Requests -> Request] /\ req' = [req EXCEPT ![r] = req'[r]]
      /\ req'[r] = Idle /\ FieldsSet(req'[r])
  BY <1>1, AtWork DEF FieldsSet, Idle
<1>3. DoneSoFar(r)'
  BY <1>2 DEF DoneSoFar, Idle
<1> QED
  BY <1>1, <1>2, <1>3, AtWork DEF Fail, Report

\* A request that goes on keeps its fields.
LEMMA Went ==
  ASSUME Agreed, NEW r \in Requests, req[r].pc # "idle", 
         NEW step \in {"get", "truncate", "write", "clear", "flag", "drop"}, Goto(r, step)
  PROVE  /\ req' \in [Requests -> Request] /\ req' = [req EXCEPT ![r] = req'[r]]
         /\ req'[r] = [req[r] EXCEPT !.pc = step] /\ settled' = settled
         /\ req'[r].pc = step /\ req'[r].on = req[r].on /\ req'[r].by = req[r].by
         /\ req'[r].from = req[r].from /\ req'[r].wish = req[r].wish
<1> DEFINE new == [req[r] EXCEPT !.pc = step]
<1>1. req' = [req EXCEPT ![r] = new] /\ settled' = settled
  BY AtWork DEF Goto
<1>2. req[r] \in Request /\ new \in Request
  BY AtWork DEF Request
<1>3. /\ new.pc = step /\ new.on = req[r].on /\ new.by = req[r].by
      /\ new.from = req[r].from /\ new.wish = req[r].wish
  BY <1>2 DEF Request
<1> HIDE DEF new
<1>4. req' \in [Requests -> Request] /\ req'[r] = new
  BY <1>1, <1>2, AtWork
<1> QED
  BY <1>1, <1>3, <1>4 DEF new


\* A secret needs its profile, in the file and in memory.
Housed(p) ==
  p \in excused \/ vault[p] = None
    \/ (file[p] # None /\ \A by \in Procs : status[by] # "down" => root[by][p] # None)

\* Between its first write and its last a request finds its profile in the file and
\* in memory.
LEMMA Written ==
  ASSUME OneProcess, Agreed, NEW r \in Requests,
         req[r].pc \in {"get", "truncate", "write", "clear", "flag"}
  PROVE  LET p == req[r].on IN
         p \in excused \/ (file[p] # None /\ \A by \in Procs : root[by][p] # None)
<1>1. req[r].on \in excused \/ (file[req[r].on] # None /\ root[req[r].by][req[r].on] # None)
  BY AtWork DEF DoneSoFar
<1>2. \A by \in Procs : by = req[r].by
  BY AtWork DEF OneProcess
<1> QED
  BY <1>1, <1>2

\* ... and does so after its next step too, if that is one on the vault.
LEMMA WritesOn ==
  ASSUME Agreed, NEW r \in Requests, req[r].pc \in {"get", "truncate", "write", "clear"},
         req'[r].on = req[r].on, req'[r].by = req[r].by, req'[r].from = req[r].from,
         req'[r].pc \in {"truncate", "write", "clear", "flag"},
         root' = root, file' = file, excused \subseteq excused',
         req'[r].pc = "flag" =>
           \/ req[r].on \in excused'
           \/ vault'[req[r].on] = IF req'[r].wish = "clear" THEN None ELSE req'[r].wish
  PROVE  DoneSoFar(r)'
<1>1. req[r].on \in excused' \/ req[r].on \notin excused
  OBVIOUS
<1>2. DoneSoFar(r)
  BY AtWork
<1> QED
  BY <1>1, <1>2 DEF DoneSoFar

\* A request moves on to its next step.
LEMMA WorksOn ==
  ASSUME Agreed, NEW r \in Requests, req[r].pc # "idle",
         req'[r].pc # "idle", req'[r].on = req[r].on, req'[r].by = req[r].by,
         req' = [req EXCEPT ![r] = req'[r]], req'[r] \in Request, FieldsSet(req'[r]),
         settled' = settled, status' = status, Elsewhere(r), ConfigTypeOK', vault' \in Vault,
         excused' \in {excused, excused \cup {req[r].on}},
         DoneSoFar(r)', \A g \in Profiles : g = req[r].on => Housed(g)'
  PROVE  Works(r)
<1>1. ASSUME NEW g \in Profiles, g = req[r].on
      PROVE  ProfileAgrees(g)'
  BY <1>1, AtWork, NamesApart DEF Housed, ProfileAgrees, Fits, Agrees, Kept
<1> QED
  BY <1>1, AtWork DEF Works

\* A request ends, and what it claims holds in both stores.
LEMMA WorksEnd ==
  ASSUME Agreed, NEW r \in Requests, req[r].pc # "idle",
         Fail(r) \/ \E claim \in Claims : Report(r, claim),
         status' = status, Elsewhere(r), ConfigTypeOK', vault' \in Vault, excused' = excused,
         \A g \in Profiles : g = req[r].on => Housed(g)',
         LET p == req[r].on IN
         p \notin excused => /\ Agrees(settled'[p], file'[p]) /\ Kept(settled'[p], vault'[p])
                             /\ \A by \in Procs : Agrees(settled'[p], root'[by][p])
  PROVE  Works(r)
<1> DEFINE p == req[r].on
<1>1. ASSUME NEW g \in Profiles, g = p
      PROVE  ProfileAgrees(g)'
  <2>1. CASE settled'[p] = "unknown"
    BY <1>1, <2>1, NamesApart DEF Housed, ProfileAgrees, Fits, Agrees, Kept
  <2>2. CASE p \notin excused
    BY <1>1, <2>2 DEF Housed, ProfileAgrees, Fits, Agrees
  <2> QED
    BY <2>1, <2>2, Reported
<1>2. settled'[p] # "unknown" => p \notin excused
  BY Reported
<1> QED
  BY <1>1, <1>2, Reported, AtWork DEF Works, Idle

\* The vault is read (manager.go:187-201, 228-230).
LEMMA WorksGet ==
  ASSUME OneProcess, Agreed, NEW r \in Requests, Get(r)
  PROVE  Works(r)
<1> DEFINE p == req[r].on
<1>1. /\ req[r].pc = "get" /\ UNCHANGED <<root, file, status, vault, excused>>
      /\ Elsewhere(r) /\ ConfigTypeOK' /\ vault' \in Vault
  BY AtWork DEF Get, At, config, Elsewhere, ConfigTypeOK
<1>2. p \in excused \/ (file[p] # None /\ \A by \in Procs : root[by][p] # None)
  BY <1>1, Written
<1>3. ASSUME NEW g \in Profiles, g = p
      PROVE  Housed(g)'
  BY <1>1, <1>2, <1>3 DEF Housed
<1>4. CASE Fail(r) \/ Report(r, "there")
  <2>1. settled'[p] \in {"unknown", "there"}
    BY <1>1, <1>4, Reported DEF Claims
  <2> QED
    BY <1>1, <1>2, <1>3, <1>4, <2>1, WorksEnd, NamesApart DEF Claims, Agrees, Kept
<1>5. CASE ~Copies(r) /\ Goto(r, IF req[r].wish = "clear" THEN "clear" ELSE "truncate")
  <2> DEFINE step == IF req[r].wish = "clear" THEN "clear" ELSE "truncate"
  <2>1. /\ req' = [req EXCEPT ![r] = req'[r]] /\ settled' = settled /\ req'[r] \in Request
        /\ req'[r].pc = step /\ req'[r].on = p /\ req'[r].by = req[r].by
        /\ req'[r].from = req[r].from /\ req'[r].wish = req[r].wish
    BY <1>1, <1>5, Went
  <2>2. req[r].wish \in Secrets \cup {"clear"} /\ req[r].by \in Procs /\ p \in Profiles
        /\ req[r].from = None
    BY <1>1, <1>5, AtWork DEF FieldsSet, Copies, Wishes
  <2>3. FieldsSet(req'[r])
    BY <2>1, <2>2 DEF FieldsSet
  <2>4. DoneSoFar(r)'
    BY <1>1, <2>1, WritesOn
  <2> QED
    BY <1>1, <1>3, <2>1, <2>3, <2>4, WorksOn
<1>6. CASE Copies(r) /\ vault[req[r].from] \in Secrets /\ UNCHANGED settled
             /\ req' = [req EXCEPT ![r].pc = "truncate", ![r].wish = vault[req[r].from]]
  <2> DEFINE new == [req[r] EXCEPT !.pc = "truncate", !.wish = vault[req[r].from]]
  <2>1. req' = [req EXCEPT ![r] = new] /\ req[r] \in Request
    BY <1>1, <1>6, AtWork
  <2>2. /\ new \in Request /\ new.pc = "truncate" /\ new.on = p /\ new.by = req[r].by
        /\ new.wish \in Secrets /\ new.from = req[r].from
    BY <1>6, <2>1 DEF Request, Wishes
  <2> HIDE DEF new
  <2>3. req'[r] = new /\ req' = [req EXCEPT ![r] = req'[r]]
    BY <1>1, <2>1, AtWork
  <2>4. FieldsSet(req'[r])
    BY <1>1, <2>2, <2>3, AtWork DEF FieldsSet
  <2>5. DoneSoFar(r)'
    BY <1>1, <2>2, <2>3, WritesOn
  <2> QED
    BY <1>1, <1>3, <1>6, <2>2, <2>3, <2>4, <2>5, WorksOn
<1> QED
  BY <1>1, <1>4, <1>5, <1>6 DEF Get, Goto, Copies

\* The entry is opened with truncation, or not (file.go:110-125).
LEMMA WorksTruncate ==
  ASSUME OneProcess, Agreed, NEW r \in Requests, Truncate(r)
  PROVE  Works(r)
<1> DEFINE p == req[r].on
<1>1. /\ req[r].pc = "truncate" /\ UNCHANGED <<root, file, status, excused>>
      /\ vault' \in {vault, [vault EXCEPT ![p] = "torn"]}
      /\ Elsewhere(r) /\ ConfigTypeOK' /\ vault' \in Vault
  BY AtWork DEF Truncate, At, config, Elsewhere, ConfigTypeOK, Vault
<1>2. p \in excused \/ (file[p] # None /\ \A by \in Procs : root[by][p] # None)
  BY <1>1, Written
<1>3. ASSUME NEW g \in Profiles, g = p
      PROVE  Housed(g)'
  BY <1>1, <1>2, <1>3 DEF Housed
<1>4. CASE Fail(r) \/ Report(r, "there")
  <2>1. settled'[p] \in {"unknown", "there"}
    BY <1>1, <1>4, Reported DEF Claims
  <2> QED
    BY <1>1, <1>2, <1>3, <1>4, <2>1, WorksEnd, NamesApart DEF Claims, Agrees, Kept
<1>5. CASE Goto(r, "write")
  <2>1. FieldsSet(req'[r])
    BY <1>1, <1>5, AtWork, Went DEF FieldsSet
  <2>2. DoneSoFar(r)'
    BY <1>1, <1>5, Went, WritesOn
  <2> QED
    BY <1>1, <1>3, <1>5, <2>1, <2>2, Went, WorksOn
<1> QED
  BY <1>4, <1>5 DEF Truncate, PutFails

\* ... and written (file.go:126-132).
LEMMA WorksWrite ==
  ASSUME OneProcess, Agreed, NEW r \in Requests, Write(r)
  PROVE  Works(r)
<1> DEFINE p == req[r].on
<1>1. /\ req[r].pc = "write" /\ UNCHANGED <<root, file, status, excused>>
      /\ req[r].wish \in Secrets /\ p \in Profiles
      /\ vault' \in {vault, [vault EXCEPT ![p] = req[r].wish]}
      /\ Elsewhere(r) /\ ConfigTypeOK' /\ vault' \in Vault
  BY AtWork DEF Write, At, config, Elsewhere, ConfigTypeOK, Vault, FieldsSet
<1>2. p \in excused \/ (file[p] # None /\ \A by \in Procs : root[by][p] # None)
  BY <1>1, Written
<1>3. ASSUME NEW g \in Profiles, g = p
      PROVE  Housed(g)'
  BY <1>1, <1>2, <1>3 DEF Housed
<1>4. CASE Fail(r) \/ Report(r, "there")
  <2>1. settled'[p] \in {"unknown", "there"}
    BY <1>1, <1>4, Reported DEF Claims
  <2> QED
    BY <1>1, <1>2, <1>3, <1>4, <2>1, WorksEnd, NamesApart DEF Claims, Agrees, Kept
<1>5. CASE Goto(r, "flag") /\ vault' = [vault EXCEPT ![p] = req[r].wish]
  <2>1. vault'[p] = req[r].wish
    BY <1>1, <1>5, AtWork DEF Vault
  <2>2. FieldsSet(req'[r])
    BY <1>1, <1>5, AtWork, Went DEF FieldsSet
  <2>3. req[r].wish # "clear"
    BY <1>1, NamesApart
  <2>4. DoneSoFar(r)'
    BY <1>1, <1>5, <2>1, <2>3, Went, WritesOn
  <2> QED
    BY <1>1, <1>3, <1>5, <2>2, <2>4, Went, WorksOn
<1> QED
  BY <1>4, <1>5 DEF Write, PutFails

\* An entry is removed, by a save that clears it or by a deletion; of a profile
\* whose entry could not be removed nothing is claimed any more (file.go:153-159).
LEMMA WorksRemove ==
  ASSUME OneProcess, Agreed, NEW r \in Requests, Clear(r) \/ Forget(r)
  PROVE  Works(r)
<1> DEFINE p == req[r].on
<1>1. /\ req[r].pc \in {"clear", "forget"} /\ UNCHANGED <<root, file, status>> /\ p \in Profiles
      /\ vault' \in {vault, [vault EXCEPT ![p] = None]}
      /\ excused' \in {excused, excused \cup {p}}
      /\ p \in excused' \/ vault'[p] = None
      /\ Elsewhere(r) /\ ConfigTypeOK' /\ vault' \in Vault
  BY AtWork DEF Clear, Forget, Remove, Excuse, At, config, Elsewhere, ConfigTypeOK, Vault
<1>2. ASSUME NEW g \in Profiles, g = p
      PROVE  Housed(g)'
  BY <1>1, <1>2 DEF Housed
<1>3. CASE Clear(r)
  <2>1. /\ p \in excused \/ (file[p] # None /\ \A by \in Procs : root[by][p] # None)
        /\ Goto(r, "flag") /\ req[r].pc = "clear"
    BY <1>3, Written DEF Clear, At
  <2>2. /\ req'[r].pc = "flag" /\ req'[r].by = req[r].by /\ req'[r].on = p
        /\ req'[r].from = req[r].from /\ req'[r].wish = req[r].wish
    BY <2>1, Went
  <2>3. FieldsSet(req[r])
    BY <2>1, AtWork
  <2>4. FieldsSet(req'[r])
    BY <2>1, <2>2, <2>3 DEF FieldsSet
  <2>5. DoneSoFar(r)'
    BY <1>1, <2>1, <2>2, <2>3, WritesOn DEF FieldsSet
  <2> QED
    BY <1>1, <1>2, <2>1, <2>4, <2>5, Went, WorksOn
<1>4. CASE Forget(r)
  <2>1. Goto(r, "drop")
    BY <1>4 DEF Forget
  <2>2. FieldsSet(req'[r]) /\ DoneSoFar(r)'
    BY <1>1, <2>1, AtWork, Went DEF FieldsSet, DoneSoFar
  <2> QED
    BY <1>1, <1>2, <2>1, <2>2, Went, WorksOn
<1> QED
  BY <1>3, <1>4

\* One entry of the document changes, in memory and, if it could be saved, in the
\* file; with it the others reach the file as they are in memory (config.go:230-259).
LEMMA Saved ==
  ASSUME Agreed, NEW r \in Requests, req[r].pc # "idle", vault' = vault, status' = status,
         NEW entry \in Connection \cup {None}, NEW ok \in BOOLEAN,
         saveLocked(req[r].by, [root[req[r].by] EXCEPT ![req[r].on] = entry], ok)
  PROVE  LET p == req[r].on IN
         /\ Elsewhere(r) /\ ConfigTypeOK' /\ vault' \in Vault
         /\ root'[req[r].by][p] = entry /\ file'[p] = IF ok THEN entry ELSE file[p]
<1> DEFINE p   == req[r].on
           by  == req[r].by
           new == [root[by] EXCEPT ![p] = entry]
<1>1. /\ root \in [Procs -> Root] /\ file \in Root /\ by \in Procs /\ p \in Profiles
      /\ root' = [root EXCEPT ![by] = new] /\ file' = IF ok THEN new ELSE file
  BY AtWork DEF saveLocked, ConfigTypeOK
<1>2. new \in Root /\ new[p] = entry /\ \A g \in Profiles \ {p} : new[g] = root[by][g]
  BY <1>1 DEF Root
<1> HIDE DEF new
<1>3. root' \in [Procs -> Root] /\ root'[by] = new /\ \A x \in Procs \ {by} : root'[x] = root[x]
  BY <1>1, <1>2
<1>4. Elsewhere(r)
  BY <1>1, <1>2, <1>3 DEF Elsewhere
<1>5. ConfigTypeOK' /\ vault' \in Vault
  BY <1>1, <1>2, <1>3, AtWork DEF ConfigTypeOK
<1> QED
  BY <1>1, <1>2, <1>3, <1>4, <1>5

\* The first write of a save or a copy (manager.go:180-186, 227).
LEMMA WorksFirstUpsert ==
  ASSUME OneProcess, Agreed, NEW r \in Requests, FirstUpsert(r)
  PROVE  Works(r)
<1> DEFINE p     == req[r].on
           by    == req[r].by
           entry == [hasSecret |-> req[r].flag]
<1>1. /\ req[r].pc = "upsert" /\ UNCHANGED <<status, vault, excused>> /\ req[r].flag \in BOOLEAN
      /\ entry \in Connection /\ entry # None /\ p \in Profiles /\ \A x \in Procs : x = by
  BY AtWork, NamesApart DEF FirstUpsert, At, Request, Connection, OneProcess
<1>2. PICK ok \in BOOLEAN :
        /\ Upsert(by, p, entry, ok)
        /\ \/ ~ok /\ Fail(r)
           \/ ok /\ IF Copies(r)
                    THEN IF req[r].flag THEN Goto(r, "get") ELSE Report(r, "there")
                    ELSE IF req[r].wish = "keep" THEN Report(r, "there") ELSE Goto(r, "get")
  BY DEF FirstUpsert
<1> HIDE DEF entry
<1>3. /\ Elsewhere(r) /\ ConfigTypeOK' /\ vault' \in Vault
      /\ root'[by][p] = entry /\ file'[p] = IF ok THEN entry ELSE file[p]
  BY <1>1, <1>2, Saved DEF Upsert
<1>4. ASSUME NEW g \in Profiles, g = p
      PROVE  Housed(g)'
  <2>1. p \in excused \/ vault[p] = None \/ file[p] # None
    BY <1>1, AtWork DEF ProfileAgrees, Fits
  <2> QED
    BY <1>1, <1>3, <1>4, <2>1 DEF Housed
<1>5. CASE Fail(r) \/ (ok /\ Report(r, "there"))
  <2>1. settled'[p] = "unknown" \/ (settled'[p] = "there" /\ file'[p] # None /\ root'[by][p] # None)
    BY <1>1, <1>3, <1>5, Reported DEF Claims
  <2> QED
    BY <1>1, <1>3, <1>4, <1>5, <2>1, WorksEnd, NamesApart DEF Claims, Agrees, Kept
<1>6. CASE ok /\ Goto(r, "get") /\ (IF Copies(r) THEN req[r].flag ELSE req[r].wish # "keep")
  <2>1. FieldsSet(req'[r])
    <3>1. /\ by \in Procs /\ IF req[r].from = None THEN req[r].wish \in Wishes
                                                    ELSE req[r].wish = None
      BY <1>1, AtWork DEF FieldsSet
    <3>2. /\ req'[r].pc = "get" /\ req'[r].by = by /\ req'[r].on = p
          /\ req'[r].from = req[r].from /\ req'[r].wish = req[r].wish
      BY <1>1, <1>6, Went
    <3> QED
      BY <1>1, <1>6, <3>1, <3>2 DEF FieldsSet, Copies
  <2>2. file'[p] = entry /\ (req[r].from # None => entry = [hasSecret |-> TRUE])
    BY <1>1, <1>3, <1>6 DEF Copies, entry
  <2>3. DoneSoFar(r)'
    BY <1>1, <1>3, <1>6, <2>2, Went DEF DoneSoFar
  <2> QED
    BY <1>1, <1>3, <1>4, <1>6, <2>1, <2>3, Went, WorksOn
<1> QED
  BY <1>2, <1>5, <1>6

\* The second write, with the flags (manager.go:208-215, 235-241).
LEMMA WorksSecondUpsert ==
  ASSUME OneProcess, Agreed, NEW r \in Requests, SecondUpsert(r)
  PROVE  Works(r)
<1> DEFINE p     == req[r].on
           by    == req[r].by
           entry == [hasSecret |-> req[r].wish # "clear"]
           claim == IF req[r].wish = "clear" THEN "plain" ELSE req[r].wish
<1>1. /\ req[r].pc = "flag" /\ UNCHANGED <<status, vault, excused>>
      /\ entry \in Connection /\ entry # None /\ p \in Profiles /\ \A x \in Procs : x = by
  <2>1. req[r].pc = "flag" /\ UNCHANGED <<status, vault, excused>>
    BY DEF SecondUpsert, At
  <2>2. entry \in Connection
    BY DEF Connection
  <2> HIDE DEF entry
  <2> QED
    BY <2>1, <2>2, AtWork, NamesApart DEF OneProcess
<1>2. /\ req[r].wish \in Secrets => req[r].wish # "clear"
      /\ req[r].wish \in Secrets \/ (req[r].wish = "clear" /\ req[r].from = None)
      /\ claim \in Claims
  <2>1. req[r].wish \in Secrets \/ (req[r].wish = "clear" /\ req[r].from = None)
    BY <1>1, AtWork DEF FieldsSet
  <2> QED
    BY <2>1, NamesApart DEF Claims
<1>3. PICK ok \in BOOLEAN :
        /\ Upsert(by, p, entry, ok)
        /\ \/ ~ok /\ ~Copies(r) /\ Fail(r)
           \/ (ok \/ Copies(r)) /\ Report(r, claim)
  BY DEF SecondUpsert
<1>4. /\ Elsewhere(r) /\ ConfigTypeOK' /\ vault' \in Vault
      /\ root'[by][p] = entry /\ file'[p] = IF ok THEN entry ELSE file[p]
  <2> HIDE DEF entry
  <2> QED
    BY <1>1, <1>3, Saved DEF Upsert
<1>5. p \in excused \/ file[p] # None
  BY <1>1, Written
<1>6. ASSUME NEW g \in Profiles, g = p
      PROVE  Housed(g)'
  BY <1>1, <1>4, <1>5, <1>6 DEF Housed
<1>7. CASE Fail(r)
  <2>1. settled'[p] = "unknown"
    BY <1>1, <1>7, Reported
  <2> QED
    BY <1>1, <1>4, <1>6, <1>7, <2>1, WorksEnd, NamesApart DEF Agrees, Kept
<1>8. CASE (ok \/ Copies(r)) /\ Report(r, claim)
  <2>1. settled'[p] = IF p \in excused THEN "unknown" ELSE claim
    BY <1>1, <1>2, <1>8, Reported
  <2>2. p \notin excused => Kept(claim, vault'[p])
    BY <1>1, <1>2, AtWork, NamesApart DEF DoneSoFar, Kept
  <2>3. Agrees(claim, entry)
    BY <1>1, <1>2, NamesApart DEF Agrees
  <2>4. p \notin excused => file'[p] = entry
    BY <1>1, <1>2, <1>4, <1>8, AtWork DEF DoneSoFar, Copies
  <2> HIDE DEF entry, claim
  <2> QED
    BY <1>1, <1>2, <1>4, <1>6, <1>8, <2>1, <2>2, <2>3, <2>4, WorksEnd
<1> QED
  BY <1>3, <1>7, <1>8

\* The profile leaves the document (manager.go:256-257).
LEMMA WorksDrop ==
  ASSUME OneProcess, Agreed, NEW r \in Requests, Drop(r)
  PROVE  Works(r)
<1> DEFINE p  == req[r].on
           by == req[r].by
<1>1. /\ req[r].pc = "drop" /\ UNCHANGED <<status, vault, excused>>
      /\ p \in Profiles /\ \A x \in Procs : x = by
  BY AtWork DEF Drop, At, OneProcess
<1>2. PICK ok \in BOOLEAN : Delete(by, p, ok) /\ IF ok THEN Report(r, "gone") ELSE Fail(r)
  BY DEF Drop
<1>3. /\ Elsewhere(r) /\ ConfigTypeOK' /\ vault' \in Vault
      /\ ok => root'[by][p] = None /\ file'[p] = None
  <2>1. CASE ~ok /\ UNCHANGED <<root, file>>
    BY <1>1, <2>1, AtWork DEF Elsewhere, ConfigTypeOK
  <2>2. CASE saveLocked(by, [root[by] EXCEPT ![p] = None], ok)
    BY <1>1, <2>2, Saved
  <2> QED
    BY <1>2, <2>1, <2>2 DEF Delete
<1>4. p \in excused \/ vault[p] = None
  BY <1>1, AtWork DEF DoneSoFar
<1>5. ASSUME NEW g \in Profiles, g = p
      PROVE  Housed(g)'
  BY <1>1, <1>4, <1>5 DEF Housed
<1>6. settled'[p] = IF ok /\ p \notin excused THEN "gone" ELSE "unknown"
  BY <1>1, <1>2, Reported DEF Claims
<1> QED
  BY <1>1, <1>2, <1>3, <1>4, <1>5, <1>6, WorksEnd, NamesApart DEF Agrees, Kept, Claims

\* A request begins (manager.go:118-178, 217-227, 245-254).
LEMMA AgreedBegin ==
  ASSUME Agreed, NEW r \in Requests, NEW by \in Procs, NEW p \in Profiles,
         \/ \E wish \in Wishes : SaveProfile(r, by, p, wish)
         \/ \E q \in Profiles : DuplicateProfile(r, by, q, p)
         \/ DeleteProfile(r, by, p)
  PROVE  Agreed'
<1>1. PICK new \in Request : /\ Begin(r, by, p, new) /\ FieldsSet(new)
                              /\ new.pc \in {"upsert", "forget"} /\ new.by = by /\ new.on = p
  <2>1. ASSUME NEW wish \in Wishes, SaveProfile(r, by, p, wish)
        PROVE  \E new \in Request : /\ Begin(r, by, p, new) /\ FieldsSet(new)
                                    /\ new.pc \in {"upsert", "forget"} /\ new.by = by /\ new.on = p
    <3> DEFINE existing == root[by][p]
               new == [pc |-> "upsert", by |-> by, on |-> p, from |-> None, wish |-> wish,
                       flag |-> existing # None /\ existing.hasSecret]
    <3>1. (existing # None /\ existing.hasSecret) \in BOOLEAN
      BY DEF Agreed, TypeOK, ConfigTypeOK, Root, Connection
    <3>2. new \in Request /\ FieldsSet(new)
      BY <3>1 DEF Request, FieldsSet
    <3> QED
      BY <2>1, <3>2 DEF SaveProfile
  <2>2. ASSUME NEW q \in Profiles, DuplicateProfile(r, by, q, p)
        PROVE  \E new \in Request : /\ Begin(r, by, p, new) /\ FieldsSet(new)
                                    /\ new.pc \in {"upsert", "forget"} /\ new.by = by /\ new.on = p
    BY <2>2, NamesApart DEF DuplicateProfile, Request, FieldsSet, Agreed, TypeOK,
                              ConfigTypeOK, Root, Connection
  <2>3. ASSUME DeleteProfile(r, by, p)
        PROVE  \E new \in Request : /\ Begin(r, by, p, new) /\ FieldsSet(new)
                                    /\ new.pc \in {"upsert", "forget"} /\ new.by = by /\ new.on = p
    <3> DEFINE new == [Idle EXCEPT !.pc = "forget", !.by = by, !.on = p]
    <3>1. Idle \in Request
      BY DEF Idle, Request
    <3>2. new \in Request /\ new.pc = "forget" /\ new.by = by /\ new.on = p
      BY <3>1 DEF Request
    <3>3. FieldsSet(new)
      BY <3>2 DEF FieldsSet
    <3> HIDE DEF new
    <3> QED
      BY <2>3, <3>2, <3>3 DEF DeleteProfile, new
  <2> QED
    BY <2>1, <2>2, <2>3
<1>2. /\ req' = [req EXCEPT ![r] = new] /\ settled' = [settled EXCEPT ![p] = "unknown"]
      /\ UNCHANGED <<root, file, status, vault>> /\ req[r].pc = "idle" /\ status[by] = "up"
      /\ excused' = excused \cup IF Working(p) THEN {p} ELSE {}
  BY <1>1 DEF Begin, Excuse, config
<1>3. /\ req \in [Requests -> Request] /\ settled \in [Profiles -> Claims]
      /\ excused \subseteq Profiles /\ "unknown" \in Claims
      /\ settled' \in [Profiles -> Claims] /\ settled'[p] = "unknown"
      /\ req'[r] = new /\ \A o \in Requests \ {r} : req'[o] = req[o]
  BY <1>1, <1>2 DEF Agreed, TypeOK, Claims
<1>4. TypeOK'
  BY <1>1, <1>2, <1>3 DEF Agreed, TypeOK, ConfigTypeOK
<1>5. ClaimsRest'
  <2>1. \A o \in Requests : req'[o].pc # "idle" => settled'[req'[o].on] = "unknown"
    BY <1>1, <1>2, <1>3 DEF Agreed, ClaimsRest, FieldsSet
  <2>2. \A g \in excused' : settled'[g] = "unknown"
    BY <1>1, <1>2, <1>3 DEF Agreed, ClaimsRest
  <2>3. \A q, o \in Requests :
          req'[q].on = req'[o].on /\ req'[q].on \in Profiles \ excused' => q = o
    <3>1. ASSUME NEW o \in Requests \ {r}, p \notin excused'
          PROVE  req[o].on # p
      BY <1>2, <3>1, NamesApart DEF Working, Agreed, FieldsSet, Idle
    <3> QED
      BY <1>1, <1>2, <1>3, <3>1 DEF Agreed, ClaimsRest
  <2> QED
    BY <2>1, <2>2, <2>3 DEF ClaimsRest
<1>6. ASSUME NEW o \in Requests
      PROVE  FieldsSet(req'[o]) /\ DoneSoFar(o)'
  <2>1. CASE o = r
    BY <1>1, <1>3, <2>1 DEF DoneSoFar
  <2>2. CASE o # r
    <3>1. req'[o] = req[o] /\ FieldsSet(req[o]) /\ DoneSoFar(o)
      BY <1>3, <2>2 DEF Agreed
    <3> QED
      BY <1>2, <3>1 DEF DoneSoFar
  <2> QED
    BY <2>1, <2>2
<1>7. ASSUME NEW g \in Profiles
      PROVE  ProfileAgrees(g)'
  <2>1. ProfileAgrees(g)
    BY DEF Agreed
  <2>2. settled'[g] \in {settled[g], "unknown"} /\ (g \notin excused' => g \notin excused)
    BY <1>2, <1>3
  <2> QED
    BY <1>2, <2>1, <2>2, NamesApart DEF ProfileAgrees, Fits, Agrees, Kept
<1> QED
  BY <1>4, <1>5, <1>6, <1>7 DEF Agreed

\* A process writes its document back, reads it, starts or ends
\* (config.go:157-228, 340-360).
LEMMA AgreedProcess ==
  ASSUME OneProcess, Agreed, NEW by \in Procs, Others(by) \/ Crash(by)
  PROVE  Agreed'
<1>1. /\ root \in [Procs -> Root] /\ file \in Root
      /\ status \in [Procs -> {"down", "loading", "up"}]
      /\ req \in [Requests -> Request]
      /\ \A r \in Requests : /\ FieldsSet(req[r]) /\ DoneSoFar(r)
                             /\ req[r].pc # "idle" => status[req[r].by] = "up"
      /\ \A p \in Profiles : ProfileAgrees(p)
  BY DEF Agreed, TypeOK, ConfigTypeOK
<1>2. UNCHANGED <<vault, settled, excused>>
  BY DEF Others, Crash
<1>3. ASSUME SaveRest(by) \/ migrate(by), req' = req
      PROVE  Agreed'
  <2>1. /\ status[by] # "down" /\ root' = root /\ file' \in {file, root[by]}
        /\ status' \in {status, [status EXCEPT ![by] = "up"], [status EXCEPT ![by] = "down"]}
        /\ status[by] = "up" => status' = status
    BY <1>1, <1>3 DEF SaveRest, migrate, saveLocked
  <2>2. TypeOK'
    <3>1. file' \in Root /\ status' \in [Procs -> {"down", "loading", "up"}]
      BY <1>1, <2>1
    <3>2. \A r \in Requests : req'[r].pc # "idle" => status'[req'[r].by] = "up"
      <4>1. CASE status[by] = "up"
        BY <1>1, <1>3, <2>1, <4>1
      <4>2. CASE status[by] # "up"
        BY <1>1, <1>3, <2>1, <4>2 DEF FieldsSet
      <4> QED
        BY <4>1, <4>2
    <3> QED
      BY <1>1, <1>2, <1>3, <2>1, <3>1, <3>2 DEF Agreed, TypeOK, ConfigTypeOK
  <2>3. ClaimsRest'
    BY <1>2, <1>3 DEF Agreed, ClaimsRest
  <2>4. ASSUME NEW p \in Profiles
        PROVE  ProfileAgrees(p)'
    BY <1>1, <1>2, <2>1, <2>4 DEF ProfileAgrees, Fits
  <2>5. ASSUME NEW r \in Requests
        PROVE  FieldsSet(req'[r]) /\ DoneSoFar(r)'
    <3>1. req[r].pc # "idle" => req[r].by = by
      BY <1>1 DEF FieldsSet, OneProcess
    <3>2. FieldsSet(req[r]) /\ DoneSoFar(r)
      BY <1>1
    <3> QED
      BY <1>2, <1>3, <2>1, <3>1, <3>2 DEF DoneSoFar
  <2> QED
    BY <2>2, <2>3, <2>4, <2>5 DEF Agreed
<1>4. ASSUME Load(by), req' = req
      PROVE  Agreed'
  <2>1. /\ status[by] = "down" /\ file' = file /\ root' = [root EXCEPT ![by] = file]
        /\ status' = [status EXCEPT ![by] = "loading"]
    BY <1>4 DEF Load
  <2>2. TypeOK'
    BY <1>1, <1>2, <1>4, <2>1 DEF Agreed, TypeOK, ConfigTypeOK
  <2>3. ClaimsRest'
    BY <1>2, <1>4 DEF Agreed, ClaimsRest
  <2>4. ASSUME NEW p \in Profiles
        PROVE  ProfileAgrees(p)'
    BY <1>1, <1>2, <2>1, <2>4 DEF ProfileAgrees, Fits
  <2>5. ASSUME NEW r \in Requests
        PROVE  FieldsSet(req'[r]) /\ DoneSoFar(r)'
    <3>1. req[r].pc = "idle"
      BY <1>1, <2>1 DEF FieldsSet, OneProcess
    <3> QED
      BY <1>1, <1>4, <3>1 DEF DoneSoFar
  <2> QED
    BY <2>2, <2>3, <2>4, <2>5 DEF Agreed
<1>5. CASE Crash(by)
  <2>1. /\ file' = file /\ root' = [root EXCEPT ![by] = [p \in Profiles |-> None]]
        /\ status' = [status EXCEPT ![by] = "down"]
        /\ req' = [r \in Requests |-> IF req[r].by = by THEN Idle ELSE req[r]]
    BY <1>5 DEF Crash, Exit
  <2>2. Idle \in Request /\ Idle.pc = "idle" /\ Idle.on = None /\ None \notin Profiles
    BY NamesApart DEF Idle, Request
  <2>3. \A r \in Requests : req'[r] = Idle
    BY <1>1, <2>1 DEF FieldsSet, OneProcess
  <2>4. TypeOK'
    BY <1>1, <1>2, <2>1, <2>2, <2>3 DEF Agreed, TypeOK, ConfigTypeOK, Root
  <2>5. ClaimsRest'
    BY <1>2, <2>2, <2>3 DEF Agreed, ClaimsRest
  <2>6. ASSUME NEW p \in Profiles
        PROVE  ProfileAgrees(p)'
    BY <1>1, <1>2, <2>1, <2>6 DEF ProfileAgrees, Fits
  <2>7. ASSUME NEW r \in Requests
        PROVE  FieldsSet(req'[r]) /\ DoneSoFar(r)'
    BY <2>2, <2>3 DEF FieldsSet, DoneSoFar, Idle
  <2> QED
    BY <2>4, <2>5, <2>6, <2>7 DEF Agreed
<1> QED
  BY <1>3, <1>4, <1>5 DEF Others

\* The stores are empty at first.
LEMMA AgreedInit == Init => Agreed
<1> SUFFICES ASSUME Init
             PROVE  Agreed
  OBVIOUS
<1>1. \A r \in Requests : req[r] = Idle
  BY DEF Init
<1>2. Idle \in Request /\ Idle.pc = "idle" /\ Idle.on = None /\ None \notin Profiles
  BY NamesApart DEF Idle, Request
<1>3. TypeOK
  BY <1>1, <1>2 DEF Init, ConfigInit, TypeOK, ConfigTypeOK, Root, Claims
<1>4. ClaimsRest
  BY <1>1, <1>2 DEF Init, ClaimsRest
<1>5. \A r \in Requests : FieldsSet(req[r]) /\ DoneSoFar(r)
  BY <1>1, <1>2 DEF FieldsSet, DoneSoFar, Idle
<1>6. \A p \in Profiles : ProfileAgrees(p)
  BY NamesApart DEF Init, ConfigInit, ProfileAgrees, Fits, Agrees, Kept
<1> QED
  BY <1>3, <1>4, <1>5, <1>6 DEF Agreed

\* Every step of one process, its end and its start among them, keeps the invariant.
LEMMA AgreedStep ==
  ASSUME OneProcess
  PROVE  Agreed /\ [Next]_vars => Agreed'
<1> SUFFICES ASSUME Agreed, [Next]_vars
             PROVE  Agreed'
  OBVIOUS
<1>1. CASE UNCHANGED vars
  BY <1>1 DEF vars, config, Agreed, TypeOK, ConfigTypeOK, ClaimsRest, FieldsSet, DoneSoFar,
              ProfileAgrees, Fits
<1>2. ASSUME NEW r \in Requests,
             \/ FirstUpsert(r) \/ Get(r) \/ Truncate(r) \/ Write(r) \/ Clear(r)
             \/ SecondUpsert(r) \/ Forget(r) \/ Drop(r)
      PROVE  Agreed'
  BY <1>2, WorksFirstUpsert, WorksGet, WorksTruncate, WorksWrite, WorksRemove,
     WorksSecondUpsert, WorksDrop, AgreedWork
<1>3. ASSUME NEW r \in Requests, NEW by \in Procs, NEW p \in Profiles,
             \/ \E wish \in Wishes : SaveProfile(r, by, p, wish)
             \/ \E q \in Profiles : DuplicateProfile(r, by, p, q)
             \/ DeleteProfile(r, by, p)
      PROVE  Agreed'
  BY <1>3, AgreedBegin
<1>4. ASSUME NEW by \in Procs, Others(by) \/ Crash(by)
      PROVE  Agreed'
  BY <1>4, AgreedProcess
<1> QED
  BY <1>1, <1>2, <1>3, <1>4 DEF Next

\* What the stores, the claims and the requests of one process are like.
THEOREM AgreedInvariant ==
  ASSUME OneProcess
  PROVE  Spec => []Agreed
<1>1. Init => Agreed
  BY AgreedInit
<1>2. Agreed /\ [Next]_vars => Agreed'
  BY AgreedStep
<1> QED
  BY <1>1, <1>2, PTL DEF Spec

\* What a request of the one process reported stays so until another one begins on
\* the profile, across failing writes, crashes and restarts.
THEOREM SettledInvariant ==
  ASSUME OneProcess
  PROVE  Spec => []SettledIsTrue
<1>1. Agreed => SettledIsTrue
  BY DEF Agreed, SettledIsTrue, ProfileAgrees, Fits, Agrees, Kept
<1> QED
  BY <1>1, AgreedInvariant, PTL

\* No secret outlives its profile.
THEOREM HousedInvariant ==
  ASSUME OneProcess
  PROVE  Spec => []NoOrphanSecret
<1>1. Agreed => NoOrphanSecret
  BY DEF Agreed, NoOrphanSecret, ProfileAgrees, Fits
<1> QED
  BY <1>1, AgreedInvariant, PTL
=================================================================================
