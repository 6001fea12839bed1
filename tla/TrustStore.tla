------------------------------- MODULE TrustStore -------------------------------
(***************************************************************************)
(* The identities of servers the user trusts (internal/trust), the         *)
(* handshakes that check them (internal/protocol) and the prompts by which *)
(* a user decides about a new one.  Handshakes, answers, revocations and   *)
(* crashes may come in any order: an answer may be late, two prompts for   *)
(* one server may be open, and the server may change its identity between. *)
(***************************************************************************)
EXTENDS FiniteSets

CONSTANTS Hosts,     \* bound: host and port of servers
          Keys,      \* SSH host keys
          Certs,     \* TLS certificates
          Genuine,   \* those that pass standard verification in the handshake
          Direct,    \* those that pass it without intermediate certificates too
          Bracketed, \* the hosts that are IPv6 addresses
          Attempts,  \* bound: connection attempts and prompts at one time
          NoId       \* no identity

ASSUME IdentityAssumption ==
  /\ Direct \subseteq Genuine /\ Genuine \subseteq Certs /\ Bracketed \subseteq Hosts
  /\ Keys \cap Certs = {} /\ NoId \notin Keys \cup Certs

Identities == Keys \cup Certs

VARIABLES
  entries,    \* Store.entries, one identity per host
  saved,      \* hostkeys.json
  pending,    \* Store.pending: the identity last refused, per host
  attempt,    \* the handshakes and the prompts they led to
  confirmed   \* history: the identities the user said Yes to and has not revoked

trustVars == <<entries, saved, pending, attempt, confirmed>>

Table == [Hosts -> Identities \cup {NoId}]

\* SSH, and TLS with and without TLSVerify.
Kinds == {"ssh", "verified", "unverified"}

\* pin: the pinned certificate as the adapter's configuration was built.  shown:
\* the fingerprint in the prompt.  History: trusted, the certificate the store
\* trusted when the handshake began; allowed, what was confirmed then or since.
Attempt == [pc : {"idle", "handshake", "prompt"}, host : Hosts \cup {NoId}, kind : Kinds,
            pin : Certs \cup {NoId}, shown : Identities \cup {NoId},
            trusted : Certs \cup {NoId}, allowed : SUBSET Identities]
NoAttempt == [pc |-> "idle", host |-> NoId, kind |-> "ssh", pin |-> NoId, shown |-> NoId,
              trusted |-> NoId, allowed |-> {}]

\* What memory, file and handshakes can hold.
TrustTypeOK ==
  /\ entries \in Table /\ saved \in Table /\ pending \in Table
  /\ attempt \in [Attempts -> Attempt]
  /\ confirmed \in [Hosts -> SUBSET Identities]

TrustInit ==
  /\ entries = [h \in Hosts |-> NoId]
  /\ saved = entries /\ pending = entries
  /\ attempt = [a \in Attempts |-> NoAttempt]
  /\ confirmed = [h \in Hosts |-> {}]

\* save writes all entries to a temporary file and renames it.  When it fails the
\* change stays in memory and the caller gets an error.
Save(table, ok) == entries' = table /\ saved' = IF ok THEN table ELSE saved

\* A handshake starts.  buildAdapterConfig has looked the pin up before the dial,
\* under a name that for an IPv6 address is not the one it is stored under.
Dial(a, h, kind) ==
  LET trusted == IF kind # "ssh" /\ entries[h] \in Certs THEN entries[h] ELSE NoId IN
  /\ attempt[a].pc = "idle"
  /\ attempt' = [attempt EXCEPT ![a] =
       [NoAttempt EXCEPT !.pc = "handshake", !.host = h, !.kind = kind,
                         !.pin = IF h \in Bracketed THEN NoId ELSE trusted,
                         !.trusted = trusted, !.allowed = confirmed[h]]]
  /\ UNCHANGED <<entries, saved, pending, confirmed>>

\* Faulty: a certificate that verifies needs no look at the pin.
AcceptsGenuine(a, id) ==
  LET t == attempt[a] IN
  \/ t.kind = "ssh" /\ entries[t.host] = id
  \/ t.kind = "unverified"
  \/ t.kind = "verified" /\ id \in Genuine /\ (id = t.pin \/ id \in Direct)

\* The identity id is accepted: an SSH key by the store; with TLSVerify off any
\* certificate; else one that verifies in the handshake and then, in verifyCert, is
\* the pin or, without a pin, verifies once more without intermediates.
Accepts(a, id) ==
  LET t == attempt[a] IN
  \/ t.kind = "ssh" /\ entries[t.host] = id
  \/ t.kind = "unverified"
  \/ /\ t.kind = "verified" /\ id \in Genuine
     /\ IF t.pin # NoId THEN id = t.pin ELSE id \in Direct

Presents(a) == IF attempt[a].kind = "ssh" THEN Keys ELSE Certs

\* The server presents an identity that is accepted.
Accept(a, id) ==
  /\ attempt[a].pc = "handshake" /\ id \in Presents(a) /\ Accepts(a, id)
  /\ attempt' = [attempt EXCEPT ![a] = NoAttempt]
  /\ UNCHANGED <<entries, saved, pending, confirmed>>

\* ... or a certificate that does not verify in the handshake: verifyCert never sees
\* it, nothing is stashed, and the user gets an error and no prompt.
ChainFails(a, id) ==
  /\ attempt[a].pc = "handshake" /\ attempt[a].kind = "verified" /\ id \in Certs \ Genuine
  /\ attempt' = [attempt EXCEPT ![a] = NoAttempt]
  /\ UNCHANGED <<entries, saved, pending, confirmed>>

\* ... or another one that is not accepted: CheckSSH and CheckCert stash it, unless the store has
\* come to trust it by now, and the user is asked.
Refuse(a, id) ==
  LET h == attempt[a].host IN
  /\ attempt[a].pc = "handshake" /\ id \in Presents(a) /\ ~Accepts(a, id)
  /\ attempt[a].kind = "verified" => id \in Genuine
  /\ pending' = IF entries[h] = id THEN pending ELSE [pending EXCEPT ![h] = id]
  /\ attempt' = [attempt EXCEPT ![a].pc = "prompt", ![a].shown = id]
  /\ UNCHANGED <<entries, saved, confirmed>>

\* Faulty: whatever is pending for the host is taken.
TrustAnyPending(a) ==
  LET h == attempt[a].host IN
  /\ attempt[a].pc = "prompt"
  /\ confirmed' = [confirmed EXCEPT ![h] = @ \cup {attempt[a].shown}]
  /\ attempt' = [b \in Attempts |->
       IF b = a THEN NoAttempt
       ELSE IF attempt[b].host = h THEN [attempt[b] EXCEPT !.allowed = @ \cup {attempt[a].shown}]
       ELSE attempt[b]]
  /\ \/ /\ pending[h] # NoId
        /\ pending' = [pending EXCEPT ![h] = NoId]
        /\ \E ok \in BOOLEAN : Save([entries EXCEPT ![h] = pending[h]], ok)
     \/ pending[h] = NoId /\ UNCHANGED <<entries, saved, pending>>

\* The user says Yes to a prompt.  TrustPending takes the identity that is pending
\* if it is the one the prompt showed.
TrustPending(a) ==
  LET h  == attempt[a].host
      id == attempt[a].shown
  IN
  /\ attempt[a].pc = "prompt"
  /\ confirmed' = [confirmed EXCEPT ![h] = @ \cup {id}]
  /\ attempt' = [b \in Attempts |->
       IF b = a THEN NoAttempt
       ELSE IF attempt[b].host = h THEN [attempt[b] EXCEPT !.allowed = @ \cup {id}]
       ELSE attempt[b]]
  /\ \/ /\ pending[h] = id
        /\ pending' = [pending EXCEPT ![h] = NoId]
        /\ \E ok \in BOOLEAN : Save([entries EXCEPT ![h] = id], ok)
     \/ pending[h] # id /\ UNCHANGED <<entries, saved, pending>>

\* ... or No, or leaves it.
Decline(a) ==
  /\ attempt[a].pc # "idle" /\ attempt' = [attempt EXCEPT ![a] = NoAttempt]
  /\ UNCHANGED <<entries, saved, pending, confirmed>>

\* The user revokes a decision; one that could not be saved is reported as an error.
RemoveTrust(h) ==
  /\ \E ok \in BOOLEAN :
       /\ Save([entries EXCEPT ![h] = NoId], ok)
       /\ confirmed' = IF ok THEN [confirmed EXCEPT ![h] = {}] ELSE confirmed
  /\ UNCHANGED <<pending, attempt>>

\* Open: a process that starts knows what was saved; prompts and handshakes of the
\* one before it are gone.
Reopen ==
  /\ entries' = saved /\ pending' = [h \in Hosts |-> NoId]
  /\ attempt' = [a \in Attempts |-> NoAttempt]
  /\ UNCHANGED <<saved, confirmed>>

TrustNext ==
  \/ \E a \in Attempts : \/ \E h \in Hosts, kind \in Kinds : Dial(a, h, kind)
                         \/ \E id \in Identities : \/ Accept(a, id) \/ ChainFails(a, id)
                                                       \/ Refuse(a, id)
                         \/ TrustPending(a) \/ Decline(a)
  \/ \E h \in Hosts : RemoveTrust(h)
  \/ Reopen

TrustSpec == TrustInit /\ [][TrustNext]_trustVars

------------------------------------------------------------------------------
(* Properties                                                              *)

\* The store trusts, in memory and on disk, only what the user said Yes to and has
\* not revoked since: of two prompts for one server an answer to the one never
\* trusts the identity of the other, and a revocation that was reported stays one
\* across restarts and later saves.
OnlyConfirmedIsTrusted ==
  \A h \in Hosts : {entries[h], saved[h]} \subseteq confirmed[h] \cup {NoId}

\* A handshake that checks succeeds only with what the user agreed to.  An SSH key
\* must be confirmed at that moment.  With TLSVerify a certificate must verify, and be
\* confirmed when the handshake began, or since, unless the store trusted none for the
\* host at the begin: a pin is not weakened by a certificate that is merely valid.
\* Excepted, because the code does not check there: TLSVerify off (any certificate
\* is accepted, pin or not), and the pin of an IPv6 address (it is not found).
HandshakeIsSafe ==
  [][\A a \in Attempts, id \in Identities : Accept(a, id) =>
       LET t == attempt[a] IN
       /\ t.kind = "ssh" => id \in confirmed[t.host]
       /\ t.kind = "verified" =>
            /\ id \in Genuine
            /\ \/ id \in t.allowed
               \/ id \in Direct /\ (t.trusted = NoId \/ t.host \in Bracketed)]_trustVars
=================================================================================
