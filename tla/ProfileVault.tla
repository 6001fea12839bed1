------------------------------ MODULE ProfileVault ------------------------------
(***************************************************************************)
(* SaveProfile, DuplicateProfile and DeleteProfile (internal/manager) over *)
(* two stores that know nothing of each other: the configuration file and  *)
(* the vault of secrets (internal/credentials), which in the fall-back     *)
(* provider is one encrypted file per profile, truncated before it is      *)
(* written.  Any number of requests run at one time, a process may end     *)
(* between any two steps, and every write may fail.                        *)
(*                                                                         *)
(* A credential has one field here, and its files are read and written by  *)
(* steps; encryption is what makes a file that was cut off unreadable.     *)
(***************************************************************************)
EXTENDS ConfigStore

CONSTANTS Secrets,   \* bound: passwords and keys
          Requests   \* bound: requests at one time

\* A secret is none of the words that stand beside secrets here.
ASSUME NamesApart ==
  /\ Secrets \cap {"keep", "clear", "torn", "unknown", "gone", "there", "plain"} = {}
  /\ None \notin Secrets \cup {"keep", "clear"} \cup Profiles \cup Connection

VARIABLES
  vault,    \* secrets/<id>.enc: None, a secret, or "torn"
  req,      \* the requests at work
  settled,  \* history: what the last request on a profile reported
  excused   \* history: profiles of which nothing is claimed (see Excuse)

vars == <<config, vault, req, settled, excused>>

\* What the caller asks for: "keep" and "clear" are the nil and the empty secret.
Wishes == Secrets \cup {"keep", "clear"}

\* on: the profile that is written.  from: the one that is copied.  wish: the
\* secret to store.  flag: HasSecret as the request will write it.
Request == [pc : {"idle", "upsert", "get", "truncate", "write", "clear", "flag", "forget", "drop"},
            by : Procs \cup {None}, on : Profiles \cup {None}, from : Profiles \cup {None},
            wish : Wishes \cup {None}, flag : BOOLEAN]
Idle == [pc |-> "idle", by |-> None, on |-> None, from |-> None, wish |-> None, flag |-> FALSE]

Claims == {"unknown", "gone", "there", "plain"} \cup Secrets

\* What the two stores and the requests can hold; a request runs in a live process.
TypeOK ==
  /\ ConfigTypeOK
  /\ vault \in [Profiles -> Secrets \cup {None, "torn"}]
  /\ req \in [Requests -> Request]
  /\ \A r \in Requests : req[r].pc # "idle" => status[req[r].by] = "up"
  /\ settled \in [Profiles -> Claims] /\ excused \subseteq Profiles

Init ==
  /\ ConfigInit
  /\ vault = [p \in Profiles |-> None]
  /\ req = [r \in Requests |-> Idle]
  /\ settled = [p \in Profiles |-> "unknown"]
  /\ excused = {}

------------------------------------------------------------------------------

Working(p) == \E r \in Requests : req[r].pc # "idle" /\ req[r].on = p

\* The claims on a profile end when a request starts on it, and for good when two
\* requests deal with it at one time or its vault entry could not be removed
\* (an error the code drops).
Excuse(p) == excused' = excused \cup {p}

Begin(r, by, p, new) ==
  /\ req[r].pc = "idle" /\ status[by] = "up"
  /\ req' = [req EXCEPT ![r] = new]
  /\ settled' = [settled EXCEPT ![p] = "unknown"]
  /\ IF Working(p) THEN Excuse(p) ELSE UNCHANGED excused
  /\ UNCHANGED <<config, vault>>

At(r, step)   == req[r].pc = step
Goto(r, step) == req' = [req EXCEPT ![r].pc = step] /\ UNCHANGED settled

\* The request ends without an error, and what it claims holds from now on.
Report(r, claim) ==
  /\ req' = [req EXCEPT ![r] = Idle]
  /\ settled' = IF req[r].on \in excused \/ \E o \in Requests \ {r} : req[o].on = req[r].on
                THEN settled ELSE [settled EXCEPT ![req[r].on] = claim]

Fail(r) == req' = [req EXCEPT ![r] = Idle] /\ UNCHANGED settled

\* SaveProfile, of a new id or of one a form was opened for.  It keeps the flags
\* of the profile it finds.
SaveProfile(r, by, p, wish) ==
  LET existing == root[by][p] IN
  Begin(r, by, p, [pc |-> "upsert", by |-> by, on |-> p, from |-> None, wish |-> wish,
                   flag |-> existing # None /\ existing.hasSecret])

\* An id drawn at random, so nothing is stored under it.
Fresh(p) == /\ \A by \in Procs : root[by][p] = None
            /\ file[p] = None /\ vault[p] = None /\ ~Working(p)

\* DuplicateProfile copies the flags with the rest of the profile.
DuplicateProfile(r, by, p, q) ==
  /\ root[by][p] # None /\ Fresh(q)
  /\ Begin(r, by, q, [pc |-> "upsert", by |-> by, on |-> q, from |-> p, wish |-> None,
                      flag |-> root[by][p].hasSecret])

\* DeleteProfile, once the profile's sessions are closed.
DeleteProfile(r, by, p) ==
  Begin(r, by, p, [Idle EXCEPT !.pc = "forget", !.by = by, !.on = p])

Copies(r) == req[r].from # None

\* Faulty: one write is to do for a new secret and its flag.
FirstUpsertOnce(r) ==
  LET q == req[r] IN
  /\ At(r, "upsert")
  /\ IF q.wish \in Secrets \/ (Copies(r) /\ q.flag)
     THEN Goto(r, "get") /\ UNCHANGED <<root, file>>
     ELSE \E ok \in BOOLEAN :
            /\ Upsert(q.by, q.on, [hasSecret |-> q.flag], ok)
            /\ IF ~ok THEN Fail(r) ELSE IF q.wish = "clear" THEN Goto(r, "get") ELSE Report(r, "there")
  /\ UNCHANGED <<status, vault, excused>>

\* The profile is written first.
FirstUpsert(r) ==
  LET q == req[r] IN
  /\ At(r, "upsert")
  /\ \E ok \in BOOLEAN :
       /\ Upsert(q.by, q.on, [hasSecret |-> q.flag], ok)
       /\ \/ ~ok /\ Fail(r)
          \/ ok /\ IF Copies(r)
                   THEN IF q.flag THEN Goto(r, "get") ELSE Report(r, "there")
                   ELSE IF q.wish = "keep" THEN Report(r, "there") ELSE Goto(r, "get")
  /\ UNCHANGED <<status, vault, excused>>

\* Get.  An entry that cannot be read fails a save and is left out of a copy,
\* which is still reported as made.
Get(r) ==
  LET q == req[r]
      at == IF Copies(r) THEN q.from ELSE q.on
  IN
  /\ At(r, "get")
  /\ \/ Copies(r) /\ vault[at] \in Secrets /\ UNCHANGED settled
        /\ req' = [req EXCEPT ![r].pc = "truncate", ![r].wish = vault[at]]
     \/ ~Copies(r) /\ vault[at] # "torn"
        /\ Goto(r, IF q.wish = "clear" THEN "clear" ELSE "truncate")
     \/ Copies(r) /\ vault[at] \notin Secrets /\ Report(r, "there")
     \/ ~Copies(r) /\ vault[at] = "torn" /\ Fail(r)
  /\ UNCHANGED <<config, vault, excused>>

\* A copy whose secret could not be stored is reported as made too.
PutFails(r) == IF Copies(r) THEN Report(r, "there") ELSE Fail(r)

\* Put opens the entry with truncation.
Truncate(r) ==
  /\ At(r, "truncate")
  /\ \/ vault' = [vault EXCEPT ![req[r].on] = "torn"] /\ Goto(r, "write")
     \/ PutFails(r) /\ UNCHANGED vault
  /\ UNCHANGED <<config, excused>>

\* Faulty: an entry that could not be written is not noticed.
WriteUnchecked(r) ==
  /\ At(r, "write") /\ Goto(r, "flag")
  /\ vault' \in {vault, [vault EXCEPT ![req[r].on] = req[r].wish]}
  /\ UNCHANGED <<config, excused>>

\* ... and writes it.
Write(r) ==
  /\ At(r, "write")
  /\ \/ vault' = [vault EXCEPT ![req[r].on] = req[r].wish] /\ Goto(r, "flag")
     \/ PutFails(r) /\ UNCHANGED vault
  /\ UNCHANGED <<config, excused>>

\* The entry is removed; an error is dropped.
Remove(p) ==
  \/ vault' = [vault EXCEPT ![p] = None] /\ UNCHANGED excused
  \/ UNCHANGED vault /\ Excuse(p)

Clear(r) ==
  /\ At(r, "clear") /\ Remove(req[r].on) /\ Goto(r, "flag")
  /\ UNCHANGED config

\* The flags are written with a second Upsert; a copy does not look at its error.
SecondUpsert(r) ==
  LET q == req[r] IN
  /\ At(r, "flag")
  /\ \E ok \in BOOLEAN :
       /\ Upsert(q.by, q.on, [hasSecret |-> q.wish # "clear"], ok)
       /\ \/ ~ok /\ ~Copies(r) /\ Fail(r)
          \/ (ok \/ Copies(r)) /\ Report(r, IF q.wish = "clear" THEN "plain" ELSE q.wish)
  /\ UNCHANGED <<status, vault, excused>>

Forget(r) ==
  /\ At(r, "forget") /\ Remove(req[r].on) /\ Goto(r, "drop")
  /\ UNCHANGED config

Drop(r) ==
  LET q == req[r] IN
  /\ At(r, "drop")
  /\ \E ok \in BOOLEAN : Delete(q.by, q.on, ok) /\ IF ok THEN Report(r, "gone") ELSE Fail(r)
  /\ UNCHANGED <<status, vault, excused>>

------------------------------------------------------------------------------

Others(by) == (SaveRest(by) \/ Load(by) \/ migrate(by)) /\ UNCHANGED <<vault, req, settled, excused>>

\* A crash, or the end of a process: its requests are cut off.
Crash(by) ==
  /\ Exit(by)
  /\ req' = [r \in Requests |-> IF req[r].by = by THEN Idle ELSE req[r]]
  /\ UNCHANGED <<vault, settled, excused>>

Next ==
  \/ \E r \in Requests : \/ FirstUpsert(r) \/ Get(r) \/ Truncate(r) \/ Write(r) \/ Clear(r)
                         \/ SecondUpsert(r) \/ Forget(r) \/ Drop(r)
  \/ \E r \in Requests, by \in Procs, p \in Profiles :
       \/ \E wish \in Wishes : SaveProfile(r, by, p, wish)
       \/ \E q \in Profiles : DuplicateProfile(r, by, p, q)
       \/ DeleteProfile(r, by, p)
  \/ \E by \in Procs : Others(by) \/ Crash(by)

Spec == Init /\ [][Next]_vars

------------------------------------------------------------------------------
(* Properties                                                              *)

\* What a request reported stays so until another one begins on the profile,
\* whatever happens to other profiles, whichever of their writes fail, and across
\* crashes and restarts: a stored secret is in the vault under a profile that
\* says so, a cleared one is gone, and a deleted profile is neither in the file
\* nor in the vault.
SettledIsTrue ==
  \A p \in Profiles :
    /\ settled[p] \in Secrets => vault[p] = settled[p] /\ file[p] = [hasSecret |-> TRUE]
    /\ settled[p] = "plain"   => vault[p] = None /\ file[p] = [hasSecret |-> FALSE]
    /\ settled[p] = "there"   => file[p] # None
    /\ settled[p] = "gone"    => vault[p] = None /\ file[p] = None

\* No secret outlives its profile: a crash or a failed write between the two
\* stores leaves a profile without its secret, never a secret without a profile,
\* which nobody could see or delete any more.
NoOrphanSecret == \A p \in Profiles \ excused : vault[p] # None => file[p] # None
=================================================================================
