------------------------------ MODULE ConfigStore ------------------------------
(***************************************************************************)
(* The configuration file (internal/config) and the processes that use it: *)
(* each loads it once, changes its own copy in memory and writes the whole *)
(* copy back after every change.  One write is one step here: the store's  *)
(* lock is held throughout, and a crash in the middle of it leaves the old *)
(* file, because only a complete temporary file is renamed over it.        *)
(*                                                                         *)
(* Of the document the profiles are kept, and of a profile whether it says *)
(* that the vault holds a secret for it.                                   *)
(***************************************************************************)
CONSTANTS Procs,     \* the processes that share the data directory
          Profiles,  \* bound: connection ids
          None       \* no profile, no secret, no process

VARIABLES
  root,    \* Store.root of each process
  file,    \* config.json
  status   \* "down", "loading" or "up", per process

config == <<root, file, status>>

\* Connection.HasSecret, HasPrivateKey: one flag here.
Connection == [hasSecret : BOOLEAN]
Root       == [Profiles -> Connection \cup {None}]

ConfigTypeOK ==
  /\ root \in [Procs -> Root]
  /\ file \in Root
  /\ status \in [Procs -> {"down", "loading", "up"}]

\* The first start of a process writes an empty document; it is there already.
ConfigInit ==
  /\ file = [p \in Profiles |-> None]
  /\ root = [by \in Procs |-> file]
  /\ status = [by \in Procs |-> "up"]

\* saveLocked writes the whole document.  When it fails the change stays in memory.
saveLocked(by, r, ok) ==
  /\ root' = [root EXCEPT ![by] = r]
  /\ file' = IF ok THEN r ELSE file

Upsert(by, p, c, ok) == saveLocked(by, [root[by] EXCEPT ![p] = c], ok)

\* Delete: nothing is written for a profile this process does not know.
Delete(by, p, ok) ==
  \/ root[by][p] = None /\ ~ok /\ UNCHANGED <<root, file>>
  \/ root[by][p] # None /\ saveLocked(by, [root[by] EXCEPT ![p] = None], ok)

\* Settings, favourites, recent places and the onboarding mark are written with
\* whatever else the process has in memory.
SaveRest(by) ==
  /\ status[by] = "up"
  /\ \E ok \in BOOLEAN : saveLocked(by, root[by], ok)
  /\ UNCHANGED status

\* Load reads the file.
Load(by) ==
  /\ status[by] = "down"
  /\ status' = [status EXCEPT ![by] = "loading"]
  /\ root' = [root EXCEPT ![by] = file]
  /\ UNCHANGED file

\* migrate writes it back in the current version, or the process does not start.
migrate(by) ==
  /\ status[by] = "loading"
  /\ \E ok \in BOOLEAN :
       /\ saveLocked(by, root[by], ok)
       /\ status' = [status EXCEPT ![by] = IF ok THEN "up" ELSE "down"]

\* The process ends, at any point, and its memory with it.
Exit(by) ==
  /\ status[by] # "down"
  /\ status' = [status EXCEPT ![by] = "down"]
  /\ root' = [root EXCEPT ![by] = [p \in Profiles |-> None]]
  /\ UNCHANGED file
=================================================================================
