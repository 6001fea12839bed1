--------------------------------- MODULE Search ---------------------------------
(***************************************************************************)
(* The search of a remote tree (internal/manager/search.go): a breadth     *)
(* first walk, one List at a time, over the tree that the copies and moves *)
(* of CopyMove change meanwhile.  A query is a record: path is where it    *)
(* starts, matching the base names its text and extension select, hidden   *)
(* and recursive its options, max its limit on results.                    *)
(***************************************************************************)
EXTENDS CopyMove

CONSTANTS Queries,    \* what a search may be asked
          Dotted,     \* the base names that begin with a dot
          MaxDirs     \* searchMaxDirs

ASSUME QueriesAssumption ==
  \A q \in Queries : q.max \in Nat \ {0} /\ q.path \in Seq(ToSet(q.path))
ASSUME FiniteAssumption == IsFiniteSet(DOMAIN Tree)
ASSUME MaxDirsAssumption == MaxDirs \in Nat

VARIABLES
  query,     \* the query of the request
  phase,     \* "idle", "check", "list", then the answer: "complete" or "canceled"
  todo,      \* the folders found and not yet listed, in order
  dirs,      \* dirsVisited: how many folders were put in todo
  results,   \* the paths found, in order
  aborted,   \* the request's context is canceled
  unread,    \* history: the folders whose List failed for a reason of their own
  lasting    \* history: the paths that were in view during the whole search

walk  == <<phase, todo, dirs, results, aborted>>
searchVars == <<query, walk, unread, lasting>>

Visible(name) == query.hidden \/ name.base \notin Dotted
Matches(p)    == Last(p).base \in query.matching

\* A path that a search could find: below the start, in folders that can be
\* listed, neither it nor any of them hidden.
InView(p) ==
  /\ IsStrictPrefix(query.path, p) /\ Exists(p)
  /\ query.recursive \/ Len(p) = Len(query.path) + 1
  /\ \A n \in Len(query.path) .. Len(p) - 1 :
       LET folder == SubSeq(p, 1, n) IN
       /\ Exists(folder) /\ TypeOf(folder) = "dir" /\ folder \notin unread
       /\ Visible(p[n + 1])

SearchInit ==
  /\ query \in Queries
  /\ phase = "idle" /\ todo = <<>> /\ dirs = 0 /\ results = <<>> /\ aborted = FALSE
  /\ unread = {} /\ lasting = {}

Ask ==
  /\ phase = "idle"
  /\ phase' = "check" /\ todo' = <<query.path>>
  /\ lasting' = {p \in DOMAIN fs : InView(p)}
  /\ UNCHANGED <<dirs, results, aborted, unread>>

\* The client of the request goes away.
Abandon ==
  /\ phase \in {"check", "list"} /\ ~aborted
  /\ aborted' = TRUE
  /\ UNCHANGED <<phase, todo, dirs, results, unread>>

\* Faulty: a walk that ended is complete, whatever its last List said.
EndsComplete ==
  /\ phase = "check" /\ todo = <<>>
  /\ phase' = "complete"
  /\ UNCHANGED <<todo, dirs, results, aborted, unread>>

\* The context is looked at before each List and after the last one.
Answer ==
  /\ phase = "check" /\ (aborted \/ todo = <<>>)
  /\ phase' = IF aborted THEN "canceled" ELSE "complete"
  /\ UNCHANGED <<todo, dirs, results, aborted, unread>>

Proceed ==
  /\ phase = "check" /\ ~aborted /\ todo # <<>>
  /\ phase' = "list"
  /\ UNCHANGED <<todo, dirs, results, aborted, unread>>

\* The two sequences have what is in both in the same order.
InOneOrder(s, t) ==
  \A i, k \in DOMAIN s : \A m, n \in DOMAIN t :
    s[i] = t[m] /\ s[k] = t[n] => (i < k) = (m < n)

\* The folders and the matches of a listing: folders join the queue up to the
\* limit, matches the results; with the last result the search is over.
TakeEntries(folders, matches) ==
  LET room  == IF Len(folders) < MaxDirs - dirs THEN Len(folders) ELSE MaxDirs - dirs
      found == results \o matches
  IN
  IF Len(found) >= query.max
  THEN /\ phase' = "complete" /\ results' = SubSeq(found, 1, query.max)
       /\ UNCHANGED <<todo, dirs>>
  ELSE /\ phase' = "check" /\ results' = found
       /\ todo' = Tail(todo) \o SubSeq(folders, 1, room)
       /\ dirs' = dirs + room

\* The entries come in the server's order, whatever it is.
ListShows ==
  LET dir     == Head(todo)
      shown   == {p \in Children(dir) : Visible(Last(p))}
      subdirs == {p \in shown : query.recursive /\ TypeOf(p) = "dir"}
  IN
  /\ phase = "list"
  /\ Exists(dir) /\ TypeOf(dir) = "dir"
  /\ \E folders \in SetToSeqs(subdirs), matches \in SetToSeqs({p \in shown : Matches(p)}) :
       InOneOrder(folders, matches) /\ TakeEntries(folders, matches)
  /\ UNCHANGED <<aborted, unread>>

\* A folder that is gone, that may not be read, or whose List the cancellation
\* broke off, is passed over.
PassFolder ==
  /\ phase = "list"
  /\ phase' = "check" /\ todo' = Tail(todo)
  /\ unread' = IF aborted THEN unread ELSE unread \cup {Head(todo)}
  /\ UNCHANGED <<dirs, results, aborted>>

SearchStep == Abandon \/ Answer \/ Proceed \/ ListShows \/ PassFolder

\* What is in view is followed at every step, of the search or of others.
Follow == lasting' = IF phase \in {"check", "list"} THEN {p \in lasting : InView(p)'} ELSE lasting

SearchNext ==
  \/ UNCHANGED <<vars, query>> /\ (Ask \/ (SearchStep /\ Follow))
  \/ UNCHANGED <<query, walk, unread>> /\ Next /\ Follow

SearchSpec == Init /\ SearchInit /\ [][SearchNext]_<<vars, searchVars>>

------------------------------------------------------------------------------
(* What a search promises                                                  *)

\* A search that was not canceled and met neither of its limits has found every
\* match that was there all along (search.go:59-93), whatever copies and moves
\* ran beside it, and none twice.
SearchIsComplete ==
  /\ \A i, k \in DOMAIN results : results[i] = results[k] => i = k
  /\ (phase = "complete" /\ Len(results) < query.max /\ dirs < MaxDirs)
       => \A p \in lasting : Matches(p) => \E i \in DOMAIN results : results[i] = p
=================================================================================
