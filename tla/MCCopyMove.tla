------------------------------- MODULE MCCopyMove -------------------------------
(***************************************************************************)
(* Small instances of CopyMove: a source folder s with a file a and a      *)
(* folder d holding a file b, a destination folder t in which s and a file *)
(* a may exist already and, in LinkTree, a folder k with a symlink.  A     *)
(* behaviour is about a job under every trouble, or about a search of the  *)
(* tree beside a job nobody cancels.                                       *)
(***************************************************************************)
EXTENDS Search

CONSTANTS contentA, contentB, oldA, oldS   \* what the files hold

N(base)  == Name(base)
S        == <<N("s")>>
T        == <<N("t")>>
In(p, base) == Append(p, N(base))

Source == (S :> Folder) @@ (In(S, "a") :> File(contentA))
            @@ (In(S, "d") :> Folder) @@ (In(In(S, "d"), "b") :> File(contentB))
Target == (T :> Folder) @@ (In(T, "a") :> File(oldA))
            @@ (In(T, "s") :> Folder) @@ (In(In(T, "s"), "a") :> File(oldS))
PlainTree == Source @@ Target
K        == <<N("k")>>
LinkTree  == PlainTree @@ (K :> Folder) @@ (In(K, "l") :> Link)

\* Into an existing folder of that name, to a new name, and into itself.
TreePlans(move, policies) ==
  [from : {S}, to : {In(T, "s"), In(T, "n"), In(S, "x")}, move : {move}, policy : policies]
\* One file, onto another one or to a new name.
FilePlans(move, policies) ==
  [from : {In(S, "a")}, to : {In(T, "a"), In(T, "n"), In(T, "s")},
   move : {move}, policy : policies]

\* A symlink named as the source, and one in the folder that is.
LinkPlans == [from : {K, In(K, "l")}, to : {In(T, "n")}, move : BOOLEAN, policy : {"refuse"}]

CopyPlans     == TreePlans(FALSE, Policies) \cup FilePlans(FALSE, Policies) \cup LinkPlans
MoveFilePlans == FilePlans(TRUE, Policies)
MoveTreePlans == TreePlans(TRUE, Policies \ {"skip"})
AllPlans      == CopyPlans \cup MoveFilePlans \cup MoveTreePlans
AllMovePlans  == TreePlans(TRUE, Policies)

\* What goes wrong.  A failed Stat is taken for "nothing there", and a failure
\* inside a moved tree for nothing at all: both lose data, and the passing run
\* keeps to the others.  Any transfer may break off in silence.
HonestFaults ==
  [p \in Plans |-> Breaks \cup IF p \in MoveTreePlans THEN {"remove"} ELSE Calls \ {"stat"}]
DownloadFaults == [p \in Plans |-> {"download"}]

\* The files from the root, without what is hidden, and from the folder that
\* moves; a small number of entries from the folder it moves into, and the
\* entries of that folder alone.
SearchQueries ==
  {[path |-> Root, matching |-> {"a", "b"}, hidden |-> FALSE, recursive |-> TRUE, max |-> 20],
   [path |-> S, matching |-> {"a", "b"}, hidden |-> TRUE, recursive |-> TRUE, max |-> 20],
   [path |-> T, matching |-> {"a", "d", "b"}, hidden |-> FALSE, recursive |-> TRUE, max |-> 2],
   [path |-> T, matching |-> {"s", "n"}, hidden |-> TRUE, recursive |-> FALSE, max |-> 20]}
SearchPlans == {p \in TreePlans(TRUE, {"replace"}) : p.to # In(S, "x")}

VARIABLE subject   \* which of the two the behaviour is about

trees == <<vars, searchVars, subject>>

TreesInit ==
  /\ Init /\ SearchInit /\ subject \in {"jobs", "searches"}
  /\ subject = "jobs" => query = CHOOSE q \in Queries : TRUE
  /\ subject = "searches" => \A j \in Jobs : plan[j] \in SearchPlans
TreesNext ==
  \/ subject = "jobs" /\ Next /\ UNCHANGED <<searchVars, subject>>
  \/ /\ subject = "searches" /\ SearchNext /\ UNCHANGED subject
     /\ canceled' = {} /\ \A j \in Jobs : runs'[j] <= 1
TreesSpec == TreesInit /\ [][TreesNext]_trees /\ \A j \in Jobs : WF_vars(Step(j))
==============================================================================
