-------------------------------- MODULE CopyMove --------------------------------
(***************************************************************************)
(* Copy and move of remote trees (internal/transfers/copy.go).  A job walks *)
(* the source depth first, one remote call at a time, against a file system *)
(* that other jobs change meanwhile; calls may fail and the job may be      *)
(* canceled between any two of them.                                       *)
(*                                                                         *)
(* A path is a sequence of names.  A file's data is a model value: which   *)
(* bytes a file holds matters only as "whose content is this".             *)
(***************************************************************************)
EXTENDS Naturals, FiniteSets, SequencesExt

CONSTANTS Jobs,       \* copy and move jobs
          Plans,      \* what StartCopy may be asked: [from, to, move, policy]
          Tree,       \* the remote file system at the start: path -> node
          Faults,     \* what may go wrong with the remote calls of a job, per plan
          Torn,       \* the data of a file whose transfer broke off
          MaxRuns     \* bound: how often a job may run, retries included

Calls    == {"stat", "list", "mkdir", "upload", "download", "remove"}
\* A transfer that ends early and reports nothing: the FTP client reads the final
\* reply and returns nil whatever its code is (ftp_client.go:716, 747).
Breaks   == {"cutDownload", "cutUpload"}
Policies == {"refuse", "replace", "skip", "rename"}

ASSUME FaultsAssumption == Faults \in [Plans -> SUBSET (Calls \cup Breaks)]
ASSUME PlansAssumption ==
  \A plan \in Plans : plan.policy \in Policies /\ plan.move \in BOOLEAN
ASSUME PathsAssumption ==
  /\ \A p \in DOMAIN Tree : /\ p # <<>> /\ p \in Seq(ToSet(p))
                            /\ Tree[p].type \in {"dir", "file", "link"}
  /\ \A p \in Plans : p.from \in Seq(ToSet(p.from)) /\ p.to \in Seq(ToSet(p.to))
\* What is in the tree is in folders of the tree.
ASSUME TreeAssumption ==
  \A p \in DOMAIN Tree : \A n \in 1 .. Len(p) - 1 :
    SubSeq(p, 1, n) \in DOMAIN Tree /\ Tree[SubSeq(p, 1, n)].type = "dir"
ASSUME RunsAssumption == MaxRuns \in Nat

VARIABLES
  fs,        \* the remote file system: existing paths -> nodes
  plan,      \* what each job was asked to do
  outcome,   \* "idle", "running", then the job's terminal status
  stack,     \* the recursion of copyOne, one frame per open folder
  stats,     \* copyStats: [items, skipped, errs], each as "some" or "none"
  canceled,  \* the jobs whose context is canceled
  runs,      \* how often each job has started
  brokenOff  \* history: <<job, file>> where a torn copy was stored as if whole

vars == <<fs, plan, outcome, stack, stats, canceled, runs, brokenOff>>

Folder     == [type |-> "dir"]
Link       == [type |-> "link"]
File(data) == [type |-> "file", data |-> data]

Root == <<>>
Exists(p) == p \in DOMAIN fs \cup {Root}
TypeOf(p) == IF p = Root THEN "dir" ELSE fs[p].type
Parent(p) == Front(p)
Within(base, p) == IsPrefix(base, p)

\* "name (i).ext": names are a base name and the numbers appended to it.
Name(base) == [base |-> base, nums |-> <<>>]
Numbered(p, i) == Append(Front(p), [Last(p) EXCEPT !.nums = Append(@, i)])

NoStats == [items |-> FALSE, skipped |-> FALSE, errs |-> FALSE]
Top(j)  == Last(stack[j])

Listed(j) == IF stack[j] = <<>> THEN {} ELSE Top(j).todo

\* The steps of one copyOne: "probe" and "probeDir" look at the destination of
\* a file and of a folder, "resolve" and "unique" pick the target.
Steps == {"enter", "probe", "probeDir", "resolve", "unique", "download", "upload",
          "removeFile", "mkdir", "list", "children", "removeTree", "verify"}

Frame(from, to) ==
  [at |-> "enter", from |-> from, to |-> to, target |-> to, dir |-> FALSE,
   num |-> 1, todo |-> {}, data |-> Torn]

\* What the tree and the jobs can hold; only a running job has calls in progress.
TypeOK ==
  /\ \A p \in DOMAIN fs : p # Root /\ TypeOf(p) \in {"dir", "file", "link"}
  /\ plan \in [Jobs -> Plans]
  /\ outcome \in [Jobs -> {"idle", "running", "completed", "failed", "canceled"}]
  /\ stats \in [Jobs -> [items : BOOLEAN, skipped : BOOLEAN, errs : BOOLEAN]]
  /\ \A j \in Jobs : \A d \in DOMAIN stack[j] : stack[j][d].at \in Steps
  /\ \A j \in Jobs : outcome[j] # "running" => stack[j] = <<>>
  /\ canceled \subseteq Jobs
  /\ runs \in [Jobs -> 0 .. MaxRuns]

Init ==
  /\ fs = Tree
  /\ plan \in [Jobs -> Plans]
  /\ outcome = [j \in Jobs |-> "idle"]
  /\ stack = [j \in Jobs |-> <<>>]
  /\ stats = [j \in Jobs |-> NoStats]
  /\ canceled = {}
  /\ runs = [j \in Jobs |-> 0]
  /\ brokenOff = {}

------------------------------------------------------------------------------
(* The remote calls: they may fail for their own reason or by a fault      *)

MayFail(j, call) == call \in Faults[plan[j]]
\* Stat of p returns an entry, respectively an error: no such entry, or a fault.
StatFinds(p) == Exists(p)
StatFails(j, p) == ~Exists(p) \/ MayFail(j, "stat")

Put(p, node)  == fs' = [q \in DOMAIN fs \cup {p} |-> IF q = p THEN node ELSE fs[q]]
Delete(paths) == fs' = [q \in DOMAIN fs \ paths |-> fs[q]]

CanMkdir(p) == p # Root /\ ~Exists(p) /\ Exists(Parent(p)) /\ TypeOf(Parent(p)) = "dir"
CanWrite(p) == /\ p # Root /\ Exists(Parent(p)) /\ TypeOf(Parent(p)) = "dir"
               /\ Exists(p) => TypeOf(p) # "dir"
CanRead(p)  == p # Root /\ Exists(p) /\ TypeOf(p) = "file"
Children(p) == {q \in DOMAIN fs : Len(q) = Len(p) + 1 /\ IsPrefix(p, q)}
Subtree(p)  == {q \in DOMAIN fs : IsPrefix(p, q)}

------------------------------------------------------------------------------
(* Steps of a job                                                          *)

At(j, step) == outcome[j] = "running" /\ stack[j] # <<>> /\ Top(j).at = step

Goto(j, step)   == stack' = [stack EXCEPT ![j] = Append(Front(@), [Last(@) EXCEPT !.at = step])]
Become(j, f)    == stack' = [stack EXCEPT ![j] = Append(Front(@), f)]
Count(j, field) == stats' = [stats EXCEPT ![j] = [@ EXCEPT ![field] = TRUE]]
AddErr(j)       == Count(j, "errs")

\* copyOne returns nil: back to the folder it was called for, or, from the
\* outermost call, to copyRecursive.
Pop(j) ==
  stack' = [stack EXCEPT ![j] =
              IF Len(@) > 1 THEN Front(@)
              ELSE <<[Last(@) EXCEPT !.at = "verify"]>>]

\* An error is recorded and the entry given up; the operation goes on.
GiveUp(j) == AddErr(j) /\ Pop(j)

End(j, result) ==
  /\ outcome' = [outcome EXCEPT ![j] = result]
  /\ stack' = [stack EXCEPT ![j] = <<>>]

Same == UNCHANGED <<plan, outcome, canceled, runs, brokenOff>>

\* The guards of StartCopy that look at the paths alone.
Accepts(from, to) == from # Root /\ ~Within(from, to)

\* The job then waits in the queue for its run.
StartCopy(j) ==
  LET p == plan[j] IN
  /\ outcome[j] = "idle" /\ runs[j] < MaxRuns
  /\ Accepts(p.from, p.to)
  /\ StatFinds(Parent(p.to)) /\ TypeOf(Parent(p.to)) = "dir"
  /\ outcome' = [outcome EXCEPT ![j] = "running"]
  /\ stack' = [stack EXCEPT ![j] = <<Frame(p.from, p.to)>>]
  /\ runs' = [runs EXCEPT ![j] = @ + 1]
  /\ UNCHANGED <<fs, plan, stats, canceled, brokenOff>>

\* Retry runs the same closure again, with nothing remembered of the first run.
Retry(j) ==
  /\ outcome[j] \in {"failed", "canceled"} /\ runs[j] < MaxRuns
  /\ outcome' = [outcome EXCEPT ![j] = "running"]
  /\ stack' = [stack EXCEPT ![j] = <<Frame(plan[j].from, plan[j].to)>>]
  /\ stats' = [stats EXCEPT ![j] = NoStats]
  /\ canceled' = canceled \ {j}
  /\ runs' = [runs EXCEPT ![j] = @ + 1]
  /\ UNCHANGED <<fs, plan, brokenOff>>

Cancel(j) ==
  /\ outcome[j] = "running"
  /\ canceled' = canceled \cup {j}
  /\ UNCHANGED <<fs, plan, outcome, stack, stats, runs, brokenOff>>

\* The context is looked at when an entry is entered and between children.
Abort(j) ==
  /\ At(j, "enter") \/ At(j, "children") \/ At(j, "upload")
  /\ j \in canceled
  /\ At(j, "children") => Top(j).todo # {}
  /\ End(j, "canceled")
  /\ UNCHANGED <<fs, plan, stats, canceled, runs, brokenOff>>

\* A symlink named as the source shows as itself (FTP's Stat; the SFTP client's
\* follows it): it is noted as an error and skipped.
Enter(j) ==
  LET from == Top(j).from IN
  /\ At(j, "enter") /\ j \notin canceled
  /\ StatFinds(from)
  /\ \/ /\ TypeOf(from) = "link"
        /\ stats' = [stats EXCEPT ![j].errs = TRUE, ![j].skipped = TRUE]
        /\ Pop(j)
     \/ /\ TypeOf(from) = "file" /\ Goto(j, "probe") /\ UNCHANGED stats
     \/ /\ TypeOf(from) = "dir" /\ Goto(j, "probeDir") /\ UNCHANGED stats
  /\ UNCHANGED fs /\ Same

EnterFails(j) ==
  /\ At(j, "enter") /\ j \notin canceled
  /\ StatFails(j, Top(j).from)
  /\ GiveUp(j)
  /\ UNCHANGED fs /\ Same

------------------------------------------------------------------------------
(* Where an entry goes                                                     *)

\* A folder in the way of a file: skipped, or an error under any other policy.
ProbeFolder(j) ==
  /\ At(j, "probe")
  /\ StatFinds(Top(j).to) /\ TypeOf(Top(j).to) = "dir"
  /\ IF plan[j].policy = "skip" THEN Count(j, "skipped") /\ Pop(j) ELSE GiveUp(j)
  /\ UNCHANGED fs /\ Same

\* Anything else at the destination, nothing, or a failed Stat.
ProbeOther(j) ==
  /\ At(j, "probe")
  /\ StatFails(j, Top(j).to) \/ (StatFinds(Top(j).to) /\ TypeOf(Top(j).to) # "dir")
  /\ Goto(j, "resolve")
  /\ UNCHANGED <<fs, stats>> /\ Same

\* What copyOne does with a folder whose destination is a folder, and one
\* whose destination is something else.
OnFolder(policy) ==
  CASE policy = "skip"   -> "skip"
    [] policy = "refuse" -> "error"
    [] policy = "rename" -> "unique"
    [] OTHER             -> "merge"
OnOther(policy) ==
  CASE policy = "skip"   -> "skip"
    [] policy = "rename" -> "unique"
    [] OTHER             -> "error"

ProbeDir(j) ==
  LET to == Top(j).to
      action == IF TypeOf(to) = "dir" THEN OnFolder(plan[j].policy)
                ELSE OnOther(plan[j].policy)
  IN
  /\ At(j, "probeDir")
  /\ StatFinds(to)
  /\ \/ action = "skip" /\ Count(j, "skipped") /\ Pop(j)
     \/ action = "error" /\ GiveUp(j)
     \/ action = "unique" /\ Become(j, [Top(j) EXCEPT !.at = "unique", !.dir = TRUE])
          /\ UNCHANGED stats
     \/ action = "merge" /\ Goto(j, "list") /\ UNCHANGED stats
  /\ UNCHANGED fs /\ Same

ProbeDirFails(j) ==
  /\ At(j, "probeDir")
  /\ StatFails(j, Top(j).to)
  /\ Become(j, [Top(j) EXCEPT !.at = "resolve", !.dir = TRUE])
  /\ UNCHANGED <<fs, stats>> /\ Same

\* Faulty: an existing file is written over whatever the policy.
OverwritesExisting(j) ==
  /\ At(j, "resolve")
  /\ StatFinds(Top(j).to)
  /\ Goto(j, IF Top(j).dir THEN "mkdir" ELSE "download") /\ UNCHANGED stats
  /\ UNCHANGED fs /\ Same

\* What follows the choice of a target.
Transfer(j) == IF Top(j).dir THEN "mkdir" ELSE "download"

\* resolveDest, nothing found: the destination itself, also when Stat failed.
ResolveNew(j) ==
  /\ At(j, "resolve")
  /\ StatFails(j, Top(j).to)
  /\ Become(j, [Top(j) EXCEPT !.at = Transfer(j), !.target = @])
  /\ UNCHANGED <<fs, stats>> /\ Same

\* resolveDest, something there.  For a folder the answer "skip" is dropped by
\* the caller: the target is empty then, which the client takes for the root.
ResolveExisting(j) ==
  LET policy == plan[j].policy
      f == Top(j)
  IN
  /\ At(j, "resolve")
  /\ StatFinds(f.to)
  /\ \/ policy = "refuse" /\ GiveUp(j)
     \/ policy = "replace" /\ Goto(j, Transfer(j)) /\ UNCHANGED stats
     \/ policy = "skip" /\ ~f.dir /\ Count(j, "skipped") /\ Pop(j)
     \/ policy = "skip" /\ f.dir /\ UNCHANGED stats
          /\ Become(j, [f EXCEPT !.at = "mkdir", !.target = Root])
     \/ policy = "rename" /\ Goto(j, "unique") /\ UNCHANGED stats
  /\ UNCHANGED fs /\ Same

\* Faulty: the number is not counted up.
TriesAgain(j) ==
  /\ At(j, "unique")
  /\ StatFinds(Numbered(Top(j).to, Top(j).num))
  /\ UNCHANGED vars

\* uniqueDest tries "name (1)", "name (2)", ... until Stat finds nothing.
UniqueTaken(j) ==
  /\ At(j, "unique")
  /\ StatFinds(Numbered(Top(j).to, Top(j).num))
  /\ Become(j, [Top(j) EXCEPT !.num = @ + 1])
  /\ UNCHANGED <<fs, stats>> /\ Same

UniqueFree(j) ==
  LET cand == Numbered(Top(j).to, Top(j).num) IN
  /\ At(j, "unique")
  /\ StatFails(j, cand)
  /\ Become(j, [Top(j) EXCEPT !.at = Transfer(j), !.target = cand, !.num = 1])
  /\ UNCHANGED <<fs, stats>> /\ Same

------------------------------------------------------------------------------
(* A file: copyFile, then the removal of a move                            *)

\* What a transfer of data may leave behind and report as done.
Arrives(j, data, break) == IF MayFail(j, break) THEN {data, Torn} ELSE {data}

\* The staged copy holds what the source held when it was read, or part of it: the
\* size is looked at only to refuse an empty copy, as a failed Download.
Download(j) ==
  /\ At(j, "download")
  /\ CanRead(Top(j).from)
  /\ \E data \in Arrives(j, fs[Top(j).from].data, "cutDownload") :
       Become(j, [Top(j) EXCEPT !.at = "upload", !.data = data])
  /\ UNCHANGED <<fs, stats>> /\ Same

\* Faulty: an entry that could not be copied leaves no trace in the result.
ForgetsError(j) ==
  \/ j \in canceled /\ End(j, "canceled") /\ UNCHANGED stats
  \/ j \notin canceled /\ Pop(j) /\ UNCHANGED <<stats, outcome>>

\* Faulty: the source is removed after a failed copy too.
RemovesAnyway(j) == Goto(j, "removeFile") /\ UNCHANGED <<stats, outcome>>

\* A canceled context turns any error of copyFile into the end of the job.
CopyFileFails(j) ==
  \/ j \in canceled /\ End(j, "canceled") /\ UNCHANGED stats
  \/ j \notin canceled /\ GiveUp(j) /\ UNCHANGED outcome

DownloadFails(j) ==
  /\ At(j, "download")
  /\ ~CanRead(Top(j).from) \/ MayFail(j, "download") \/ j \in canceled
  /\ CopyFileFails(j)
  /\ UNCHANGED <<fs, plan, canceled, runs, brokenOff>>

Upload(j) ==
  /\ At(j, "upload") /\ CanWrite(Top(j).target)
  /\ \E data \in Arrives(j, Top(j).data, "cutUpload") :
       /\ Put(Top(j).target, File(data))
       /\ brokenOff' = IF data = Torn THEN brokenOff \cup {<<j, Top(j).from>>} ELSE brokenOff
  /\ IF plan[j].move THEN Goto(j, "removeFile") /\ UNCHANGED stats
     ELSE Count(j, "items") /\ Pop(j)
  /\ UNCHANGED <<plan, outcome, canceled, runs>>

\* The upload fails before the target is touched, or leaves it torn.
UploadFails(j) ==
  /\ At(j, "upload")
  /\ \/ ~CanWrite(Top(j).target) /\ UNCHANGED fs
     \/ /\ CanWrite(Top(j).target)
        /\ MayFail(j, "upload") \/ j \in canceled
        /\ UNCHANGED fs \/ Put(Top(j).target, File(Torn))
  /\ CopyFileFails(j)
  /\ UNCHANGED <<plan, canceled, runs, brokenOff>>

RemoveFile(j) ==
  /\ At(j, "removeFile")
  /\ Exists(Top(j).from)
  /\ Delete({Top(j).from})
  /\ Count(j, "items") /\ Pop(j)
  /\ Same

\* The source stays; the copy counts as made all the same.
RemoveFileFails(j) ==
  /\ At(j, "removeFile")
  /\ ~Exists(Top(j).from) \/ MayFail(j, "remove")
  /\ stats' = [stats EXCEPT ![j].items = TRUE, ![j].errs = TRUE]
  /\ Pop(j)
  /\ UNCHANGED fs /\ Same

------------------------------------------------------------------------------
(* A folder: its destination, its entries, its removal                     *)

Mkdir(j) ==
  /\ At(j, "mkdir") /\ CanMkdir(Top(j).target)
  /\ Put(Top(j).target, Folder)
  /\ Goto(j, "list") /\ UNCHANGED stats
  /\ Same

MkdirFails(j) ==
  /\ At(j, "mkdir")
  /\ ~CanMkdir(Top(j).target) \/ MayFail(j, "mkdir")
  /\ GiveUp(j)
  /\ UNCHANGED fs /\ Same

ListFolder(j) ==
  /\ At(j, "list")
  /\ StatFinds(Top(j).from)
  /\ Become(j, [Top(j) EXCEPT !.at = "children", !.todo = Children(Top(j).from)])
  /\ UNCHANGED <<fs, stats>> /\ Same

ListFails(j) ==
  /\ At(j, "list")
  /\ ~Exists(Top(j).from) \/ MayFail(j, "list")
  /\ GiveUp(j)
  /\ UNCHANGED fs /\ Same

\* The type of an entry is the one the listing gave; an entry gone since is
\* found missing by its own copyOne.
IsLink(p) == Exists(p) /\ TypeOf(p) = "link"

\* A file or folder of the listing: copyOne on it.
Descend(j, p) ==
  LET f == Top(j) IN
  /\ At(j, "children") /\ j \notin canceled
  /\ ~IsLink(p)
  /\ stack' = [stack EXCEPT ![j] =
       Front(@) \o <<[f EXCEPT !.todo = @ \ {p}], Frame(p, Append(f.target, Last(p)))>>]
  /\ UNCHANGED <<fs, stats>> /\ Same

\* A symlink of the listing is counted and passed over.
PassOver(j, p) ==
  /\ At(j, "children") /\ j \notin canceled
  /\ IsLink(p)
  /\ Become(j, [Top(j) EXCEPT !.todo = @ \ {p}])
  /\ Count(j, "skipped")
  /\ UNCHANGED fs /\ Same

\* All entries are through: a move removes the source folder, a copy is done.
RemovesSource(j) == plan[j].move
ChildrenDone(j) ==
  /\ At(j, "children") /\ Top(j).todo = {}
  /\ IF RemovesSource(j) THEN Goto(j, "removeTree") ELSE Pop(j)
  /\ UNCHANGED <<fs, stats>> /\ Same

\* Remove(from, recursive): whatever the folder still holds goes with it.
RemoveTree(j) ==
  /\ At(j, "removeTree")
  /\ Exists(Top(j).from)
  /\ Delete(Subtree(Top(j).from))
  /\ Pop(j) /\ UNCHANGED stats
  /\ Same

\* It may fail half-way, with part of the tree removed from its leaves up.
RemoveTreeFails(j) ==
  /\ At(j, "removeTree")
  /\ ~Exists(Top(j).from) \/ MayFail(j, "remove")
  /\ \E gone \in SUBSET Subtree(Top(j).from) :
       /\ \A p \in gone : Subtree(p) \subseteq gone
       /\ Delete(gone)
  /\ GiveUp(j)
  /\ Same

------------------------------------------------------------------------------
(* The end of copyRecursive and of the worker's run                        *)

\* The result run settles on: a canceled context wins.
Result(j, ok) == IF j \in canceled THEN "canceled" ELSE IF ok THEN "completed" ELSE "failed"

Finish(j) ==
  /\ At(j, "verify")
  /\ \/ stats[j].errs /\ End(j, Result(j, FALSE))
     \/ ~stats[j].errs /\ ~stats[j].items /\ End(j, Result(j, TRUE))
     \/ ~stats[j].errs /\ stats[j].items /\ StatFinds(plan[j].to) /\ End(j, Result(j, TRUE))
     \/ ~stats[j].errs /\ stats[j].items /\ StatFails(j, plan[j].to) /\ End(j, Result(j, FALSE))
  /\ UNCHANGED <<fs, plan, stats, canceled, runs, brokenOff>>

Step(j) ==
  \/ Abort(j) \/ Enter(j) \/ EnterFails(j)
  \/ ProbeFolder(j) \/ ProbeOther(j) \/ ProbeDir(j) \/ ProbeDirFails(j)
  \/ ResolveNew(j) \/ ResolveExisting(j) \/ UniqueTaken(j) \/ UniqueFree(j)
  \/ Download(j) \/ DownloadFails(j) \/ Upload(j) \/ UploadFails(j)
  \/ RemoveFile(j) \/ RemoveFileFails(j)
  \/ Mkdir(j) \/ MkdirFails(j) \/ ListFolder(j) \/ ListFails(j)
  \/ \E p \in Listed(j) : Descend(j, p) \/ PassOver(j, p)
  \/ ChildrenDone(j) \/ RemoveTree(j) \/ RemoveTreeFails(j)
  \/ Finish(j)

\* Every job is over or was never accepted.
AtRest == (\A j \in Jobs : outcome[j] # "running") /\ UNCHANGED vars

Next ==
  \/ \E j \in Jobs : StartCopy(j) \/ Retry(j) \/ Cancel(j) \/ Step(j)
  \/ AtRest

Spec == Init /\ [][Next]_vars
\* A remote call returns, with a result or an error.
FairSpec == Spec /\ \A j \in Jobs : WF_vars(Step(j))
------------------------------------------------------------------------------
(* What the design promises and the code keeps                             *)

SourceOf(j)  == {p \in DOMAIN Tree : Within(plan[j].from, p)}
FilesAt(ps)  == {p \in ps : Tree[p].type = "file"}
DataIn(p)    == IF Exists(p) /\ p # Root /\ TypeOf(p) = "file" THEN {fs[p].data} ELSE {}
DataOutside(j) == UNION {DataIn(p) : p \in {q \in DOMAIN fs : ~Within(plan[j].from, q)}}

\* A job reported completed that skipped nothing has landed every file of its
\* source outside of it, whole (copy.go:123-143), on a retry too; but for the
\* files of which the client stored a torn copy and said nothing.
CompletedMeansCopied ==
  \A j \in Jobs : (outcome[j] = "completed" /\ ~stats[j].skipped)
    => \A p \in FilesAt(SourceOf(j)) :
         Tree[p].data \in DataOutside(j) \/ <<j, p>> \in brokenOff

\* Refuse, skip and rename leave what exists at the destination as it was
\* (protocol/copy.go:9-17): no step of such a job changes or removes a path
\* outside its source.
DestinationUntouched ==
  [][\A j \in Jobs : (Step(j) /\ plan[j].policy # "replace")
        => \A p \in DOMAIN fs : ~Within(plan[j].from, p)
                                => p \in DOMAIN fs' /\ fs'[p] = fs[p]]_vars

\* A move loses nothing: at every moment each file of the source exists whole
\* somewhere (copy.go:185-196, 265-290), across failures, cancellation, retry;
\* but for the files a move stored a torn copy of and was told nothing.
NothingLost ==
  \A j \in Jobs : \A p \in FilesAt(SourceOf(j)) :
    \/ \E q \in DOMAIN fs : Tree[p].data \in DataIn(q)
    \/ \E k \in Jobs : plan[k].move /\ <<k, p>> \in brokenOff

\* A job ends, whatever names are taken at its destination (copy.go:382-393).
JobEnds == \A j \in Jobs : outcome[j] = "running" ~> outcome[j] # "running"

------------------------------------------------------------------------------
(* What comments of the source say and the code does not keep              *)

\* "Best-effort cleanup of the (now empty) source tree" (copy.go:286): the
\* folder that is removed with all it holds, holds no file and no link.
RemovesEmptyTree ==
  \A j \in Jobs : At(j, "removeTree") =>
    \A p \in Subtree(Top(j).from) : TypeOf(p) = "dir"
==============================================================================
