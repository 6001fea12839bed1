-------------------------------- MODULE LocalFiles --------------------------------
(***************************************************************************)
(* The file operations on the user's own disk (internal/localfs), as the   *)
(* handlers of /api/local call them: requests run side by side, each one   *)
(* system call at a time, calls may fail, and the process may end.         *)
(*                                                                         *)
(* A path is a sequence of names; what a file holds is a model value.  The *)
(* disk has two file systems: what lies below a path of Mounts is on the   *)
(* second, and rename does not reach from one to the other.                *)
(***************************************************************************)
EXTENDS Naturals, FiniteSets, SequencesExt

CONSTANTS Requests,
          Wishes,     \* what the requests may ask for: a set of [Requests -> orders]
          Disk,       \* the disk at the start: path -> node
          Mounts,     \* where the second file system begins
          Faults,     \* the system calls that may fail for reasons of their own
          Torn,       \* the data of a file whose writing has begun and not ended
          Sent        \* the data of a file that is uploaded

ASSUME LocalFaultsAssumption == Faults \subseteq {"mkdir", "rename", "read", "write", "remove", "info"}

\* "name (i).ext": a name is a base and the numbers that were put behind it.
Name == [base : STRING, nums : Seq(Nat)]
Path == Seq(Name)
Root == <<>>

Orders == [op : {"copy", "move", "write", "remove", "removeAll", "rename", "mkdir"},
           from : Path, to : Path, policy : {"refuse", "replace", "skip", "rename"},
           after : SUBSET Requests]
ASSUME WishesAssumption == Wishes \subseteq [Requests -> Orders]

Unreadable == "unreadable"   \* the data of a folder
ASSUME DataAssumption == Torn \notin {Sent, Unreadable}

\* The disk is a tree of files, symlinks and folders, none of them half-written.
ASSUME DiskAssumption ==
  /\ IsFiniteSet(DOMAIN Disk) /\ DOMAIN Disk \subseteq Path \ {Root}
  /\ Disk \in [DOMAIN Disk -> [type : {"dir", "link", "file"},
                               data : {Disk[p].data : p \in DOMAIN Disk} \ {Torn}]]
  /\ \A p \in DOMAIN Disk : \A n \in 1..Len(p) - 1 :
       SubSeq(p, 1, n) \in DOMAIN Disk /\ Disk[SubSeq(p, 1, n)].type = "dir"

VARIABLES
  disk,      \* existing paths -> nodes
  order,     \* what each request asks for: [op, from, to, policy, after]
  result,    \* "waiting", "running", then "ok", "error" or "died"
  stack,     \* the calls in progress, a frame for copyFile and for each copyDir
  passed     \* history: the entries a request passed over because Info failed

localVars == <<disk, order, result, stack, passed>>

Folder     == [type |-> "dir", data |-> Unreadable]
Link(data) == [type |-> "link", data |-> data]   \* with the data of its target
File(data) == [type |-> "file", data |-> data]

Exists(p) == p \in DOMAIN disk \cup {Root}
TypeOf(p) == IF p = Root THEN "dir" ELSE IF Exists(p) THEN disk[p].type ELSE "none"
IsDir(p) == TypeOf(p) = "dir"
Below(p) == {q \in DOMAIN disk : IsPrefix(p, q)}
Children(p) == {q \in Below(p) : Len(q) = Len(p) + 1}
CrossDevice(p, q) == \E m \in Mounts : IsPrefix(m, p) # IsPrefix(m, q)

Numbered(p, i) == Append(Front(p), [Last(p) EXCEPT !.nums = Append(@, i)])
UniqueLocalDest(p) ==
  Numbered(p, CHOOSE i \in 1..Cardinality(DOMAIN disk) + 1 :
                /\ ~ Exists(Numbered(p, i))
                /\ \A k \in 1..i - 1 : Exists(Numbered(p, k)))

LocalInit ==
  /\ disk = Disk
  /\ order \in Wishes
  /\ result = [r \in Requests |-> "waiting"]
  /\ stack = [r \in Requests |-> <<>>]
  /\ passed = [r \in Requests |-> {}]

--------------------------------------------------------------------------
(* The system calls *)

MayFail(call) == call \in Faults
CanCreate(p) == IsDir(Front(p)) /\ ~ IsDir(p)
CanMkdir(p) == IsDir(Front(p)) /\ ~ Exists(p)
CanRemove(p) == Exists(p) /\ Children(p) = {}
CanRename(p, to) == Exists(p) /\ ~ CrossDevice(p, to) /\ IsDir(Front(to)) /\ ~ IsPrefix(p, to)
                      /\ (Exists(to) => IsDir(p) = IsDir(to) /\ Children(to) = {})

Put(p, node) == disk' = [q \in DOMAIN disk \cup {p} |-> IF q = p THEN node ELSE disk[q]]
\* A symlink is written through.
WriteTo(p, data) == Put(p, IF TypeOf(p) = "link" THEN Link(data) ELSE File(data))
Delete(ps) == disk' = [q \in DOMAIN disk \ ps |-> disk[q]]

Under(to, p, q) == to \o SubSeq(q, Len(p) + 1, Len(q))
\* rename(2) takes everything below along.
Relocate(p, to) ==
  LET new == {Under(to, p, q) : q \in Below(p)}
  IN  disk' = [q \in (DOMAIN disk \ Below(p)) \cup new |->
                 IF q \in new THEN disk[Under(p, to, q)] ELSE disk[q]]

--------------------------------------------------------------------------
(* The calls in progress *)

Top(r) == Last(stack[r])
At(r, step) == result[r] = "running" /\ Top(r).at = step
Frame(step, from, to) == [at |-> step, from |-> from, to |-> to, todo |-> {}, data |-> Torn]
Become(r, frame) == /\ stack' = [stack EXCEPT ![r] = Append(Front(@), frame)]
                    /\ UNCHANGED <<order, result>>
Goto(r, step) == Become(r, [Top(r) EXCEPT !.at = step])
Moving(r) == order[r].op = "move"
Policy(r) == order[r].policy

\* nil: on with the folder the call was made for, or done.
Return(r) ==
  /\ stack' = [stack EXCEPT ![r] = Front(@)]
  /\ result' = [result EXCEPT ![r] = IF Len(stack[r]) = 1 THEN "ok" ELSE @]
  /\ UNCHANGED order

\* A plausible bug: a folder goes on with its next entry after an error.
FailQuietly(r) ==
  /\ stack' = [stack EXCEPT ![r] = Front(@)]
  /\ result' = [result EXCEPT ![r] = IF Len(stack[r]) = 1 THEN "error" ELSE @]
  /\ UNCHANGED order

\* An error goes up through every open folder to the handler.
Fail(r) ==
  /\ stack' = [stack EXCEPT ![r] = <<>>]
  /\ result' = [result EXCEPT ![r] = "error"]
  /\ UNCHANGED order

--------------------------------------------------------------------------
(* The requests *)

Begins(r, ops) ==
  /\ result[r] = "waiting" /\ order[r].op \in ops
  /\ \A a \in order[r].after : result[a] \in {"ok", "error"}
Enter(r, frame) ==
  /\ stack' = [stack EXCEPT ![r] = <<frame>>]
  /\ result' = [result EXCEPT ![r] = "running"]
  /\ UNCHANGED <<disk, order>>
Refuse(r) == Fail(r) /\ UNCHANGED disk
Done(r) == /\ result' = [result EXCEPT ![r] = "ok"]
           /\ UNCHANGED <<order, stack>>

Copy(r) ==
  LET o == order[r]
      allowed == ~ IsPrefix(o.from, o.to) /\ IsDir(Front(o.to)) /\ Exists(o.from)
  IN  /\ Begins(r, {"copy", "move"})
      /\ \/ ~ allowed /\ Refuse(r)
         \/ allowed /\ Enter(r, Frame(IF IsDir(o.from) THEN "dir" ELSE "file", o.from, o.to))

\* The upload: os.Create, then the body of the request.
Write(r) ==
  /\ Begins(r, {"write"})
  /\ Enter(r, [Frame("create", order[r].to, order[r].to) EXCEPT !.data = Sent])

\* Remove, Rename and Mkdir are one call each, with no look at what is there.
Simple(r) ==
  LET o == order[r] IN
  /\ Begins(r, {"remove", "removeAll", "rename", "mkdir"})
  /\ \/ o.op = "remove" /\ CanRemove(o.from) /\ Delete({o.from}) /\ Done(r)
     \/ o.op = "removeAll" /\ Delete(Below(o.from)) /\ Done(r)
     \/ o.op = "rename" /\ CanRename(o.from, o.to) /\ Relocate(o.from, o.to) /\ Done(r)
     \/ o.op = "mkdir" /\ CanMkdir(o.to) /\ Put(o.to, Folder) /\ Done(r)
     \/ Refuse(r)

Die ==
  /\ \E r \in Requests : result[r] = "running"
  /\ result' = [r \in Requests |-> IF result[r] \in {"ok", "error"} THEN result[r] ELSE "died"]
  /\ stack' = [r \in Requests |-> <<>>]
  /\ UNCHANGED <<disk, order>>

--------------------------------------------------------------------------
(* copyFile *)

\* A plausible bug: only a folder in the way is looked for.
CopyFileOver(r) ==
  /\ At(r, "file")
  /\ IF IsDir(Top(r).to) THEN Fail(r) ELSE Goto(r, "place")
  /\ UNCHANGED disk

CopyFile(r) ==
  LET to == Top(r).to IN
  /\ At(r, "file")
  /\ \/ ~ Exists(to) /\ Goto(r, "place")
     \/ Exists(to) /\ Policy(r) = "skip" /\ Return(r)
     \/ Exists(to) /\ Policy(r) = "refuse" /\ Fail(r)
     \/ IsDir(to) /\ Policy(r) \in {"replace", "rename"} /\ Fail(r)
     \/ Exists(to) /\ ~ IsDir(to) /\ Policy(r) = "replace" /\ Goto(r, "place")
     \/ Exists(to) /\ ~ IsDir(to) /\ Policy(r) = "rename"
          /\ Become(r, [Top(r) EXCEPT !.to = UniqueLocalDest(to), !.at = "place"])
  /\ UNCHANGED disk

\* A move is one rename; only "cross-device" sends it on to streamFile.
MoveFile(r) ==
  LET f == Top(r) IN
  /\ At(r, "place") /\ Moving(r) /\ ~ CrossDevice(f.from, f.to)
  /\ \/ CanRename(f.from, f.to) /\ Relocate(f.from, f.to) /\ Return(r)
     \/ (~ CanRename(f.from, f.to) \/ MayFail("rename")) /\ Refuse(r)

OpenSource(r) ==
  LET f == Top(r) IN
  /\ At(r, "place") /\ (Moving(r) => CrossDevice(f.from, f.to))
  /\ \/ Exists(f.from) /\ Become(r, [f EXCEPT !.at = "create", !.data = disk[f.from].data])
     \/ (~ Exists(f.from) \/ MayFail("read")) /\ Fail(r)
  /\ UNCHANGED disk

\* os.Create empties what is there.
Create(r) ==
  LET f == Top(r) IN
  /\ At(r, "create")
  /\ \/ CanCreate(f.to) /\ WriteTo(f.to, Torn) /\ Goto(r, "stream")
     \/ (~ CanCreate(f.to) \/ MayFail("write")) /\ Refuse(r)

\* The rest of it: a move between file systems still has its source to remove.
\* What was removed meanwhile stays removed; a folder cannot be read.
Filled(r) ==
  /\ Top(r).data # Unreadable
  /\ IF TypeOf(Top(r).to) \in {"file", "link"}
     THEN WriteTo(Top(r).to, Top(r).data) ELSE UNCHANGED disk
  /\ IF Moving(r) THEN Goto(r, "unlink") ELSE Return(r)

\* A plausible bug: what was written stays when the copy breaks off.
StreamLeaves(r) ==
  /\ At(r, "stream")
  /\ \/ Filled(r)
     \/ MayFail("write") /\ Refuse(r)

\* Whatever is at the destination when the copy breaks off is removed, if it can be.
Stream(r) ==
  /\ At(r, "stream")
  /\ \/ Filled(r)
     \/ /\ MayFail("write") \/ Top(r).data = Unreadable
        /\ IF CanRemove(Top(r).to) THEN Delete({Top(r).to}) ELSE UNCHANGED disk
        /\ Fail(r)

Unlink(r) ==
  LET from == Top(r).from IN
  /\ At(r, "unlink")
  /\ \/ CanRemove(from) /\ Delete({from}) /\ Return(r)
     \/ (~ CanRemove(from) \/ MayFail("remove")) /\ Refuse(r)

--------------------------------------------------------------------------
(* copyDir *)

\* A file in the way of a folder; a folder there is merged into.
CopyDir(r) ==
  LET to == Top(r).to IN
  /\ At(r, "dir")
  /\ \/ IsDir(to) /\ Goto(r, "list")
     \/ ~ Exists(to) /\ Goto(r, "mkdir")
     \/ Exists(to) /\ ~ IsDir(to) /\ Policy(r) = "skip" /\ Return(r)
     \/ Exists(to) /\ ~ IsDir(to) /\ Policy(r) = "rename"
          /\ Become(r, [Top(r) EXCEPT !.to = UniqueLocalDest(to), !.at = "mkdir"])
     \/ Exists(to) /\ ~ IsDir(to) /\ Policy(r) \in {"refuse", "replace"} /\ Fail(r)
  /\ UNCHANGED disk

MakeDir(r) ==
  /\ At(r, "mkdir")
  /\ \/ CanMkdir(Top(r).to) /\ Put(Top(r).to, Folder) /\ Goto(r, "list")
     \/ (~ CanMkdir(Top(r).to) \/ MayFail("mkdir")) /\ Refuse(r)

ReadDir(r) ==
  LET f == Top(r) IN
  /\ At(r, "list")
  /\ \/ IsDir(f.from) /\ Become(r, [f EXCEPT !.at = "entries", !.todo = Children(f.from)])
     \/ (~ IsDir(f.from) \/ MayFail("read")) /\ Fail(r)
  /\ UNCHANGED disk

\* An entry that is gone by now, and a symlink, is passed over; and so is one whose
\* Info fails for another reason, though it is still there.
Entry(r) ==
  LET f == Top(r) IN
  /\ At(r, "entries")
  /\ \E child \in f.todo :
       LET rest == [f EXCEPT !.todo = @ \ {child}]
           to == Under(f.to, f.from, child)
           call(step) == /\ stack' = [stack EXCEPT ![r] = Append(Append(Front(@), rest),
                                                                 Frame(step, child, to))]
                         /\ UNCHANGED <<order, result, passed>>
       IN  \/ TypeOf(child) \in {"none", "link"} /\ Become(r, rest) /\ UNCHANGED passed
           \/ /\ TypeOf(child) \in {"dir", "file"} /\ MayFail("info") /\ Become(r, rest)
              /\ passed' = [passed EXCEPT ![r] = @ \cup {child}]
           \/ TypeOf(child) = "dir" /\ call("dir")
           \/ TypeOf(child) = "file" /\ call("file")
  /\ UNCHANGED disk

\* RemoveAll: taken as one call.
EndDir(r) ==
  /\ At(r, "entries") /\ Top(r).todo = {}
  /\ \/ ~ Moving(r) /\ Return(r) /\ UNCHANGED disk
     \/ Moving(r) /\ Delete(Below(Top(r).from)) /\ Return(r)
     \/ Moving(r) /\ MayFail("remove") /\ Refuse(r)

--------------------------------------------------------------------------
LocalNext ==
  \/ /\ \E r \in Requests :
          \/ Copy(r) \/ Write(r) \/ Simple(r)
          \/ CopyFile(r) \/ MoveFile(r) \/ OpenSource(r) \/ Create(r) \/ Stream(r) \/ Unlink(r)
          \/ CopyDir(r) \/ MakeDir(r) \/ ReadDir(r) \/ EndDir(r)
     /\ UNCHANGED passed
  \/ \E r \in Requests : Entry(r)
  \/ Die /\ UNCHANGED passed

LocalSpec == LocalInit /\ [][LocalNext]_localVars

(* Everything that exists lies in a folder, and exactly the running requests *)
(* have calls in progress.                                                  *)
LocalTypeOK ==
  /\ \A p \in DOMAIN disk : p # Root /\ IsDir(Front(p))
  /\ order \in Wishes
  /\ result \in [Requests -> {"waiting", "running", "ok", "error", "died"}]
  /\ \A r \in Requests : (result[r] = "running") = (stack[r] # <<>>)
  /\ passed \in [Requests -> SUBSET Path]

--------------------------------------------------------------------------
(* Properties *)

\* Writing through a symlink fills its target.
DataOn(d, types) == {d[p].data : p \in {q \in DOMAIN d : d[q].type \in types}}

\* What some request was told to remove or to put something else in place of.
GivenUp(r) ==
  LET o == order[r]
      below(p) == {q \in DOMAIN Disk : IsPrefix(p, q)}
  IN  CASE o.op \in {"remove", "removeAll"} -> below(o.from)
        [] o.op \in {"write", "rename"} -> below(o.to)
        [] o.op \in {"copy", "move"} /\ o.policy = "replace" -> below(o.to)
        [] OTHER -> {}

\* What a request passed over because Info failed, and what moves passed over: a move
\* removes it with the folder.
PassedOver(r) == {p \in DOMAIN Disk : \E q \in passed[r] : IsPrefix(q, p)}
LeftBehind == UNION {PassedOver(r) : r \in {m \in Requests : Moving(m)}}

(* Whatever calls fail, and wherever the process ends, no data is lost that *)
(* no request was told to remove or replace: a move has the whole copy      *)
(* before it removes the source, and gives up before it removes a folder    *)
(* some entry of which it could not move.  Excepted is only what lies at or *)
(* below an entry whose Info failed, which a move removes unmoved.          *)
NothingLost ==
  LET owed == DOMAIN Disk \ (LeftBehind \cup UNION {GivenUp(r) : r \in Requests})
  IN  DataOn([p \in owed |-> Disk[p]], {"file"}) \subseteq DataOn(disk, {"file", "link"})

(* What was at a destination before stays there, unless the request said   *)
(* "replace".                                                              *)
NothingOverwritten ==
  \A p \in DOMAIN Disk :
    (\A r \in Requests : /\ p \notin GivenUp(r)
                         /\ order[r].op \in {"move", "rename"} => ~ IsPrefix(order[r].from, p))
      => Exists(p) /\ disk[p] = Disk[p]

(* An answer, good or bad, leaves no half-written file behind: a request    *)
(* that fails removes what it began, one that ends well has filled it.      *)
NoTornFile ==
  (\A r \in Requests : result[r] \in {"waiting", "ok", "error"}) => Torn \notin DataOn(disk, {"file", "link"})

SameBases(p, q) == Len(p) = Len(q) /\ \A i \in 1..Len(p) : p[i].base = q[i].base
Undisturbed(r) ==
  \A o \in Requests \ {r} :
    \/ result[o] = "waiting" \/ o \in order[r].after
    \/ order[o].op = "copy" /\ order[o].to # order[r].to

(* A copy or move that answers "ok" has put every file below its source at *)
(* the place below its destination, or at the numbered one beside it, with *)
(* its data; under "skip", it may have found something in the way.  The    *)
(* answer is "ok" also over entries whose Info failed: what lies there is  *)
(* excepted, and what a move before it lost in that way.                   *)
OkMeansCopied ==
  \A r \in Requests :
    result[r] = "ok" /\ order[r].op \in {"copy", "move"} /\ Undisturbed(r) =>
      \A p \in DOMAIN Disk \ (PassedOver(r) \cup LeftBehind) :
        IsPrefix(order[r].from, p) /\ Disk[p].type = "file" =>
          LET place == Under(order[r].to, order[r].from, p) IN
          \/ \E q \in DOMAIN disk : SameBases(q, place) /\ disk[q].data = Disk[p].data
          \/ Policy(r) = "skip" /\ \E q \in DOMAIN disk :
               IsPrefix(order[r].to, q) /\ IsPrefix(q, place) /\ (q = place \/ ~ IsDir(q))
=================================================================================
