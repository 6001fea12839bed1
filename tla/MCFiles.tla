--------------------------------- MODULE MCFiles ---------------------------------
(***************************************************************************)
(* Small instances of what the program does on the local disk.  Downloads  *)
(* of the command line and requests to the engine share no file, and a     *)
(* behaviour is about one of the two.  The disk holds a folder s           *)
(* with a file a, a symlink l and a folder d that holds a file b; a folder *)
(* t with a file a, a symlink l and a folder n; and u, where another file  *)
(* system begins.                                                          *)
(***************************************************************************)
EXTENDS LocalFiles, PartFile, TLC

CONSTANTS r1, r2, n1, contentA, contentB, contentL, oldA

N(base) == [base |-> base, nums |-> <<>>]
In(p, base) == Append(p, N(base))
S == <<N("s")>>
T == <<N("t")>>
U == <<N("u")>>
TestDisk == (S :> Folder) @@ (In(S, "a") :> File(contentA)) @@ (In(S, "l") :> Link(contentL))
         @@ (In(S, "d") :> Folder) @@ (In(In(S, "d"), "b") :> File(contentB))
         @@ (T :> Folder) @@ (In(T, "a") :> File(oldA)) @@ (In(T, "l") :> Link(contentL))
         @@ (In(T, "n") :> Folder) @@ (U :> Folder)
SecondDisk == {U}

Order(op, from, to, policy, after) ==
  [op |-> op, from |-> from, to |-> to, policy |-> policy, after |-> after]
AllPolicies == {"refuse", "replace", "skip", "rename"}

\* Files and folders onto files, folders and free names, on either file system.
\* A move that skips removes what it skipped: the runs leave it out.
Copies(after) ==
  {o \in [op : {"copy", "move"}, from : {S, In(S, "a"), In(S, "l")},
          to : {In(T, "a"), In(T, "l"), In(T, "n"), In(T, "x"), In(U, "x"), In(S, "x")},
          policy : AllPolicies, after : {after}] : o.op = "move" => o.policy # "skip"}

\* The same again once the first has been answered.
Again == {(r1 :> o) @@ (r2 :> [o EXCEPT !.after = {r1}]) : o \in Copies({})}
\* Beside a request that uses the same source, and writes elsewhere.
Others == {Order("copy", In(S, "d"), In(T, "y"), "refuse", {}), Order("move", S, In(U, "y"), "rename", {}),
           Order("remove", In(S, "a"), T, "refuse", {}), Order("removeAll", In(S, "d"), T, "refuse", {}),
           Order("rename", In(S, "a"), In(T, "y"), "refuse", {}), Order("mkdir", S, In(T, "y"), "refuse", {}),
           Order("write", S, In(T, "y"), "refuse", {}), Order("write", S, In(S, "d"), "refuse", {})}
\* What is written into a folder while it is moved may be torn, or removed with it.
Apart(o, x) == ~ (x.op = "move" /\ IsPrefix(x.from, o.to))
Beside == {(r1 :> ox[1]) @@ (r2 :> ox[2]) :
             ox \in {p \in Copies({}) \X Others : Apart(p[1], p[2])}}
TestWishes == Again \cup Beside

VARIABLE subject   \* which of the two the behaviour is about

files == <<localVars, partVars, subject>>

FilesInit ==
  /\ LocalInit /\ PartInit /\ subject \in {"requests", "downloads"}
  /\ subject = "requests" => sameDisk /\ target = [d \in Downloads |-> n1]
                               /\ final = [n \in Names |-> Absent]
  /\ subject = "downloads" => order = CHOOSE wish \in TestWishes : TRUE
FilesNext ==
  \/ subject = "requests" /\ LocalNext /\ UNCHANGED <<partVars, subject>>
  \/ subject = "downloads" /\ PartNext /\ UNCHANGED <<localVars, subject>>
FilesSpec == FilesInit /\ [][FilesNext]_files
=================================================================================
