---------------------------- MODULE CopyMoveProofs ----------------------------
(***************************************************************************)
(* Proofs about CopyMove for every tree, whatever plans and jobs there are *)
(* and whichever calls fail: what a walk may do to the remote file system.  *)
(*                                                                         *)
(* The walk keeps to its source (Stacked): each open call of copyOne works *)
(* on an entry within it, and only the innermost is anywhere but between   *)
(* two entries.  So what a job removes is its source; and where Stat is    *)
(* believed and no other job runs, the target it has chosen is still free  *)
(* when it writes (TargetFree).  Then a job that stays apart from its       *)
(* source loses none of its files (KeepIInv), and has each of them landed  *)
(* or still to do (Covered).                                               *)
(*                                                                         *)
(* A search beside such jobs lists each folder once, and what is in view   *)
(* from its beginning on is found or below a folder it has still to list   *)
(* (SearchIInv).                                                           *)
(***************************************************************************)
EXTENDS Search, SequenceTheorems, FiniteSetTheorems, TLAPS

\* A path, or a stack: a sequence of whatever it holds.
IsSeq(s) == s \in Seq(ToSet(s))

\* Before the target is chosen, and while a file goes to it.
Early == {"enter", "probe", "probeDir", "resolve", "unique"}
Late  == {"download", "upload"}

\* A call of copyOne in a job that walks source.
Fields(f) == [at |-> f.at, from |-> f.from, to |-> f.to, target |-> f.target,
              dir |-> f.dir, num |-> f.num, todo |-> f.todo, data |-> f.data]
Framed(source, f) ==
  /\ f = Fields(f)
  /\ f.at \in Steps
  /\ IsSeq(f.from) /\ IsSeq(f.to) /\ IsSeq(f.target)
  /\ Within(source, f.from)
  /\ \A p \in f.todo : IsSeq(p) /\ Within(source, p)
  /\ f.at \in Early => f.target = f.to

\* Calls that wait for the one above them.
Opened(source, s) ==
  IsSeq(s) /\ \A d \in DOMAIN s : Framed(source, s[d]) /\ s[d].at = "children"

\* The calls of a job that walks source.
Walk(source, s) ==
  s # <<>> => IsSeq(s) /\ Opened(source, Front(s)) /\ Framed(source, Last(s))
Stacked(j) == Walk(plan[j].from, stack[j])

\* The inductive invariant of every walk.
WalkIInv ==
  /\ TypeOK
  /\ stack = [j \in Jobs |-> stack[j]]
  /\ \A p \in DOMAIN fs : IsSeq(p)
  /\ \A j \in Jobs : Stacked(j)

\* Unless existing files are replaced, a file goes where nothing is.
TargetFree(j) ==
  (stack[j] # <<>> /\ plan[j].policy # "replace" /\ Top(j).at \in Late)
    => Top(j).target \notin DOMAIN fs

------------------------------------------------------------------------------
(* Paths and stacks as sequences                                           *)

LEMMA AnySet ==
  ASSUME NEW A, NEW s \in Seq(A)
  PROVE  IsSeq(s)
<1>1. /\ Len(s) \in Nat /\ DOMAIN s = 1 .. Len(s)
      /\ \A i \in 1 .. Len(s) : s[i] \in ToSet(s)
  BY LenProperties DEF ToSet
<1>2. s = [i \in 1 .. Len(s) |-> s[i]]
  BY <1>1, LenProperties
<1> QED
  BY <1>1, <1>2 DEF IsSeq

LEMMA EmptyIsSeq == IsSeq(<<>>)
BY AnySet, EmptySeq

LEMMA Appended ==
  ASSUME NEW s, IsSeq(s), NEW x
  PROVE  /\ IsSeq(Append(s, x)) /\ Append(s, x) # <<>>
         /\ Len(Append(s, x)) = Len(s) + 1
         /\ Front(Append(s, x)) = s /\ Last(Append(s, x)) = x
         /\ DOMAIN Append(s, x) = 1 .. Len(s) + 1 /\ Append(s, x)[Len(s) + 1] = x
         /\ \A i \in 1 .. Len(s) : Append(s, x)[i] = s[i]
<1> DEFINE A == ToSet(s) \cup {x}
           t == Append(s, x)
<1>1. s \in Seq(A)
  BY SeqMonotonic DEF IsSeq
<1>2. /\ t \in Seq(A) /\ Len(t) = Len(s) + 1
      /\ \A i \in 1 .. Len(s) : t[i] = s[i]
      /\ t[Len(s) + 1] = x /\ Len(s) \in Nat /\ DOMAIN t = 1 .. Len(s) + 1
  BY <1>1, AppendProperties, LenProperties
<1>3. Front(t) = s
  <2>1. \A i \in 1 .. Len(s) : t[i] \in A
    BY <1>1, <1>2, ElementOfSeq
  <2>2. /\ SubSeq(t, 1, Len(s)) \in Seq(A)
        /\ Len(SubSeq(t, 1, Len(s))) = Len(s)
        /\ \A i \in 1 .. Len(s) : SubSeq(t, 1, Len(s))[i] = t[i]
    <3> HIDE DEF A, t
    <3> QED
      BY <1>2, <2>1, SubSeqProperties
  <2>3. SubSeq(t, 1, Len(s)) = s
    BY <1>1, <1>2, <2>2, SeqEqual
  <2> QED
    BY <1>2, <2>3 DEF Front
<1>4. IsSeq(t)
  BY <1>2, AnySet
<1> QED
  BY <1>2, <1>3, <1>4 DEF Last

LEMMA Shortened ==
  ASSUME NEW s, IsSeq(s)
  PROVE  /\ IsSeq(Front(s))
         /\ s # <<>> => s = Append(Front(s), Last(s)) /\ Len(s) = Len(Front(s)) + 1
         /\ Len(s) \in Nat /\ DOMAIN s = 1 .. Len(s)
<1> DEFINE A == ToSet(s)
           n == Len(s)
<1>1. /\ s \in Seq(A) /\ Len(s) = n /\ n \in Nat /\ DOMAIN s = 1 .. n
      /\ \A i \in 1 .. n : s[i] \in A
  BY LenProperties, ElementOfSeq DEF IsSeq
<1> HIDE DEF A, n
<1>2. CASE s = <<>>
  <2>1. n = 0
    BY <1>1, <1>2, EmptySeq
  <2>2. Front(s) = <<>>
    BY <1>1, <2>1, SubSeqEmpty DEF Front
  <2> QED
    BY <1>1, <1>2, <2>2, EmptyIsSeq
<1>3. CASE s # <<>>
  <2>1. n - 1 \in Nat
    <3>1. n \in Nat \ {0}
      BY <1>1, <1>3, EmptySeq
    <3> QED
      BY <3>1
  <2>2. PICK m \in Nat : n = m + 1
    BY <1>1, <2>1
  <2>3. /\ Front(s) \in Seq(A)
        /\ Len(Front(s)) = m
        /\ \A i \in 1 .. m : Front(s)[i] = s[i]
    <3>1. \A i \in 1 .. m : s[i] \in A
      BY <1>1, <2>2
    <3>2. /\ SubSeq(s, 1, m) \in Seq(A)
          /\ Len(SubSeq(s, 1, m)) = m
          /\ \A i \in 1 .. m : SubSeq(s, 1, m)[i] = s[i]
      BY <2>2, <3>1, SubSeqProperties
    <3>3. Front(s) = SubSeq(s, 1, m)
      BY <1>1, <2>2 DEF Front
    <3> QED
      BY <3>2, <3>3
  <2>4. Last(s) = s[m + 1] /\ Last(s) \in A
    BY <1>1, <2>2 DEF Last
  <2> DEFINE t == Append(Front(s), Last(s))
  <2>5. /\ t \in Seq(A) /\ Len(t) = m + 1
        /\ \A i \in 1 .. m : t[i] = s[i]
        /\ t[m + 1] = s[m + 1]
    BY <2>3, <2>4, AppendProperties
  <2> HIDE DEF t
  <2>6. \A i \in 1 .. m + 1 : t[i] = s[i]
    <3> TAKE i \in 1 .. m + 1
    <3>1. i = m + 1 \/ i \in 1 .. m
      BY <2>2
    <3> QED
      BY <2>5, <3>1
  <2>7. s = t
    BY <1>1, <2>2, <2>5, <2>6, SeqEqual
  <2> QED
    BY <1>1, <1>3, <2>2, <2>3, <2>7, AnySet DEF t, n
<1> QED
  BY <1>2, <1>3

\* A path is within another when it begins with its names.
LEMMA WithinMeans ==
  ASSUME NEW s, IsSeq(s), NEW t, IsSeq(t)
  PROVE  Within(s, t) <=> Len(s) <= Len(t) /\ \A i \in 1 .. Len(s) : s[i] = t[i]
<1> DEFINE A == ToSet(s) \cup ToSet(t)
<1>1. /\ s \in Seq(A) /\ t \in Seq(A)
      /\ Len(s) \in Nat /\ Len(t) \in Nat
  BY SeqMonotonic, LenProperties DEF IsSeq
<1> HIDE DEF A
<1>2. ASSUME Len(s) <= Len(t)
      PROVE  SubSeq(s, 1, Len(s)) = SubSeq(t, 1, Len(s))
               <=> \A i \in 1 .. Len(s) : s[i] = t[i]
  <2>1. SubSeq(s, 1, Len(s)) = s
    BY <1>1, SubSeqFull
  <2>2. \A i \in 1 .. Len(s) : t[i] \in A
    BY <1>1, <1>2, ElementOfSeq
  <2>3. /\ SubSeq(t, 1, Len(s)) \in Seq(A)
        /\ Len(SubSeq(t, 1, Len(s))) = Len(s)
        /\ \A i \in 1 .. Len(s) : SubSeq(t, 1, Len(s))[i] = t[i]
    BY <1>1, <2>2, SubSeqProperties
  <2>4. s = SubSeq(t, 1, Len(s)) <=> \A i \in 1 .. Len(s) : s[i] = t[i]
    BY <1>1, <2>3, SeqEqual
  <2> QED
    BY <2>1, <2>4
<1> QED
  BY <1>2 DEF Within, IsPrefix

LEMMA WithinItself ==
  ASSUME NEW s, IsSeq(s)
  PROVE  Within(s, s)
BY WithinMeans, Shortened

LEMMA WithinWithin ==
  ASSUME NEW s, IsSeq(s), NEW t, IsSeq(t), NEW u, IsSeq(u),
         Within(s, t), Within(t, u)
  PROVE  Within(s, u)
<1>1. Len(s) \in Nat /\ Len(t) \in Nat /\ Len(u) \in Nat
  BY Shortened
<1>2. Len(s) <= Len(t) /\ \A i \in 1 .. Len(s) : s[i] = t[i]
  BY WithinMeans
<1>3. Len(t) <= Len(u) /\ \A i \in 1 .. Len(t) : t[i] = u[i]
  BY WithinMeans
<1>4. Len(s) <= Len(u) /\ \A i \in 1 .. Len(s) : s[i] = u[i]
  BY <1>1, <1>2, <1>3
<1> QED
  BY <1>4, WithinMeans

------------------------------------------------------------------------------
(* What a step does                                                        *)

\* A job that believes its Stat calls and replaces nothing.
Careful(j) == plan[j].policy # "replace" /\ "stat" \notin Faults[plan[j]]

\* A call may go on as f: within the source, and to a target nothing is at, or
\* the one it had.
Fits(j, f) ==
  /\ Framed(plan[j].from, f)
  /\ f.at \in Late => /\ UNCHANGED fs
                      /\ Careful(j) => \/ f.target \notin DOMAIN fs
                                       \/ Top(j).at \in Late /\ f.target = Top(j).target

\* What becomes of the calls of a job: the walk ends, a call returns, goes on
\* or begins another one.
Walks(j) ==
  \/ stack' = [stack EXCEPT ![j] = <<>>]
  \/ Pop(j)
  \/ \E f : Fits(j, f) /\ Become(j, f)
  \/ \E f, g : /\ Framed(plan[j].from, f) /\ f.at = "children"
               /\ Framed(plan[j].from, g) /\ g.at = "enter"
               /\ stack' = [stack EXCEPT ![j] = Front(@) \o <<f, g>>]

\* What becomes of the remote tree: a file goes to its target, a folder is
\* made, part of the source is removed.
Touches(j) ==
  \/ UNCHANGED fs
  \/ /\ Top(j).at = "upload" /\ CanWrite(Top(j).target)
     /\ \E d : Put(Top(j).target, File(d))
  \/ CanMkdir(Top(j).target) /\ Put(Top(j).target, Folder)
  \/ \E gone : (\A p \in gone : Within(plan[j].from, p)) /\ Delete(gone)

\* What becomes of the rest.
Records(j) ==
  /\ outcome' \in [Jobs -> {"idle", "running", "completed", "failed", "canceled"}]
  /\ \A k \in Jobs : outcome'[k] # "running" => k = j \/ outcome[k] # "running"
  /\ outcome'[j] # "running" => stack'[j] = <<>>
  /\ stats' \in [Jobs -> [items : BOOLEAN, skipped : BOOLEAN, errs : BOOLEAN]]
  /\ UNCHANGED <<plan, canceled, runs>>

LEMMA Opens ==
  ASSUME NEW source, IsSeq(source), NEW from, IsSeq(from), NEW to, IsSeq(to),
         Within(source, from)
  PROVE  Framed(source, Frame(from, to)) /\ Frame(from, to).at = "enter"
BY DEF Framed, Fields, Frame, Steps, Early, Late

LEMMA CallAt ==
  ASSUME WalkIInv, NEW j \in Jobs, stack[j] # <<>>
  PROVE  /\ IsSeq(stack[j]) /\ Opened(plan[j].from, Front(stack[j]))
         /\ Framed(plan[j].from, Top(j)) /\ Last(stack[j]) = Top(j)
         /\ IsSeq(plan[j].from) /\ IsSeq(plan[j].to) /\ plan[j] \in Plans
         /\ \A v : [stack EXCEPT ![j] = v] = [k \in Jobs |-> IF k = j THEN v ELSE stack[k]]
<1>1. plan[j] \in Plans
  BY DEF WalkIInv, TypeOK
<1>2. IsSeq(plan[j].from) /\ IsSeq(plan[j].to)
  BY <1>1, PathsAssumption DEF IsSeq
<1>3. \A v : [stack EXCEPT ![j] = v] = [k \in Jobs |-> IF k = j THEN v ELSE stack[k]]
  <2>1. stack = [k \in Jobs |-> stack[k]]
    BY DEF WalkIInv
  <2> QED
    BY <2>1
<1> QED
  BY <1>1, <1>2, <1>3 DEF WalkIInv, Stacked, Walk, Top

\* A call that goes on may have another target, and fewer or other entries of
\* the source before it.
LEMMA Reframed ==
  ASSUME NEW source, NEW f, Framed(source, f), NEW g,
         g = Fields(g),
         g.from = f.from, g.to = f.to, g.at \in Steps,
         IsSeq(g.target), g.at \in Early => g.target = g.to,
         \A p \in g.todo : IsSeq(p) /\ Within(source, p)
  PROVE  Framed(source, g)
BY DEF Framed

\* A call goes on at another step.
LEMMA Goes ==
  ASSUME WalkIInv, NEW j \in Jobs, stack[j] # <<>>, NEW at \in Steps,
         at \in Early => Top(j).target = Top(j).to,
         at \in Late => /\ UNCHANGED fs
                        /\ Careful(j) => Top(j).target \notin DOMAIN fs,
         Goto(j, at)
  PROVE  Walks(j)
<1> DEFINE f == [Top(j) EXCEPT !.at = at]
<1>1. Framed(plan[j].from, Top(j))
  BY CallAt
<1>2. Framed(plan[j].from, f) /\ f.at = at /\ f.target = Top(j).target
  BY <1>1 DEF Framed, Fields
<1>3. Fits(j, f)
  BY <1>2 DEF Fits
<1>4. Become(j, f)
  BY CallAt DEF Goto, Become, Top
<1> QED
  BY <1>3, <1>4 DEF Walks

LEMMA Counts ==
  ASSUME WalkIInv, NEW j \in Jobs, NEW field \in {"items", "skipped", "errs"},
         Count(j, field)
  PROVE  stats' \in [Jobs -> [items : BOOLEAN, skipped : BOOLEAN, errs : BOOLEAN]]
<1> DEFINE R == [items : BOOLEAN, skipped : BOOLEAN, errs : BOOLEAN]
<1>1. stats \in [Jobs -> R]
  BY DEF WalkIInv, TypeOK
<1>2. [stats[j] EXCEPT ![field] = TRUE] \in R
  <2>1. stats[j] \in R
    BY <1>1
  <2> QED
    BY <2>1, Zenon
<1>3. stats' = [stats EXCEPT ![j] = [stats[j] EXCEPT ![field] = TRUE]]
  BY DEF Count
<1> HIDE DEF R
<1>4. stats' \in [Jobs -> R]
  BY <1>1, <1>2, <1>3
<1> QED
  BY <1>4 DEF R

\* A job that neither ends nor counts.
LEMMA GoesOn ==
  ASSUME WalkIInv, NEW j \in Jobs, outcome[j] = "running",
         UNCHANGED <<plan, outcome, canceled, runs>>,
         stats' \in [Jobs -> [items : BOOLEAN, skipped : BOOLEAN, errs : BOOLEAN]]
  PROVE  Records(j)
BY DEF WalkIInv, TypeOK, Records

LEMMA Ends ==
  ASSUME WalkIInv, NEW j \in Jobs, NEW result \in {"completed", "failed", "canceled"},
         End(j, result), UNCHANGED <<plan, stats, canceled, runs>>
  PROVE  Walks(j) /\ Records(j)
<1>1. stack' = [stack EXCEPT ![j] = <<>>]
  BY DEF End
<1>2. stack'[j] = <<>>
  BY <1>1 DEF WalkIInv
<1>3. /\ outcome \in [Jobs -> {"idle", "running", "completed", "failed", "canceled"}]
      /\ stats \in [Jobs -> [items : BOOLEAN, skipped : BOOLEAN, errs : BOOLEAN]]
  BY DEF WalkIInv, TypeOK
<1>4. outcome' = [outcome EXCEPT ![j] = result]
  BY DEF End
<1> QED
  BY <1>1, <1>2, <1>3, <1>4 DEF Walks, Records

LEMMA GivesUp ==
  ASSUME WalkIInv, NEW j \in Jobs, outcome[j] = "running", GiveUp(j), Same
  PROVE  Walks(j) /\ Records(j)
<1>1. stats' \in [Jobs -> [items : BOOLEAN, skipped : BOOLEAN, errs : BOOLEAN]]
  BY Counts DEF GiveUp, AddErr
<1> QED
  BY <1>1, GoesOn DEF GiveUp, Walks, Same

\* A failed copyFile, and an entry left alone.
LEMMA CopyFails ==
  ASSUME WalkIInv, NEW j \in Jobs, outcome[j] = "running",
         CopyFileFails(j), UNCHANGED <<plan, canceled, runs>>
  PROVE  Walks(j) /\ Records(j)
<1>1. CASE End(j, "canceled") /\ UNCHANGED stats
  BY <1>1, Ends
<1>2. CASE GiveUp(j) /\ UNCHANGED outcome
  <2>1. stats' \in [Jobs -> [items : BOOLEAN, skipped : BOOLEAN, errs : BOOLEAN]]
    BY <1>2, Counts DEF GiveUp, AddErr
  <2> QED
    BY <1>2, <2>1, GoesOn DEF GiveUp, Walks
<1> QED
  BY <1>1, <1>2 DEF CopyFileFails

LEMMA Skips ==
  ASSUME WalkIInv, NEW j \in Jobs, outcome[j] = "running",
         NEW field \in {"items", "skipped", "errs"}, Count(j, field), Pop(j), Same
  PROVE  Walks(j) /\ Records(j)
BY Counts, GoesOn DEF Walks, Same

\* A call that goes on at another step, and one that goes on as f.
LEMMA Proceeds ==
  ASSUME WalkIInv, NEW j \in Jobs, stack[j] # <<>>, outcome[j] = "running",
         NEW at \in Steps, at \in Early => Top(j).target = Top(j).to,
         at \in Late => /\ UNCHANGED fs
                        /\ Careful(j) => Top(j).target \notin DOMAIN fs,
         Goto(j, at), UNCHANGED stats, Same
  PROVE  Walks(j) /\ Records(j)
<1>1. stats' \in [Jobs -> [items : BOOLEAN, skipped : BOOLEAN, errs : BOOLEAN]]
  BY DEF WalkIInv, TypeOK
<1> QED
  BY <1>1, Goes, GoesOn DEF Same

LEMMA Turns ==
  ASSUME WalkIInv, NEW j \in Jobs, outcome[j] = "running",
         NEW f, Fits(j, f), Become(j, f), UNCHANGED stats, Same
  PROVE  Walks(j) /\ Records(j)
<1>1. stats' \in [Jobs -> [items : BOOLEAN, skipped : BOOLEAN, errs : BOOLEAN]]
  BY DEF WalkIInv, TypeOK
<1> QED
  BY <1>1, GoesOn DEF Same, Walks

\* Every step of a job.
LEMMA StepDoes ==
  ASSUME WalkIInv, NEW j \in Jobs, Step(j)
  PROVE  stack[j] # <<>> /\ Walks(j) /\ Touches(j) /\ Records(j)
<1> DEFINE source == plan[j].from
           f == Top(j)
           Good == Walks(j) /\ Touches(j) /\ Records(j)
           Typed == stats' \in [Jobs -> [items : BOOLEAN, skipped : BOOLEAN, errs : BOOLEAN]]
<1>1. stack[j] # <<>> /\ outcome[j] = "running"
  BY DEF Step, Listed, Abort, Enter, EnterFails, ProbeFolder, ProbeOther, ProbeDir, ProbeDirFails,
     ResolveNew, ResolveExisting, UniqueTaken, UniqueFree, Download, DownloadFails, Upload,
     UploadFails, RemoveFile, RemoveFileFails, Mkdir, MkdirFails, ListFolder, ListFails,
     Descend, PassOver, ChildrenDone, RemoveTree, RemoveTreeFails, Finish, At
<1>2. Framed(source, f) /\ IsSeq(source) /\ plan[j] \in Plans
  BY <1>1, CallAt
<1>3. UNCHANGED fs => Touches(j)
  BY DEF Touches
<1>4. stats \in [Jobs -> [items : BOOLEAN, skipped : BOOLEAN, errs : BOOLEAN]]
  BY DEF WalkIInv, TypeOK
<1> HIDE DEF f, source
<1>5. f = Top(j) /\ source = plan[j].from
  BY DEF f, source
<1>6. f = Fields(f)
  BY <1>2 DEF Framed
<1>7. IsSeq(f.target) /\ \A p \in f.todo : IsSeq(p) /\ Within(source, p)
  BY <1>2 DEF Framed
<1>8. CASE Abort(j)
  BY <1>1, <1>3, <1>8, Ends DEF Abort
<1>9. CASE Enter(j)
  <2>1. CASE Pop(j)
    <3>1. stats' = [stats EXCEPT ![j].errs = TRUE, ![j].skipped = TRUE] \/ UNCHANGED stats
      BY <1>9 DEF Enter
    <3>2. Typed
      BY <1>4, <3>1
    <3> QED
      BY <1>1, <1>3, <1>9, <2>1, <3>2, GoesOn DEF Enter, Same, Walks
  <2>2. f.at = "enter" /\ f.target = f.to
    BY <1>2, <1>5, <1>9 DEF Enter, At, Framed, Early
  <2>3. CASE (Goto(j, "probe") \/ Goto(j, "probeDir")) /\ UNCHANGED stats
    BY <1>1, <1>3, <1>5, <1>9, <2>2, <2>3, Proceeds DEF Enter, Steps, Late
  <2> QED
    BY <1>9, <2>1, <2>3 DEF Enter
<1>10. CASE EnterFails(j)
  BY <1>1, <1>3, <1>10, GivesUp DEF EnterFails
<1>11. CASE ProbeFolder(j)
  BY <1>1, <1>3, <1>11, GivesUp, Skips DEF ProbeFolder
<1>12. CASE ProbeOther(j)
  <2>1. f.target = f.to
    BY <1>2, <1>5, <1>12 DEF ProbeOther, At, Framed, Early
  <2> QED
    BY <1>1, <1>3, <1>5, <1>12, <2>1, Proceeds DEF ProbeOther, Steps, Late
<1>13. CASE ProbeDir(j)
  <2>1. f.at = "probeDir" /\ f.target = f.to
    BY <1>2, <1>5, <1>13 DEF ProbeDir, At, Framed, Early
  <2>2. CASE Count(j, "skipped") /\ Pop(j)
    BY <1>1, <1>3, <1>13, <2>2, Skips DEF ProbeDir
  <2>3. CASE GiveUp(j)
    BY <1>1, <1>3, <1>13, <2>3, GivesUp DEF ProbeDir
  <2>4. CASE Become(j, [f EXCEPT !.at = "unique", !.dir = TRUE]) /\ UNCHANGED stats
    <3>1. Fits(j, [f EXCEPT !.at = "unique", !.dir = TRUE])
      <4>1. PICK g : g = [f EXCEPT !.at = "unique", !.dir = TRUE]
        OBVIOUS
      <4>2. /\ g = Fields(g)
            /\ g.at = "unique" /\ g.from = f.from /\ g.to = f.to
            /\ g.target = f.target /\ g.todo = f.todo
        BY <1>6, <4>1 DEF Fields
      <4>3. Framed(source, g)
        BY <2>1, <1>2, <4>2, <1>7, Reframed DEF Steps, Early
      <4>4. Fits(j, g)
        BY <1>5, <2>1, <4>2, <4>3 DEF Fits, Late
      <4> QED
        BY <4>1, <4>4
    <3> QED
      BY <1>1, <1>3, <1>13, <2>4, <3>1, Turns DEF ProbeDir
  <2>5. CASE Goto(j, "list") /\ UNCHANGED stats
    BY <1>1, <1>3, <1>13, <2>5, Proceeds DEF ProbeDir, Steps, Early, Late
  <2> QED
    BY <1>5, <1>13, <2>2, <2>3, <2>4, <2>5 DEF ProbeDir
<1>14. CASE ProbeDirFails(j)
  <2>1. f.target = f.to
    BY <1>2, <1>5, <1>14 DEF ProbeDirFails, At, Framed, Early
  <2>2. Fits(j, [f EXCEPT !.at = "resolve", !.dir = TRUE])
    <3>1. PICK g : g = [f EXCEPT !.at = "resolve", !.dir = TRUE]
      OBVIOUS
    <3>2. /\ g = Fields(g)
          /\ g.at = "resolve" /\ g.from = f.from /\ g.to = f.to
          /\ g.target = f.target /\ g.todo = f.todo
      BY <1>6, <3>1 DEF Fields
    <3>3. Framed(source, g)
      BY <2>1, <1>2, <3>2, <1>7, Reframed DEF Steps, Early
    <3>4. Fits(j, g)
      BY <1>5, <2>1, <3>2, <3>3 DEF Fits, Late
    <3> QED
      BY <3>1, <3>4
  <2> QED
    BY <1>1, <1>3, <1>5, <1>14, <2>2, Turns DEF ProbeDirFails
<1>15. CASE ResolveNew(j)
  <2>1. PICK g : g = [f EXCEPT !.at = Transfer(j), !.target = f.target]
    OBVIOUS
  <2>2. f.target = f.to /\ Transfer(j) \in {"mkdir", "download"}
    BY <1>2, <1>5, <1>15 DEF ResolveNew, At, Framed, Early, Transfer
  <2>3. /\ g = Fields(g)
        /\ g.at = Transfer(j) /\ g.from = f.from /\ g.to = f.to
        /\ g.target = f.to /\ g.todo = f.todo
    BY <1>6, <2>1, <2>2 DEF Fields
  <2>4. Careful(j) => f.to \notin DOMAIN fs
    BY <1>5, <1>15 DEF Careful, ResolveNew, StatFails, MayFail, Exists
  <2>5. Become(j, g)
    BY <1>5, <1>15, <2>1 DEF ResolveNew
  <2>6. Framed(source, g)
    BY <1>2, <1>7, <2>2, <2>3, Reframed DEF Steps
  <2>7. Fits(j, g)
    BY <1>5, <1>15, <2>3, <2>4, <2>6 DEF Fits, ResolveNew
  <2> QED
    BY <1>1, <1>3, <1>15, <2>5, <2>7, Turns DEF ResolveNew
<1>16. CASE ResolveExisting(j)
  <2>1. f.target = f.to /\ Transfer(j) \in {"mkdir", "download"}
    BY <1>2, <1>5, <1>16 DEF ResolveExisting, At, Framed, Early, Transfer
  <2>2. CASE GiveUp(j)
    BY <1>1, <1>3, <1>16, <2>2, GivesUp DEF ResolveExisting
  <2>3. CASE plan[j].policy = "replace" /\ Goto(j, Transfer(j)) /\ UNCHANGED stats
    BY <1>1, <1>3, <1>16, <2>1, <2>3, Proceeds DEF ResolveExisting, Careful, Steps, Early
  <2>4. CASE Count(j, "skipped") /\ Pop(j)
    BY <1>1, <1>3, <1>16, <2>4, Skips DEF ResolveExisting
  <2>5. CASE Become(j, [f EXCEPT !.at = "mkdir", !.target = Root]) /\ UNCHANGED stats
    <3>1. Fits(j, [f EXCEPT !.at = "mkdir", !.target = Root])
      <4>1. PICK g : g = [f EXCEPT !.at = "mkdir", !.target = Root]
        OBVIOUS
      <4>2. /\ g = Fields(g)
            /\ g.at = "mkdir" /\ g.from = f.from /\ g.to = f.to
            /\ g.target = Root /\ g.todo = f.todo
        BY <1>6, <4>1 DEF Fields
      <4>3. Framed(source, g)
        BY EmptyIsSeq, <1>2, <4>2, <1>7, Reframed DEF Steps, Early, Root
      <4>4. Fits(j, g)
        BY <1>5, EmptyIsSeq, <4>2, <4>3 DEF Fits, Late, Root
      <4> QED
        BY <4>1, <4>4
    <3> QED
      BY <1>1, <1>3, <1>16, <2>5, <3>1, Turns DEF ResolveExisting
  <2>6. CASE Goto(j, "unique") /\ UNCHANGED stats
    BY <1>1, <1>3, <1>5, <1>16, <2>1, <2>6, Proceeds DEF ResolveExisting, Steps, Late
  <2> QED
    BY <1>5, <1>16, <2>2, <2>3, <2>4, <2>5, <2>6 DEF ResolveExisting
<1>17. CASE UniqueTaken(j)
  <2>1. Fits(j, [f EXCEPT !.num = @ + 1])
    BY <1>2, <1>5, <1>17 DEF UniqueTaken, At, Fits, Framed, Fields, Steps, Early, Late
  <2> QED
    BY <1>1, <1>3, <1>5, <1>17, <2>1, Turns DEF UniqueTaken
<1>18. CASE UniqueFree(j)
  <2>1. PICK cand : cand = Numbered(f.to, f.num)
    OBVIOUS
  <2>2. PICK g : g = [f EXCEPT !.at = Transfer(j), !.target = cand, !.num = 1]
    OBVIOUS
  <2>3. /\ g = Fields(g)
        /\ g.at = Transfer(j) /\ g.from = f.from /\ g.to = f.to
        /\ g.target = cand /\ g.todo = f.todo
    BY <1>6, <2>2 DEF Fields
  <2>4. IsSeq(cand)
    BY <1>2, <2>1, Shortened, Appended DEF Framed, Numbered
  <2>5. Transfer(j) \in Steps \ Early
    BY DEF Transfer, Steps, Early
  <2>6. Careful(j) => cand \notin DOMAIN fs
    BY <1>5, <1>18, <2>1 DEF Careful, UniqueFree, StatFails, MayFail, Exists
  <2>7. Framed(source, g)
    BY <1>2, <1>7, <2>3, <2>4, <2>5, Reframed
  <2>8. Fits(j, g) /\ Become(j, g)
    BY <1>5, <1>18, <2>1, <2>2, <2>3, <2>6, <2>7 DEF Fits, UniqueFree
  <2> QED
    BY <1>1, <1>3, <1>18, <2>8, Turns DEF UniqueFree
<1>19. CASE Download(j)
  <2>0. PICK data : Become(j, [f EXCEPT !.at = "upload", !.data = data])
    BY <1>19 DEF Download, f
  <2>1. PICK g : g = [f EXCEPT !.at = "upload", !.data = data]
    OBVIOUS
  <2>2. /\ g = Fields(g)
        /\ g.at = "upload" /\ g.from = f.from /\ g.to = f.to
        /\ g.target = f.target /\ g.todo = f.todo
    BY <1>6, <2>1 DEF Fields
  <2>3. f.at = "download" /\ Become(j, g)
    BY <1>5, <1>19, <2>1, <2>0 DEF Download, At
  <2>4. Framed(source, g)
    BY <1>2, <1>7, <2>2, Reframed DEF Steps, Early
  <2>5. Fits(j, g)
    BY <1>5, <1>19, <2>2, <2>3, <2>4 DEF Fits, Late, Download
  <2> QED
    BY <1>1, <1>3, <1>19, <2>3, <2>5, Turns DEF Download
<1>20. CASE DownloadFails(j)
  BY <1>1, <1>3, <1>20, CopyFails DEF DownloadFails
<1>21. CASE Upload(j)
  <2>1. Touches(j)
    BY <1>21 DEF Upload, At, Touches
  <2>2. CASE Goto(j, "removeFile") /\ UNCHANGED stats
    <3>1. stats' \in [Jobs -> [items : BOOLEAN, skipped : BOOLEAN, errs : BOOLEAN]]
      BY <2>2 DEF WalkIInv, TypeOK
    <3>2. Walks(j)
      BY <1>1, <2>2, Goes DEF Steps, Early, Late
    <3> QED
      BY <1>1, <1>21, <2>1, <3>1, <3>2, GoesOn DEF Upload
  <2>3. CASE Count(j, "items") /\ Pop(j)
    <3>1. stats' \in [Jobs -> [items : BOOLEAN, skipped : BOOLEAN, errs : BOOLEAN]]
      BY <2>3, Counts
    <3> QED
      BY <1>1, <1>21, <2>1, <2>3, <3>1, GoesOn DEF Upload, Walks
  <2> QED
    BY <1>21, <2>2, <2>3 DEF Upload
<1>22. CASE UploadFails(j)
  <2>1. Touches(j)
    BY <1>22 DEF UploadFails, At, Touches
  <2> QED
    BY <1>1, <1>22, <2>1, CopyFails DEF UploadFails
<1>23. CASE RemoveFile(j)
  <2>1. Touches(j)
    BY <1>2, <1>5, <1>23 DEF RemoveFile, Touches, Framed
  <2> QED
    BY <1>1, <1>23, <2>1, Skips DEF RemoveFile
<1>24. CASE RemoveFileFails(j)
  <2>1. Typed
    BY <1>4, <1>24 DEF RemoveFileFails
  <2> QED
    BY <1>1, <1>3, <1>24, <2>1, GoesOn DEF RemoveFileFails, Same, Walks
<1>25. CASE Mkdir(j)
  <2>1. Touches(j)
    BY <1>25 DEF Mkdir, Touches
  <2> QED
    BY <1>1, <1>25, <2>1, Proceeds DEF Mkdir, Steps, Early, Late
<1>26. CASE MkdirFails(j)
  BY <1>1, <1>3, <1>26, GivesUp DEF MkdirFails
<1>27. CASE ListFolder(j)
  <2> DEFINE g == [f EXCEPT !.at = "children", !.todo = Children(f.from)]
  <2>1. \A p \in Children(f.from) : IsSeq(p) /\ Within(source, p)
    <3> TAKE p \in Children(f.from)
    <3>1. IsSeq(p) /\ Within(f.from, p)
      BY DEF Children, WalkIInv, Within
    <3>2. IsSeq(f.from) /\ Within(source, f.from)
      BY <1>2 DEF Framed
    <3> QED
      BY <1>2, <3>1, <3>2, WithinWithin
  <2> DEFINE rest == Children(f.from)
  <2> HIDE DEF rest
  <2>2. Framed(source, [f EXCEPT !.at = "children", !.todo = rest])
    <3>1. PICK h : h = [f EXCEPT !.at = "children", !.todo = rest]
      OBVIOUS
    <3>2. /\ h = Fields(h)
          /\ h.at = "children" /\ h.from = f.from /\ h.to = f.to
          /\ h.target = f.target /\ h.todo = rest
      BY <1>6, <3>1 DEF Fields
    <3>3. Framed(source, h)
      BY <1>2, <1>7, <2>1, <3>2, Reframed DEF Steps, Early, rest
    <3> QED
      BY <3>1, <3>3
  <2>3. Fits(j, g)
    BY <1>2, <1>5, <2>2 DEF Fits, Framed, Late, rest
  <2> QED
    BY <1>1, <1>3, <1>5, <1>27, <2>3, Turns DEF ListFolder
<1>28. CASE ListFails(j)
  BY <1>1, <1>3, <1>28, GivesUp DEF ListFails
<1>29. ASSUME NEW p \in Listed(j), Descend(j, p)
       PROVE  Good
  <2> DEFINE g == [f EXCEPT !.todo = @ \ {p}]
             to == Append(f.target, Last(p))
  <2>1. p \in f.todo /\ f.at = "children"
    BY <1>1, <1>5, <1>29 DEF Listed, Descend, At
  <2>2. Framed(source, g) /\ g.at = "children"
    BY <1>2, <2>1 DEF Framed, Fields, Early
  <2>3. Framed(source, Frame(p, to)) /\ Frame(p, to).at = "enter"
    <3>1. IsSeq(to)
      BY <1>2, Appended DEF Framed
    <3>2. IsSeq(p) /\ Within(source, p)
      BY <1>2, <2>1 DEF Framed
    <3> HIDE DEF to
    <3> QED
      BY <1>2, <3>1, <3>2, Opens
  <2>4. stack' = [stack EXCEPT ![j] = Front(@) \o <<g, Frame(p, to)>>]
    BY <1>5, <1>29 DEF Descend
  <2> HIDE DEF g, to
  <2>5. Walks(j)
    BY <1>5, <2>2, <2>3, <2>4 DEF Walks
  <2> QED
    BY <1>1, <1>3, <1>4, <1>29, <2>5, GoesOn DEF Descend, Same
<1>30. ASSUME NEW p \in Listed(j), PassOver(j, p)
       PROVE  Good
  <2> DEFINE g == [f EXCEPT !.todo = @ \ {p}]
  <2>1. Framed(source, g)
    BY <1>2 DEF Framed, Fields
  <2>2. Fits(j, g)
    <3>1. f.at = "children"
      BY <1>5, <1>30 DEF PassOver, At
    <3>2. g.at = "children"
      BY <1>2, <3>1 DEF Framed
    <3> QED
      BY <1>5, <2>1, <3>2 DEF Fits, Late
  <2>3. Walks(j)
    BY <1>5, <1>30, <2>2 DEF PassOver, Walks
  <2>4. Typed
    BY <1>30, Counts DEF PassOver
  <2> QED
    BY <1>1, <1>3, <1>30, <2>3, <2>4, GoesOn DEF PassOver, Same
<1>31. CASE ChildrenDone(j)
  <2>1. CASE Goto(j, "removeTree")
    BY <1>1, <1>3, <1>31, <2>1, Proceeds DEF ChildrenDone, Steps, Early, Late
  <2>2. CASE Pop(j)
    BY <1>1, <1>3, <1>4, <1>31, <2>2, GoesOn DEF ChildrenDone, Same, Walks
  <2> QED
    BY <1>31, <2>1, <2>2 DEF ChildrenDone
<1>32. \A p \in Subtree(f.from) : Within(source, p)
  <2> TAKE p \in Subtree(f.from)
  <2>1. IsSeq(p) /\ Within(f.from, p)
    BY DEF Subtree, WalkIInv, Within
  <2>2. IsSeq(f.from) /\ Within(source, f.from)
    BY <1>2 DEF Framed
  <2> QED
    BY <1>2, <2>1, <2>2, WithinWithin
<1>33. CASE RemoveTree(j)
  <2>1. Touches(j)
    BY <1>5, <1>32, <1>33 DEF RemoveTree, Touches
  <2> QED
    BY <1>1, <1>4, <1>33, <2>1, GoesOn DEF RemoveTree, Same, Walks
<1>34. CASE RemoveTreeFails(j)
  <2>1. Touches(j)
    BY <1>5, <1>32, <1>34 DEF RemoveTreeFails, Touches
  <2> QED
    BY <1>1, <1>34, <2>1, GivesUp DEF RemoveTreeFails
<1>35. CASE Finish(j)
  <2>1. PICK result \in {"completed", "failed", "canceled"} : End(j, result)
    BY <1>35 DEF Finish, Result
  <2> QED
    BY <1>1, <1>3, <1>35, <2>1, Ends DEF Finish
<1> QED
  BY <1>1, <1>8, <1>9, <1>10, <1>11, <1>12, <1>13, <1>14, <1>15, <1>16, <1>17, <1>18, <1>19,
     <1>20, <1>21, <1>22, <1>23, <1>24, <1>25, <1>26, <1>27, <1>28, <1>29, <1>30, <1>31,
     <1>33, <1>34, <1>35 DEF Step

------------------------------------------------------------------------------
(* The invariant is kept                                                   *)

\* <<x>> and s \o <<x, y>> as sequences that grew.
LEMMA OneCall ==
  ASSUME NEW x
  PROVE  <<x>> = Append(<<>>, x) /\ Last(<<x>>) = x
<1>1. <<x>> = Append(<<>>, x)
  BY EmptySeq, AppendProperties
<1>2. Last(<<x>>) = x
  BY DEF Last
<1> QED
  BY <1>1, <1>2

LEMMA TwoCalls ==
  ASSUME NEW s, IsSeq(s), NEW x, NEW y
  PROVE  s \o <<x, y>> = Append(Append(s, x), y)
<1> DEFINE A == ToSet(s) \cup {x, y}
<1>1. s \in Seq(A) /\ <<x, y>> \in Seq(A) /\ x \in A /\ y \in A /\ Len(s) \in Nat
  BY SeqMonotonic, LenProperties DEF IsSeq
<1>2. Len(<<x, y>>) = 2 /\ <<x, y>>[1] = x /\ <<x, y>>[2] = y
  OBVIOUS
<1> HIDE DEF A
<1>3. PICK two \in Seq(A) : two = <<x, y>> /\ Len(two) = 2 /\ two[1] = x /\ two[2] = y
  BY <1>1, <1>2
<1>4. /\ s \o two \in Seq(A) /\ Len(s \o two) = Len(s) + 2
      /\ \A i \in 1 .. Len(s) + 2 : (s \o two)[i] = IF i <= Len(s) THEN s[i] ELSE two[i - Len(s)]
  BY <1>1, <1>3, ConcatProperties
<1>5. PICK t : t = Append(s, x)
  OBVIOUS
<1>6. /\ t \in Seq(A) /\ Len(t) = Len(s) + 1 /\ t[Len(s) + 1] = x
      /\ \A i \in 1 .. Len(s) : t[i] = s[i]
  BY <1>1, <1>5, AppendProperties
<1>7. PICK u : u = Append(t, y)
  OBVIOUS
<1>8. /\ u \in Seq(A) /\ Len(u) = Len(s) + 2 /\ u[Len(s) + 2] = y
      /\ \A i \in 1 .. Len(s) + 1 : u[i] = t[i]
  <2>1. Len(t) + 1 = Len(s) + 2
    BY <1>1, <1>6
  <2> QED
    BY <1>1, <1>6, <1>7, <2>1, AppendProperties
<1>9. \A i \in 1 .. Len(s) + 2 : (s \o two)[i] = u[i]
  <2> TAKE i \in 1 .. Len(s) + 2
  <2>1. CASE i \in 1 .. Len(s)
    BY <1>1, <1>4, <1>6, <1>8, <2>1
  <2>2. CASE i = Len(s) + 1
    <3>1. i - Len(s) = 1 /\ ~(i <= Len(s)) /\ i \in 1 .. Len(s) + 1
      BY <1>1, <2>2
    <3> QED
      BY <1>3, <1>4, <1>6, <1>8, <2>2, <3>1
  <2>3. CASE i = Len(s) + 2
    <3>1. i - Len(s) = 2 /\ ~(i <= Len(s))
      BY <1>1, <2>3
    <3> QED
      BY <1>3, <1>4, <1>8, <2>3, <3>1
  <2>4. i \in 1 .. Len(s) \/ i = Len(s) + 1 \/ i = Len(s) + 2
    <3>1. \A n \in Nat : \A k \in 1 .. n + 2 : k \in 1 .. n \/ k = n + 1 \/ k = n + 2
      OBVIOUS
    <3> QED
      BY <1>1, <3>1
  <2> QED
    BY <2>1, <2>2, <2>3, <2>4
<1>10. s \o two = u
  BY <1>1, <1>4, <1>8, <1>9, SeqEqual
<1> QED
  BY <1>3, <1>5, <1>7, <1>10

LEMMA OpenedFront ==
  ASSUME NEW source, NEW s, Opened(source, s), s # <<>>
  PROVE  Opened(source, Front(s)) /\ Framed(source, Last(s)) /\ Last(s).at = "children"
<1>1. /\ IsSeq(s) /\ IsSeq(Front(s)) /\ s = Append(Front(s), Last(s))
      /\ Len(s) = Len(Front(s)) + 1 /\ DOMAIN s = 1 .. Len(s)
      /\ Len(Front(s)) \in Nat /\ DOMAIN Front(s) = 1 .. Len(Front(s))
  BY Shortened DEF Opened
<1>2. \A i \in DOMAIN Front(s) : i \in DOMAIN s /\ s[i] = Front(s)[i]
  BY <1>1, Appended
<1>3. Len(s) \in DOMAIN s
  BY <1>1
<1> QED
  BY <1>1, <1>2, <1>3 DEF Opened, Last

LEMMA OpenedAppend ==
  ASSUME NEW source, NEW s, Opened(source, s), NEW f, Framed(source, f), f.at = "children"
  PROVE  Opened(source, Append(s, f))
<1>1. /\ IsSeq(s) /\ Len(s) \in Nat /\ DOMAIN s = 1 .. Len(s)
      /\ \A d \in 1 .. Len(s) : Framed(source, s[d]) /\ s[d].at = "children"
  BY Shortened DEF Opened
<1>2. PICK t : t = Append(s, f)
  OBVIOUS
<1>3. /\ IsSeq(t) /\ DOMAIN t = 1 .. Len(s) + 1 /\ t[Len(s) + 1] = f
      /\ \A i \in 1 .. Len(s) : t[i] = s[i]
  BY <1>1, <1>2, Appended
<1>4. \A d \in DOMAIN t : d \in 1 .. Len(s) \/ d = Len(s) + 1
  BY <1>1, <1>3
<1>5. \A d \in DOMAIN t : Framed(source, t[d]) /\ t[d].at = "children"
  BY <1>1, <1>3, <1>4
<1> QED
  BY <1>2, <1>3, <1>5 DEF Opened

LEMMA WalkAppend ==
  ASSUME NEW source, NEW s, Opened(source, s), NEW f, Framed(source, f)
  PROVE  Walk(source, Append(s, f))
<1>1. IsSeq(s)
  BY DEF Opened
<1> QED
  BY <1>1, Appended DEF Walk

LEMMA WalkOne ==
  ASSUME NEW source, NEW f, Framed(source, f)
  PROVE  Walk(source, <<f>>)
<1>1. Opened(source, <<>>)
  <2>1. DOMAIN <<>> = {}
    OBVIOUS
  <2> QED
    BY <2>1, EmptyIsSeq DEF Opened
<1>2. Walk(source, Append(<<>>, f))
  BY <1>1, WalkAppend
<1>3. <<f>> = Append(<<>>, f)
  BY OneCall
<1> QED
  BY <1>2, <1>3, Zenon

\* Every call of a walk is at one of its steps.
LEMMA WalkAt ==
  ASSUME NEW source, NEW s, Walk(source, s), NEW d \in DOMAIN s
  PROVE  s[d].at \in Steps
<1>1. CASE s = <<>>
  <2>1. DOMAIN <<>> = {}
    OBVIOUS
  <2> QED
    BY <1>1, <2>1
<1>2. CASE s # <<>>
  <2>1. /\ IsSeq(s) /\ IsSeq(Front(s)) /\ s = Append(Front(s), Last(s))
        /\ Len(s) = Len(Front(s)) + 1 /\ DOMAIN s = 1 .. Len(s)
        /\ Len(Front(s)) \in Nat /\ DOMAIN Front(s) = 1 .. Len(Front(s))
    BY <1>2, Shortened DEF Walk
  <2>2. \A i \in DOMAIN Front(s) : s[i] = Front(s)[i]
    BY <2>1, Appended
  <2>3. d = Len(s) \/ d \in DOMAIN Front(s)
    BY <2>1
  <2>4. Framed(source, Last(s)) /\ \A i \in DOMAIN Front(s) : Framed(source, Front(s)[i])
    BY <1>2 DEF Walk, Opened
  <2>5. Framed(source, s[d])
    BY <2>2, <2>3, <2>4 DEF Last
  <2> QED
    BY <2>5 DEF Framed
<1> QED
  BY <1>1, <1>2

\* What becomes of the calls is a walk of the same source.
LEMMA WalksOn ==
  ASSUME WalkIInv, NEW j \in Jobs, stack[j] # <<>>, Walks(j)
  PROVE  \E s : stack' = [stack EXCEPT ![j] = s] /\ Walk(plan[j].from, s)
<1> DEFINE source == plan[j].from
           b == Front(stack[j])
<1>1. Opened(source, b) /\ Framed(source, Top(j)) /\ IsSeq(b)
  BY CallAt DEF Opened
<1>2. CASE stack' = [stack EXCEPT ![j] = <<>>]
  BY <1>2 DEF Walk
<1>3. CASE Pop(j)
  <2> DEFINE g == [Top(j) EXCEPT !.at = "verify"]
             s == IF Len(stack[j]) > 1 THEN b ELSE <<g>>
  <2>1. stack' = [stack EXCEPT ![j] = s]
    BY <1>3, CallAt DEF Pop
  <2>2. Walk(source, b)
    BY <1>1, OpenedFront DEF Walk
  <2>3. Framed(source, g)
    BY <1>1 DEF Framed, Fields, Steps, Early
  <2>4. Walk(source, <<g>>)
    BY <2>3, WalkOne
  <2> QED
    BY <2>1, <2>2, <2>4
<1>4. ASSUME NEW f, Fits(j, f), Become(j, f)
      PROVE  \E s : stack' = [stack EXCEPT ![j] = s] /\ Walk(source, s)
  <2>1. Walk(source, Append(b, f))
    BY <1>1, <1>4, WalkAppend DEF Fits
  <2>2. stack' = [stack EXCEPT ![j] = Append(b, f)]
    BY <1>4 DEF Become
  <2> QED
    BY <2>1, <2>2
<1>5. ASSUME NEW f, NEW g, Framed(source, f), f.at = "children", Framed(source, g),
             stack' = [stack EXCEPT ![j] = Front(@) \o <<f, g>>]
      PROVE  \E s : stack' = [stack EXCEPT ![j] = s] /\ Walk(source, s)
  <2>1. Walk(source, Append(Append(b, f), g))
    BY <1>1, <1>5, OpenedAppend, WalkAppend
  <2>2. b \o <<f, g>> = Append(Append(b, f), g)
    BY <1>1, TwoCalls
  <2>3. stack' = [stack EXCEPT ![j] = b \o <<f, g>>]
    BY <1>5
  <2> HIDE DEF b
  <2> QED
    BY <2>1, <2>2, <2>3
<1> HIDE DEF b, source
<1> QED
  BY <1>2, <1>3, <1>4, <1>5 DEF Walks, source

\* What becomes of the tree has paths and nodes again, and what is outside of
\* the source stays there.
LEMMA TreeKept ==
  ASSUME WalkIInv, NEW j \in Jobs, stack[j] # <<>>, Touches(j)
  PROVE  /\ \A p \in DOMAIN fs' : /\ p # Root /\ IsSeq(p)
                                  /\ fs'[p].type \in {"dir", "file", "link"}
         /\ \A p \in DOMAIN fs : ~Within(plan[j].from, p) => p \in DOMAIN fs'
<1>1. \A p \in DOMAIN fs : p # Root /\ IsSeq(p) /\ fs[p].type \in {"dir", "file", "link"}
  BY DEF WalkIInv, TypeOK, TypeOf
<1>2. IsSeq(Top(j).target)
  BY CallAt DEF Framed
<1>3. ASSUME NEW node, node.type \in {"dir", "file", "link"}, Top(j).target # Root,
             Put(Top(j).target, node)
      PROVE  /\ \A p \in DOMAIN fs' : /\ p # Root /\ IsSeq(p)
                                      /\ fs'[p].type \in {"dir", "file", "link"}
             /\ \A p \in DOMAIN fs : p \in DOMAIN fs'
  BY <1>1, <1>2, <1>3 DEF Put
<1>4. CASE UNCHANGED fs
  BY <1>1, <1>4
<1>5. ASSUME NEW d, Put(Top(j).target, File(d)), CanWrite(Top(j).target)
      PROVE  /\ \A p \in DOMAIN fs' : /\ p # Root /\ IsSeq(p)
                                      /\ fs'[p].type \in {"dir", "file", "link"}
             /\ \A p \in DOMAIN fs : p \in DOMAIN fs'
  <2>1. File(d).type = "file"
    BY DEF File
  <2>2. Top(j).target # Root
    BY <1>5 DEF CanWrite
  <2> QED
    BY <1>3, <1>5, <2>1, <2>2
<1>6. CASE CanMkdir(Top(j).target) /\ Put(Top(j).target, Folder)
  <2>1. Folder.type = "dir"
    BY DEF Folder
  <2>2. Top(j).target # Root
    BY <1>6 DEF CanMkdir
  <2> QED
    BY <1>3, <1>6, <2>1, <2>2
<1>7. CASE \E gone : (\A p \in gone : Within(plan[j].from, p)) /\ Delete(gone)
  BY <1>1, <1>7 DEF Delete
<1> QED
  BY <1>4, <1>5, <1>6, <1>7 DEF Touches

\* The tree, the calls and the records of a step make the invariant again.
LEMMA Restored ==
  ASSUME WalkIInv, NEW j \in Jobs, NEW s, stack' = [stack EXCEPT ![j] = s],
         Walk(plan[j].from, s), UNCHANGED plan,
         \A p \in DOMAIN fs' : /\ p # Root /\ IsSeq(p)
                               /\ fs'[p].type \in {"dir", "file", "link"},
         outcome' \in [Jobs -> {"idle", "running", "completed", "failed", "canceled"}],
         \A k \in Jobs : outcome'[k] # "running" => k = j \/ outcome[k] # "running",
         outcome'[j] # "running" => s = <<>>,
         stats' \in [Jobs -> [items : BOOLEAN, skipped : BOOLEAN, errs : BOOLEAN]],
         canceled' \subseteq Jobs, runs' \in [Jobs -> 0 .. MaxRuns]
  PROVE  WalkIInv'
<1>1. stack' = [k \in Jobs |-> IF k = j THEN s ELSE stack[k]]
  <2>1. stack = [k \in Jobs |-> stack[k]]
    BY DEF WalkIInv
  <2> QED
    BY <2>1
<1>2. stack' = [k \in Jobs |-> stack'[k]] /\ stack'[j] = s
      /\ \A k \in Jobs \ {j} : stack'[k] = stack[k]
  BY <1>1
<1>3. \A k \in Jobs : Stacked(k)'
  BY <1>2 DEF WalkIInv, Stacked
<1>4. \A k \in Jobs : \A d \in DOMAIN stack'[k] : stack'[k][d].at \in Steps
  BY <1>3, WalkAt DEF Stacked
<1>5. \A k \in Jobs : outcome'[k] # "running" => stack'[k] = <<>>
  BY <1>2 DEF WalkIInv, TypeOK
<1>6. TypeOK'
  <2>1. \A p \in DOMAIN fs' : p # Root /\ TypeOf(p)' \in {"dir", "file", "link"}
    BY DEF TypeOf
  <2>2. plan' \in [Jobs -> Plans]
    BY DEF WalkIInv, TypeOK
  <2> QED
    BY <1>4, <1>5, <2>1, <2>2 DEF TypeOK
<1> QED
  BY <1>2, <1>3, <1>6 DEF WalkIInv

LEMMA WalkInit == Init => WalkIInv
<1> SUFFICES ASSUME Init
             PROVE  WalkIInv
  OBVIOUS
<1>1. \A j \in Jobs : stack[j] = <<>>
  BY DEF Init
<1>2. DOMAIN <<>> = {}
  OBVIOUS
<1>3. \A p \in DOMAIN fs : p # Root /\ IsSeq(p) /\ fs[p].type \in {"dir", "file", "link"}
  BY PathsAssumption DEF Init, Root, IsSeq
<1>4. TypeOK
  <2>1. \A p \in DOMAIN fs : p # Root /\ TypeOf(p) \in {"dir", "file", "link"}
    BY <1>3 DEF TypeOf
  <2>2. stats \in [Jobs -> [items : BOOLEAN, skipped : BOOLEAN, errs : BOOLEAN]]
    BY DEF Init, NoStats
  <2>3. outcome \in [Jobs -> {"idle", "running", "completed", "failed", "canceled"}]
    BY DEF Init
  <2>4. runs \in [Jobs -> 0 .. MaxRuns]
    BY RunsAssumption DEF Init
  <2>5. canceled \subseteq Jobs /\ plan \in [Jobs -> Plans]
    BY DEF Init
  <2> QED
    BY <1>1, <1>2, <2>1, <2>2, <2>3, <2>4, <2>5 DEF TypeOK
<1>5. stack = [j \in Jobs |-> stack[j]]
  BY DEF Init
<1> QED
  BY <1>1, <1>3, <1>4, <1>5 DEF WalkIInv, Stacked, Walk

\* A step of a job keeps the invariant.
LEMMA StepKeeps ==
  ASSUME WalkIInv, NEW j \in Jobs, Step(j)
  PROVE  WalkIInv'
<1>1. stack[j] # <<>> /\ Walks(j) /\ Touches(j) /\ Records(j)
  BY StepDoes
<1>2. PICK s : stack' = [stack EXCEPT ![j] = s] /\ Walk(plan[j].from, s)
  BY <1>1, WalksOn
<1>3. stack'[j] = s
  BY <1>2 DEF WalkIInv
<1>4. canceled' \subseteq Jobs /\ runs' \in [Jobs -> 0 .. MaxRuns] /\ UNCHANGED plan
  BY <1>1 DEF Records, WalkIInv, TypeOK
<1>5. /\ outcome' \in [Jobs -> {"idle", "running", "completed", "failed", "canceled"}]
      /\ \A k \in Jobs : outcome'[k] # "running" => k = j \/ outcome[k] # "running"
      /\ outcome'[j] # "running" => s = <<>>
      /\ stats' \in [Jobs -> [items : BOOLEAN, skipped : BOOLEAN, errs : BOOLEAN]]
  BY <1>1, <1>3 DEF Records
<1> QED
  BY <1>1, <1>2, <1>4, <1>5, TreeKept, Restored

\* A run begins with one call, on the source itself.
LEMMA RunKeeps ==
  ASSUME WalkIInv, NEW j \in Jobs, StartCopy(j) \/ Retry(j)
  PROVE  WalkIInv'
<1> DEFINE f == Frame(plan[j].from, plan[j].to)
<1>1. plan[j] \in Plans
  BY DEF WalkIInv, TypeOK
<1>2. IsSeq(plan[j].from) /\ IsSeq(plan[j].to)
  BY <1>1, PathsAssumption DEF IsSeq
<1>3. Walk(plan[j].from, <<f>>)
  BY <1>2, WithinItself, Opens, WalkOne
<1> HIDE DEF f
<1>4. /\ stack' = [stack EXCEPT ![j] = <<f>>] /\ UNCHANGED <<fs, plan>>
      /\ outcome' = [outcome EXCEPT ![j] = "running"]
      /\ runs[j] < MaxRuns /\ runs' = [runs EXCEPT ![j] = @ + 1]
      /\ UNCHANGED stats \/ stats' = [stats EXCEPT ![j] = NoStats]
      /\ UNCHANGED canceled \/ canceled' = canceled \ {j}
  BY DEF StartCopy, Retry, f
<1>5. /\ outcome' \in [Jobs -> {"idle", "running", "completed", "failed", "canceled"}]
      /\ outcome'[j] = "running" /\ \A k \in Jobs \ {j} : outcome'[k] = outcome[k]
  BY <1>4 DEF WalkIInv, TypeOK
<1>6. stats' \in [Jobs -> [items : BOOLEAN, skipped : BOOLEAN, errs : BOOLEAN]]
  <2>1. stats \in [Jobs -> [items : BOOLEAN, skipped : BOOLEAN, errs : BOOLEAN]]
    BY DEF WalkIInv, TypeOK
  <2>2. NoStats \in [items : BOOLEAN, skipped : BOOLEAN, errs : BOOLEAN]
    BY DEF NoStats
  <2> QED
    BY <1>4, <2>1, <2>2
<1>7. runs' \in [Jobs -> 0 .. MaxRuns]
  BY <1>4, RunsAssumption DEF WalkIInv, TypeOK
<1>8. canceled' \subseteq Jobs
  BY <1>4 DEF WalkIInv, TypeOK
<1>9. \A p \in DOMAIN fs' : p # Root /\ IsSeq(p) /\ fs'[p].type \in {"dir", "file", "link"}
  BY <1>4 DEF WalkIInv, TypeOK, TypeOf
<1>10. \A k \in Jobs : outcome'[k] # "running" => k = j \/ outcome[k] # "running"
  BY <1>5
<1> QED
  BY <1>3, <1>4, <1>5, <1>6, <1>7, <1>8, <1>9, <1>10, Restored

LEMMA CancelKeeps ==
  ASSUME WalkIInv, NEW j \in Jobs, Cancel(j)
  PROVE  WalkIInv'
<1>1. UNCHANGED <<fs, plan, outcome, stack, stats, runs>> /\ canceled' \subseteq Jobs
  BY DEF Cancel, WalkIInv, TypeOK
<1>2. TypeOK'
  BY <1>1 DEF WalkIInv, TypeOK, TypeOf
<1> QED
  BY <1>1, <1>2 DEF WalkIInv, Stacked

\* Every step keeps the invariant.
LEMMA WalkNext ==
  ASSUME WalkIInv, [Next]_vars
  PROVE  WalkIInv'
<1>1. CASE UNCHANGED vars
  <2>1. UNCHANGED <<fs, plan, outcome, stack, stats, canceled, runs>>
    BY <1>1 DEF vars
  <2>2. TypeOK'
    BY <2>1 DEF WalkIInv, TypeOK, TypeOf
  <2> QED
    BY <2>1, <2>2 DEF WalkIInv, Stacked
<1>2. ASSUME NEW j \in Jobs, StartCopy(j) \/ Retry(j) \/ Cancel(j) \/ Step(j)
      PROVE  WalkIInv'
  BY <1>2, RunKeeps, CancelKeeps, StepKeeps
<1> QED
  BY <1>1, <1>2 DEF Next, AtRest

\* The inductive invariant: every call in progress works within the source of
\* its job, and only the innermost is not between two entries
\* (copy.go:145-290).
THEOREM WalkInvariant == Spec => []WalkIInv
<1>1. WalkIInv /\ [Next]_vars => WalkIInv'
  BY WalkNext
<1> QED
  BY <1>1, WalkInit, PTL DEF Spec

\* What the tree and the jobs can hold.
THEOREM TypeInvariant == Spec => []TypeOK
<1>1. WalkIInv => TypeOK
  BY DEF WalkIInv
<1> QED
  BY <1>1, WalkInvariant, PTL

------------------------------------------------------------------------------
(* What a job leaves alone                                                 *)

\* A job removes nothing outside of its source and turns no folder there into
\* anything else, whatever its policy, its faults and the other jobs
\* (copy.go:185-196, 265-290).
OutsideStays ==
  [][\A j \in Jobs : Step(j) =>
       \A p \in DOMAIN fs : ~Within(plan[j].from, p) =>
         p \in DOMAIN fs' /\ (fs[p].type = "dir" => fs'[p] = fs[p])]_vars

\* What is outside of the source changes at the target of an upload alone.
LEMMA TouchesTarget ==
  ASSUME WalkIInv, NEW j \in Jobs, stack[j] # <<>>, Touches(j),
         NEW p \in DOMAIN fs, ~Within(plan[j].from, p)
  PROVE  /\ p \in DOMAIN fs'
         /\ fs'[p] # fs[p] => /\ p = Top(j).target /\ Top(j).at = "upload"
                              /\ CanWrite(p)
<1>1. p \in DOMAIN fs'
  BY TreeKept
<1>2. CASE CanMkdir(Top(j).target) /\ Put(Top(j).target, Folder)
  BY <1>2 DEF Put, CanMkdir, Exists
<1>3. CASE \E gone : (\A q \in gone : Within(plan[j].from, q)) /\ Delete(gone)
  BY <1>3 DEF Delete
<1>4. CASE UNCHANGED fs
  BY <1>4
<1>5. ASSUME NEW d, Put(Top(j).target, File(d)), fs'[p] # fs[p]
      PROVE  p = Top(j).target
  BY <1>5 DEF Put
<1> QED
  BY <1>1, <1>2, <1>3, <1>4, <1>5 DEF Touches

\* OutsideStays holds of every tree, plan and job.
THEOREM JobsStayInside == Spec => OutsideStays
<1>1. ASSUME WalkIInv, NEW j \in Jobs, Step(j), NEW p \in DOMAIN fs, ~Within(plan[j].from, p)
      PROVE  p \in DOMAIN fs' /\ (fs[p].type = "dir" => fs'[p] = fs[p])
  <2>1. stack[j] # <<>> /\ Touches(j)
    BY <1>1, StepDoes
  <2>2. /\ p \in DOMAIN fs'
        /\ fs'[p] # fs[p] => CanWrite(p)
    BY <1>1, <2>1, TouchesTarget
  <2>3. CanWrite(p) => fs[p].type # "dir"
    BY <1>1 DEF CanWrite, Exists, TypeOf
  <2> QED
    BY <2>2, <2>3
<1>2. WalkIInv =>
        \A j \in Jobs : Step(j) =>
          \A p \in DOMAIN fs : ~Within(plan[j].from, p) =>
            p \in DOMAIN fs' /\ (fs[p].type = "dir" => fs'[p] = fs[p])
  BY <1>1
<1> QED
  BY <1>2, WalkInvariant, PTL DEF OutsideStays

\* A Stat that fails is taken for "nothing there", so a job may write over what
\* it could not see; and another job may take the name between the last Stat and
\* the upload (copy.go:365-393).
StatBelieved == \A p \in Plans : p.policy # "replace" => "stat" \notin Faults[p]
OneJob       == \A j, k \in Jobs : j = k

LEMMA TargetStaysFree ==
  ASSUME WalkIInv, NEW j \in Jobs, TargetFree(j), StatBelieved, Step(j)
  PROVE  TargetFree(j)'
<1>1. stack[j] # <<>> /\ Walks(j) /\ UNCHANGED plan
  BY StepDoes DEF Records
<1>2. \A v : [stack EXCEPT ![j] = v][j] = v
  BY <1>1, CallAt
<1>3. plan[j].policy # "replace" => Careful(j)
  BY <1>1, CallAt DEF Careful, StatBelieved
<1> DEFINE b == Front(stack[j])
<1>4. IsSeq(b) /\ Opened(plan[j].from, b)
  BY <1>1, CallAt DEF Opened
<1>5. ASSUME stack'[j] # <<>> => Last(stack'[j]).at \notin Late
      PROVE  TargetFree(j)'
  BY <1>5 DEF TargetFree, Top
<1>6. CASE stack' = [stack EXCEPT ![j] = <<>>]
  BY <1>2, <1>5, <1>6
<1>7. CASE Pop(j)
  <2> DEFINE g == [Top(j) EXCEPT !.at = "verify"]
  <2>1. stack'[j] = IF Len(stack[j]) > 1 THEN b ELSE <<g>>
    BY <1>1, <1>2, <1>7, CallAt DEF Pop
  <2>2. b # <<>> => Last(b).at = "children"
    BY <1>4, OpenedFront
  <2>3. g.at = "verify"
    BY <1>1, CallAt DEF Framed, Fields
  <2>4. Last(<<g>>) = g
    BY OneCall
  <2> HIDE DEF b, g
  <2> QED
    BY <1>5, <2>1, <2>2, <2>3, <2>4 DEF Late
<1>8. ASSUME NEW f, Fits(j, f), Become(j, f)
      PROVE  TargetFree(j)'
  <2>1. stack'[j] = Append(b, f)
    BY <1>2, <1>8 DEF Become
  <2>2. Top(j)' = f
    BY <1>4, <2>1, Appended DEF Top
  <2>3. ASSUME plan[j].policy # "replace", f.at \in Late
        PROVE  f.target \notin DOMAIN fs'
    BY <1>1, <1>3, <1>8, <2>3 DEF Fits, TargetFree
  <2> QED
    BY <1>1, <2>2, <2>3 DEF TargetFree
<1>9. ASSUME NEW f, NEW g, g.at = "enter", stack' = [stack EXCEPT ![j] = Front(@) \o <<f, g>>]
      PROVE  TargetFree(j)'
  <2>1. PICK s : s = b \o <<f, g>>
    OBVIOUS
  <2>2. stack'[j] = s
    BY <1>2, <1>9, <2>1
  <2>3. Last(s) = g
    <3>1. s = Append(Append(b, f), g)
      BY <1>4, <2>1, TwoCalls
    <3>2. PICK t : t = Append(b, f) /\ IsSeq(t)
      BY <1>4, Appended
    <3> QED
      BY <3>1, <3>2, Appended
  <2> QED
    BY <1>5, <1>9, <2>2, <2>3 DEF Late
<1> QED
  BY <1>1, <1>6, <1>7, <1>8, <1>9 DEF Walks

\* Under both, a file that goes to its target finds nothing there, unless it is
\* told to replace (copy.go:170-184, 365-393).
THEOREM TargetInvariant ==
  ASSUME StatBelieved, OneJob
  PROVE  Spec => [](\A j \in Jobs : TargetFree(j))
<1> DEFINE Free == \A j \in Jobs : TargetFree(j)
<1>1. Init => Free
  BY DEF Init, TargetFree
<1>2. WalkIInv /\ Free /\ [Next]_vars => Free'
  <2> SUFFICES ASSUME WalkIInv, Free, [Next]_vars, NEW j \in Jobs
               PROVE  TargetFree(j)'
    OBVIOUS
  <2>1. CASE UNCHANGED vars
    BY <2>1 DEF vars, TargetFree, Top
  <2>2. CASE Step(j)
    BY <2>2, TargetStaysFree
  <2>3. CASE StartCopy(j) \/ Retry(j)
    <3> DEFINE f == Frame(plan[j].from, plan[j].to)
    <3>1. stack' = [stack EXCEPT ![j] = <<f>>]
      BY <2>3 DEF StartCopy, Retry
    <3>2. stack'[j] = <<f>>
      BY <3>1 DEF WalkIInv
    <3>3. Last(<<f>>) = f
      BY OneCall
    <3>4. f.at = "enter"
      BY DEF Frame
    <3> HIDE DEF f
    <3> QED
      BY <3>2, <3>3, <3>4 DEF TargetFree, Top, Late
  <2>4. CASE Cancel(j)
    BY <2>4 DEF Cancel, TargetFree, Top
  <2> QED
    BY <2>1, <2>2, <2>3, <2>4, OneJob DEF Next, AtRest, OneJob
<1> HIDE DEF Free
<1>3. Spec => []Free
  BY <1>1, <1>2, WalkInvariant, PTL DEF Spec
<1> QED
  BY <1>3 DEF Free

\* Refuse, skip and rename leave what exists outside of the source as it was, as
\* long as Stat is believed and the job is the only one
\* (protocol/copy.go:9-17).
THEOREM NothingIsOverwritten ==
  ASSUME StatBelieved, OneJob
  PROVE  Spec => DestinationUntouched
<1>1. ASSUME WalkIInv, NEW j \in Jobs, TargetFree(j), Step(j), plan[j].policy # "replace",
             NEW p \in DOMAIN fs, ~Within(plan[j].from, p)
      PROVE  p \in DOMAIN fs' /\ fs'[p] = fs[p]
  <2>1. stack[j] # <<>> /\ Touches(j)
    BY <1>1, StepDoes
  <2>2. /\ p \in DOMAIN fs'
        /\ fs'[p] # fs[p] => p = Top(j).target /\ Top(j).at = "upload"
    BY <1>1, <2>1, TouchesTarget
  <2>3. Top(j).at = "upload" => Top(j).target \notin DOMAIN fs
    BY <1>1, <2>1 DEF TargetFree, Late
  <2> QED
    BY <1>1, <2>2, <2>3
<1>2. WalkIInv /\ (\A j \in Jobs : TargetFree(j)) =>
        \A j \in Jobs : (Step(j) /\ plan[j].policy # "replace")
          => \A p \in DOMAIN fs : ~Within(plan[j].from, p) => p \in DOMAIN fs' /\ fs'[p] = fs[p]
  BY <1>1
<1> QED
  BY <1>2, WalkInvariant, TargetInvariant, PTL DEF DestinationUntouched

------------------------------------------------------------------------------
(* What a job keeps, and what it has done when it completes                *)

\* Plans that lose nothing.  A copy that replaces a folder above its source
\* merges the source into itself; the move of a folder removes it with what
\* could not be copied (copy.go:265-290), so moves are of single files here.
ApartPlans ==
  \A p \in Plans : /\ p.policy = "replace" => ~Within(p.to, p.from)
                   /\ p.move => p.from \in DOMAIN Tree /\ Tree[p.from].type = "file"

Files(j) == FilesAt(SourceOf(j))

\* The steps of copyOne on a file, and those with a target that is chosen.
FileSteps == {"enter", "probe", "resolve", "unique", "download", "upload", "removeFile", "verify"}
Aimed     == {"download", "upload", "list", "children"}

\* Path t is to the destination what s is to the source.
Corresponds(j, s, t) ==
  LET m == Len(plan[j].from)
      n == Len(plan[j].to)
  IN /\ Len(t) + m = Len(s) + n
     /\ \A i \in 1 .. n : t[i] = plan[j].to[i]
     /\ \A i \in 1 .. Len(s) - m : t[n + i] = s[m + i]

\* Neither path is within the other.
Beside(j, t) == ~Within(plan[j].from, t) /\ ~Within(t, plan[j].from)

\* A copy never removes, and a move is one call, on its file; entries come from
\* their folder; what is told to replace keeps the place of its entry, and what
\* is not goes to a target beside the source.
Sound(j, f) ==
  /\ IF plan[j].move
     THEN f.at \in FileSteps /\ ~f.dir /\ f.from = plan[j].from
     ELSE f.at \notin {"removeFile", "removeTree"}
  /\ \A q \in f.todo : Len(q) = Len(f.from) + 1 /\ Within(f.from, q)
  /\ plan[j].policy = "replace" => f.at # "unique" /\ Corresponds(j, f.from, f.target)
  /\ plan[j].from \in DOMAIN Tree =>
       /\ ~Within(plan[j].from, f.to)
       /\ f.at \in Aimed => Beside(j, f.target)
       /\ f.at = "mkdir" => f.target = Root \/ Beside(j, f.target)
SoundCalls(j) == \A d \in DOMAIN stack[j] : Sound(j, stack[j][d])

\* A call that takes its entry for a file, or for a folder.
OnFile(f) == f.at \in {"probe", "download", "upload"} \/ (f.at \in {"resolve", "unique"} /\ ~f.dir)
OnDir(f)  == f.at \in {"probeDir", "mkdir", "list"} \/ (f.at \in {"resolve", "unique"} /\ f.dir)

\* A copy of the file that job j stored broke off, and nothing was said.
Broken(j, p) == <<j, p>> \in brokenOff

\* The innermost call is right about its entry and has read what is there, or part
\* of it; a move has its file until it removes it, and then a copy at its target,
\* which is another path: a whole one, but for what broke off in silence.
Ready(j, f) ==
  /\ f.at \in {"enter", "probe"} => ~f.dir
  /\ OnFile(f) => \A p \in Files(j) : Within(f.from, p) => p = f.from
  /\ OnDir(f) => f.from \notin Files(j)
  /\ f.at = "upload" /\ f.from \in Files(j) => f.data \in {Tree[f.from].data, Torn}
  /\ plan[j].move /\ f.at \notin {"enter", "verify"} => plan[j].from \in DOMAIN fs
  /\ f.at = "removeFile" => /\ f.target # plan[j].from /\ f.target \in DOMAIN fs
                            /\ \/ fs[f.target] = File(Tree[plan[j].from].data)
                               \/ Broken(j, plan[j].from)
ReadyCall(j) ==
  stack[j] # <<>> => /\ Ready(j, Top(j))
                     /\ Top(j).at = "verify" => Front(stack[j]) = <<>>

\* The source stands as it was, but for the file a move has removed with a copy of
\* it elsewhere, and what is outside of it is still there.
Stands(p) == p \in DOMAIN fs /\ fs[p] = Tree[p]
Moved(j, p) ==
  /\ plan[j].move /\ p = plan[j].from /\ p \notin DOMAIN fs
  /\ \/ \E q \in DOMAIN fs : fs[q].type = "file" /\ fs[q].data = Tree[p].data
     \/ Broken(j, p)
SourceKept(j) ==
  \A p \in DOMAIN Tree : IF Within(plan[j].from, p) THEN Stands(p) \/ Moved(j, p)
                                                    ELSE p \in DOMAIN fs

Admitted(j) == outcome[j] # "idle" => Accepts(plan[j].from, plan[j].to)

KeepIInv ==
  \A j \in Jobs : SoundCalls(j) /\ ReadyCall(j) /\ SourceKept(j) /\ Admitted(j)

\* A file of the source that is where it should be, and one a call is still to
\* copy: the innermost, or one that has it in a folder of its list.
Landed(j, p) ==
  \E q \in DOMAIN fs : /\ ~Within(plan[j].from, q)
                       /\ fs[q].type = "file" /\ fs[q].data = Tree[p].data
                       /\ plan[j].policy = "replace" => Corresponds(j, p, q)
Copied(j, p) == Landed(j, p) \/ Broken(j, p)
Active == {"enter", "probe", "probeDir", "resolve", "unique", "download", "upload", "mkdir", "list"}
InHand(f, p)  == f.at \in Active /\ Within(f.from, p)
Holds(f, p)   == f.at = "children" /\ \E q \in f.todo : Within(q, p)
Waits(s, p)   == \E d \in DOMAIN s : Holds(s[d], p)
Pending(j, p) == stack[j] # <<>> /\ (InHand(Top(j), p) \/ Waits(stack[j], p))

Spotless(j) == ~stats[j].errs /\ ~stats[j].skipped
Covered(j) ==
  /\ outcome[j] = "completed" => ~stats[j].errs
  /\ Spotless(j) /\ outcome[j] = "running" => \A p \in Files(j) : Copied(j, p) \/ Pending(j, p)
  /\ Spotless(j) /\ outcome[j] = "completed" => \A p \in Files(j) : Copied(j, p)

\* What has broken off stays on record.
LEMMA BrokenStays ==
  ASSUME [Next]_vars, NEW j, NEW p, Broken(j, p)
  PROVE  Broken(j, p)'
<1>1. ASSUME NEW k \in Jobs, Step(k)
      PROVE  brokenOff \subseteq brokenOff'
  BY <1>1 DEF Step, Abort, Enter, EnterFails, ProbeFolder, ProbeOther, ProbeDir, ProbeDirFails,
     ResolveNew, ResolveExisting, UniqueTaken, UniqueFree, Download, DownloadFails, Upload,
     UploadFails, RemoveFile, RemoveFileFails, Mkdir, MkdirFails, ListFolder, ListFails,
     Descend, PassOver, ChildrenDone, RemoveTree, RemoveTreeFails, Finish, Same
<1>2. ASSUME NEW k \in Jobs, StartCopy(k) \/ Retry(k) \/ Cancel(k)
      PROVE  UNCHANGED brokenOff
  BY <1>2 DEF StartCopy, Retry, Cancel
<1> QED
  BY <1>1, <1>2 DEF Next, AtRest, vars, Broken

\* The call goes on with the fields it has but for the step.
LEMMA GoesWith ==
  ASSUME WalkIInv, NEW j \in Jobs, stack[j] # <<>>, NEW at, Goto(j, at)
  PROVE  \E g : /\ Become(j, g) /\ g.at = at
                /\ g.from = Top(j).from /\ g.target = Top(j).target
                /\ g.dir = Top(j).dir /\ g.data = Top(j).data
                /\ g.to = Top(j).to /\ g.todo = Top(j).todo
<1> DEFINE f == Top(j)
<1>1. f = Fields(f)
  BY CallAt DEF Framed
<1>2. PICK g : g = [f EXCEPT !.at = at]
  OBVIOUS
<1>3. /\ g.at = at /\ g.from = f.from /\ g.target = f.target
      /\ g.dir = f.dir /\ g.data = f.data /\ g.to = f.to /\ g.todo = f.todo
  BY <1>1, <1>2 DEF Fields
<1>4. Become(j, g)
  BY <1>2, CallAt DEF Goto, Become, Top
<1> QED
  BY <1>3, <1>4

\* What becomes of the calls of a job, with what they are about.
Advances(j) ==
  \/ stack' = [stack EXCEPT ![j] = <<>>]
  \/ Pop(j)
  \/ \E g : Sound(j, g) /\ Ready(j, g)' /\ g.at # "verify" /\ Become(j, g)
  \/ \E f, g : /\ Sound(j, f) /\ Sound(j, g) /\ Ready(j, g)' /\ g.at # "verify"
               /\ stack' = [stack EXCEPT ![j] = Front(@) \o <<f, g>>]

LEMMA TurnsSound ==
  ASSUME WalkIInv, NEW j \in Jobs, stack[j] # <<>>, UNCHANGED <<fs, plan>>,
         Sound(j, Top(j)), Ready(j, Top(j)), NEW g, Become(j, g),
         g.from = Top(j).from, g.to = Top(j).to, g.dir = Top(j).dir \/ ~plan[j].move,
         \A q \in g.todo : q \in Top(j).todo \/ (Len(q) = Len(g.from) + 1 /\ Within(g.from, q)),
         g.at \in FileSteps \/ ~plan[j].move,
         g.at \notin {"enter", "upload", "removeFile", "removeTree", "verify"},
         plan[j].policy = "replace" => g.at # "unique" /\ g.target = Top(j).target,
         g.at \in Aimed \cup {"mkdir"} /\ plan[j].from \in DOMAIN Tree
           => Beside(j, g.target) \/ (g.at = "mkdir" /\ g.target = Root),
         g.at = "probe" => ~g.dir,
         OnFile(g) => OnFile(Top(j)) \/ \A p \in Files(j) : Within(g.from, p) => p = g.from,
         OnDir(g) => OnDir(Top(j)) \/ g.from \notin Files(j),
         plan[j].move /\ Top(j).at \in {"enter", "verify"} => plan[j].from \in DOMAIN fs
  PROVE  Advances(j)
<1>1. Sound(j, g)
  BY DEF Sound, Aimed
<1>2. Ready(j, g)'
  <2>1. Files(j)' = Files(j)
    BY DEF Files, FilesAt, SourceOf
  <2> QED
    BY <2>1 DEF Ready
<1> QED
  BY <1>1, <1>2 DEF Advances

LEMMA GoesSound ==
  ASSUME WalkIInv, NEW j \in Jobs, stack[j] # <<>>, UNCHANGED <<fs, plan>>,
         Sound(j, Top(j)), Ready(j, Top(j)), NEW at, Goto(j, at),
         at \in FileSteps \/ ~plan[j].move,
         at \notin {"enter", "upload", "removeFile", "removeTree", "verify"},
         plan[j].policy = "replace" => at # "unique",
         at \in Aimed \cup {"mkdir"} /\ plan[j].from \in DOMAIN Tree => Beside(j, Top(j).target),
         at = "probe" => ~Top(j).dir,
         at \in {"probe", "download"} \/ (at \in {"resolve", "unique"} /\ ~Top(j).dir)
           => OnFile(Top(j)) \/ \A p \in Files(j) : Within(Top(j).from, p) => p = Top(j).from,
         at \in {"probeDir", "mkdir", "list"} \/ (at \in {"resolve", "unique"} /\ Top(j).dir)
           => OnDir(Top(j)) \/ Top(j).from \notin Files(j),
         plan[j].move /\ Top(j).at \in {"enter", "verify"} => plan[j].from \in DOMAIN fs
  PROVE  Advances(j)
<1>1. PICK g : /\ Become(j, g) /\ g.at = at
               /\ g.from = Top(j).from /\ g.target = Top(j).target
               /\ g.dir = Top(j).dir /\ g.to = Top(j).to /\ g.todo = Top(j).todo
  BY GoesWith
<1>2. /\ OnFile(g) => OnFile(Top(j)) \/ \A p \in Files(j) : Within(g.from, p) => p = g.from
      /\ OnDir(g) => OnDir(Top(j)) \/ g.from \notin Files(j)
  BY <1>1 DEF OnFile, OnDir
<1> QED
  BY <1>1, <1>2, TurnsSound

LEMMA CopyFailsSound ==
  ASSUME NEW j \in Jobs, CopyFileFails(j)
  PROVE  Advances(j)
BY DEF CopyFileFails, End, GiveUp, Advances

\* Sequences with the same elements are the same, and what holds a path is one
\* of its beginnings.
LEMMA SameSeq ==
  ASSUME NEW s, IsSeq(s), NEW t, IsSeq(t), Len(s) = Len(t), \A i \in 1 .. Len(s) : s[i] = t[i]
  PROVE  s = t
<1> DEFINE A == ToSet(s) \cup ToSet(t)
<1>1. s \in Seq(A) /\ t \in Seq(A)
  BY SeqMonotonic DEF IsSeq
<1> QED
  BY <1>1, SeqEqual

LEMMA EmptyMeans ==
  ASSUME NEW s, IsSeq(s)
  PROVE  Len(s) = 0 <=> s = <<>>
BY EmptySeq DEF IsSeq

LEMMA PrefixIs ==
  ASSUME NEW s, IsSeq(s), NEW t, IsSeq(t), Len(t) <= Len(s), \A i \in 1 .. Len(t) : t[i] = s[i]
  PROVE  SubSeq(s, 1, Len(t)) = t
<1> DEFINE A == ToSet(s) \cup ToSet(t)
<1>1. s \in Seq(A) /\ t \in Seq(A) /\ Len(s) \in Nat /\ Len(t) \in Nat
  BY SeqMonotonic, LenProperties DEF IsSeq
<1> HIDE DEF A
<1>2. \A i \in 1 .. Len(t) : s[i] \in A
  BY <1>1, ElementOfSeq
<1>3. /\ SubSeq(s, 1, Len(t)) \in Seq(A) /\ Len(SubSeq(s, 1, Len(t))) = Len(t)
      /\ \A i \in 1 .. Len(t) : SubSeq(s, 1, Len(t))[i] = s[i]
  BY <1>1, <1>2, SubSeqProperties
<1> QED
  BY <1>1, <1>3, SeqEqual

\* Two paths that hold a third are within one another.
LEMMA BothWithin ==
  ASSUME NEW s, IsSeq(s), NEW t, IsSeq(t), NEW u, IsSeq(u), Within(s, u), Within(t, u)
  PROVE  Within(s, t) \/ Within(t, s)
<1>1. Len(s) \in Nat /\ Len(t) \in Nat /\ Len(u) \in Nat
  BY Shortened
<1>2. /\ Len(s) <= Len(u) /\ \A i \in 1 .. Len(s) : s[i] = u[i]
      /\ Len(t) <= Len(u) /\ \A i \in 1 .. Len(t) : t[i] = u[i]
  BY WithinMeans
<1>3. CASE Len(s) <= Len(t)
  <2>1. \A i \in 1 .. Len(s) : s[i] = t[i]
    BY <1>1, <1>2, <1>3
  <2> QED
    BY <1>3, <2>1, WithinMeans
<1>4. CASE Len(t) <= Len(s)
  <2>1. \A i \in 1 .. Len(t) : t[i] = s[i]
    BY <1>1, <1>2, <1>4
  <2> QED
    BY <1>4, <2>1, WithinMeans
<1> QED
  BY <1>1, <1>3, <1>4

\* What is in its place at the destination is beside the source.
LEMMA PlaceBeside ==
  ASSUME WalkIInv, ApartPlans, NEW j \in Jobs, stack[j] # <<>>, plan[j].policy = "replace",
         Accepts(plan[j].from, plan[j].to),
         NEW s, IsSeq(s), Within(plan[j].from, s), NEW t, IsSeq(t), Corresponds(j, s, t)
  PROVE  Within(plan[j].to, t) /\ Beside(j, t)
<1> DEFINE from == plan[j].from
           to == plan[j].to
<1>1. IsSeq(from) /\ IsSeq(to) /\ plan[j] \in Plans
  BY CallAt
<1>2. ~Within(to, from) /\ ~Within(from, to)
  BY <1>1 DEF ApartPlans, Accepts
<1>3. Within(to, t)
  <2>1. /\ Len(from) <= Len(s) /\ Len(from) \in Nat /\ Len(to) \in Nat
        /\ Len(s) \in Nat /\ Len(t) \in Nat
    BY <1>1, WithinMeans, Shortened
  <2>2. Len(t) + Len(from) = Len(s) + Len(to) /\ \A i \in 1 .. Len(to) : t[i] = to[i]
    BY DEF Corresponds
  <2>3. Len(to) <= Len(t)
    BY <2>1, <2>2
  <2> QED
    BY <1>1, <2>2, <2>3, WithinMeans
<1> HIDE DEF from, to
<1>4. ~Within(t, from)
  BY <1>1, <1>2, <1>3, WithinWithin
<1>5. ~Within(from, t)
  BY <1>1, <1>2, <1>3, BothWithin
<1> QED
  BY <1>3, <1>4, <1>5 DEF Beside, from, to

\* The target of an upload is no path of the source.
LEMMA TargetApart ==
  ASSUME WalkIInv, ApartPlans, NEW j \in Jobs, Top(j).at = "upload", stack[j] # <<>>,
         Sound(j, Top(j)), TargetFree(j), Accepts(plan[j].from, plan[j].to),
         NEW p \in DOMAIN fs, Within(plan[j].from, p)
  PROVE  p # Top(j).target
<1>1. CASE plan[j].policy # "replace"
  BY <1>1 DEF TargetFree, Late
<1>2. CASE plan[j].policy = "replace"
  <2>1. Framed(plan[j].from, Top(j))
    BY CallAt
  <2>2. Beside(j, Top(j).target)
    BY <1>2, <2>1, PlaceBeside DEF Framed, Sound
  <2> QED
    BY <2>2 DEF Beside
<1> QED
  BY <1>1, <1>2

\* Whatever holds the source is there as long as the source is.
LEMMA AboveStays ==
  ASSUME WalkIInv, NEW j \in Jobs, SourceKept(j), plan[j].from \in DOMAIN Tree,
         plan[j].from \in DOMAIN fs,
         NEW t, IsSeq(t), t # Root, Within(t, plan[j].from)
  PROVE  t \in DOMAIN fs
<1> DEFINE from == plan[j].from
<1>1. IsSeq(from) /\ Len(from) \in Nat /\ Len(t) \in Nat
  BY PathsAssumption, Shortened DEF IsSeq
<1>2. Len(t) <= Len(from) /\ \A i \in 1 .. Len(t) : t[i] = from[i]
  BY <1>1, WithinMeans
<1>3. t # from => t \in DOMAIN Tree
  <2> SUFFICES ASSUME t # from
               PROVE  t \in DOMAIN Tree
    OBVIOUS
  <2>1. SubSeq(from, 1, Len(t)) = t
    BY <1>1, <1>2, PrefixIs
  <2>2. Len(t) # Len(from)
    BY <1>1, <1>2, SameSeq
  <2>3. Len(t) \in 1 .. Len(from) - 1
    BY <1>1, <1>2, <2>2, EmptyMeans DEF Root
  <2> QED
    BY <2>1, <2>3, TreeAssumption
<1>4. Within(from, t) => t = from
  BY <1>1, <1>2, WithinMeans, SameSeq
<1> QED
  BY <1>3, <1>4 DEF SourceKept

\* What is appended to a path within another is within it.
LEMMA WithinAppended ==
  ASSUME NEW s, IsSeq(s), NEW t, IsSeq(t), Within(s, t), NEW x
  PROVE  Within(s, Append(t, x))
<1>1. PICK u : u = Append(t, x)
  OBVIOUS
<1>2. IsSeq(u) /\ Len(u) = Len(t) + 1 /\ \A i \in 1 .. Len(t) : u[i] = t[i]
  BY <1>1, Appended
<1>3. Len(s) \in Nat /\ Len(t) \in Nat
  BY Shortened
<1>4. Len(s) <= Len(t) /\ \A i \in 1 .. Len(s) : s[i] = t[i]
  BY WithinMeans
<1>5. Len(s) <= Len(u) /\ \A i \in 1 .. Len(s) : s[i] = u[i]
  BY <1>2, <1>3, <1>4
<1> QED
  BY <1>1, <1>2, <1>5, WithinMeans

\* A path within one that grew was within it, or is the one it grew to.
LEMMA WithinGrown ==
  ASSUME NEW s, IsSeq(s), NEW t, IsSeq(t), NEW x, Within(s, Append(t, x))
  PROVE  Within(s, t) \/ s = Append(t, x)
<1>1. PICK u : u = Append(t, x)
  OBVIOUS
<1>2. /\ IsSeq(u) /\ Len(u) = Len(t) + 1 /\ \A i \in 1 .. Len(t) : u[i] = t[i]
      /\ Len(s) \in Nat /\ Len(t) \in Nat
  BY <1>1, Appended, Shortened
<1>3. Len(s) <= Len(u) /\ \A i \in 1 .. Len(s) : s[i] = u[i]
  BY <1>1, <1>2, WithinMeans
<1>4. CASE Len(s) <= Len(t)
  <2>1. \A i \in 1 .. Len(s) : s[i] = t[i]
    BY <1>2, <1>3, <1>4
  <2> QED
    BY <1>4, <2>1, WithinMeans
<1>5. CASE Len(s) = Len(u)
  BY <1>1, <1>2, <1>3, <1>5, SameSeq
<1>6. Len(s) <= Len(t) \/ Len(s) = Len(u)
  BY <1>2, <1>3
<1> QED
  BY <1>4, <1>5, <1>6

\* What is in a folder beside the source is not in the source.
LEMMA GrownBeside ==
  ASSUME WalkIInv, NEW j \in Jobs, NEW t, IsSeq(t), Beside(j, t), NEW x
  PROVE  ~Within(plan[j].from, Append(t, x))
<1>1. plan[j] \in Plans
  BY DEF WalkIInv, TypeOK
<1>2. IsSeq(plan[j].from) /\ IsSeq(Append(t, x))
  BY <1>1, PathsAssumption, Appended DEF IsSeq
<1>3. PICK u : u = Append(t, x) /\ IsSeq(u)
  BY <1>2
<1>4. Within(t, u)
  BY <1>3, WithinItself, WithinAppended
<1> QED
  BY <1>2, <1>3, <1>4, BothWithin DEF Beside

\* A path that is not in the source may be numbered to be the source, but not
\* to be in it.
LEMMA NumberedApart ==
  ASSUME NEW s, IsSeq(s), s # Root, NEW t, IsSeq(t), ~Within(s, t), NEW i,
         Within(s, Numbered(t, i))
  PROVE  s = Numbered(t, i)
<1>1. PICK x : Numbered(t, i) = Append(Front(t), x)
  BY DEF Numbered
<1>2. IsSeq(Front(t))
  BY Shortened
<1>3. CASE Within(s, Front(t))
  <2>1. CASE t = <<>>
    <3>1. Len(s) \in Nat /\ Len(s) # 0
      BY Shortened, EmptyMeans DEF Root
    <3>2. Len(t) = 0
      BY <2>1
    <3>3. Front(t) = <<>>
      BY <2>1, <3>2, SubSeqEmpty DEF Front
    <3> QED
      BY <1>3, <2>1, <3>3
  <2>2. CASE t # <<>>
    <3>1. t = Append(Front(t), Last(t))
      BY <2>2, Shortened
    <3>2. Within(s, Append(Front(t), Last(t)))
      BY <1>2, <1>3, WithinAppended
    <3> QED
      BY <3>1, <3>2
  <2> QED
    BY <2>1, <2>2
<1> QED
  BY <1>1, <1>2, <1>3, WithinGrown

\* The destination is to itself what the source is to itself.
LEMMA SourceCorresponds ==
  ASSUME NEW j, IsSeq(plan[j].from), IsSeq(plan[j].to)
  PROVE  Corresponds(j, plan[j].from, plan[j].to)
<1>1. PICK m \in Nat : m = Len(plan[j].from)
  BY Shortened
<1>2. PICK n \in Nat : n = Len(plan[j].to)
  BY Shortened
<1>3. \A i \in 1 .. m - m : FALSE
  BY <1>1
<1>4. n + m = m + n
  <2>1. \A a, b \in Nat : a + b = b + a
    OBVIOUS
  <2> QED
    BY <2>1, Zenon
<1> QED
  BY <1>1, <1>2, <1>3, <1>4 DEF Corresponds

\* An entry is to its target what its folder was.
LEMMA ChildCorresponds ==
  ASSUME NEW j, NEW s, IsSeq(s), NEW t, IsSeq(t), Corresponds(j, s, t),
         IsSeq(plan[j].from), IsSeq(plan[j].to), Within(plan[j].from, s),
         NEW q, IsSeq(q), Within(s, q), Len(q) = Len(s) + 1
  PROVE  Corresponds(j, q, Append(t, Last(q)))
<1> DEFINE m == Len(plan[j].from)
           n == Len(plan[j].to)
<1>1. /\ m \in Nat /\ n \in Nat /\ Len(s) \in Nat /\ Len(t) \in Nat
      /\ m <= Len(s) /\ Len(t) + m = Len(s) + n
      /\ \A i \in 1 .. n : t[i] = plan[j].to[i]
      /\ \A i \in 1 .. Len(s) - m : t[n + i] = s[m + i]
  BY Shortened, WithinMeans DEF Corresponds
<1>2. \A i \in 1 .. Len(s) : q[i] = s[i]
  BY WithinMeans
<1>3. PICK u : u = Append(t, Last(q))
  OBVIOUS
<1>4. /\ Len(u) = Len(t) + 1 /\ u[Len(t) + 1] = q[Len(q)]
      /\ \A i \in 1 .. Len(t) : u[i] = t[i]
  BY <1>3, Appended DEF Last
<1> HIDE DEF m, n
<1>5. Len(u) + m = Len(q) + n
  BY <1>1, <1>4
<1>6. \A i \in 1 .. n : u[i] = plan[j].to[i]
  BY <1>1, <1>4
<1>7. ASSUME NEW i \in 1 .. Len(q) - m
      PROVE  u[n + i] = q[m + i]
  <2>1. CASE i \in 1 .. Len(s) - m
    <3>1. n + i \in 1 .. Len(t) /\ m + i \in 1 .. Len(s)
      BY <1>1, <2>1
    <3> QED
      BY <1>1, <1>2, <1>4, <2>1, <3>1
  <2>2. CASE i = Len(q) - m
    <3>1. n + i = Len(t) + 1 /\ m + i = Len(q)
      BY <1>1, <2>2
    <3> QED
      BY <1>4, <3>1
  <2>3. i \in 1 .. Len(s) - m \/ i = Len(q) - m
    BY <1>1
  <2> QED
    BY <2>1, <2>2, <2>3
<1> QED
  BY <1>3, <1>5, <1>6, <1>7 DEF Corresponds, m, n

\* The source itself is in the tree as it was before a job that has not moved it.
LEMMA SourceThere ==
  ASSUME WalkIInv, NEW j \in Jobs, SourceKept(j), plan[j].from \in DOMAIN Tree, ~plan[j].move
  PROVE  plan[j].from \in DOMAIN fs
<1>1. IsSeq(plan[j].from)
  BY PathsAssumption DEF IsSeq
<1> QED
  BY <1>1, WithinItself DEF SourceKept, Stands, Moved

\* What a file of the source is within, from the source on, is there as a folder.
LEMMA FolderOfFile ==
  ASSUME WalkIInv, ApartPlans, NEW j \in Jobs, SourceKept(j), plan[j].from # Root,
         NEW p \in Files(j), NEW s, IsSeq(s), Within(plan[j].from, s), Within(s, p), s # p
  PROVE  /\ s \in DOMAIN Tree /\ s \in DOMAIN fs /\ fs[s].type = "dir"
<1>1. plan[j] \in Plans /\ IsSeq(plan[j].from)
  BY PathsAssumption DEF WalkIInv, TypeOK, IsSeq
<1>2. p \in DOMAIN Tree /\ IsSeq(p)
  BY PathsAssumption DEF Files, FilesAt, SourceOf, IsSeq
<1>3. /\ Len(s) \in Nat /\ Len(p) \in Nat /\ Len(plan[j].from) \in Nat
      /\ Len(plan[j].from) # 0 /\ Len(plan[j].from) <= Len(s)
      /\ Len(s) <= Len(p) /\ \A i \in 1 .. Len(s) : s[i] = p[i]
  <2>1. Len(s) \in Nat /\ Len(p) \in Nat /\ Len(plan[j].from) \in Nat
    BY <1>1, <1>2, Shortened
  <2>2. Len(plan[j].from) # 0
    BY <1>1, EmptyMeans DEF Root
  <2>3. Len(plan[j].from) <= Len(s)
    BY <1>1, WithinMeans
  <2>4. Len(s) <= Len(p) /\ \A i \in 1 .. Len(s) : s[i] = p[i]
    BY <1>2, WithinMeans
  <2> QED
    BY <2>1, <2>2, <2>3, <2>4
<1>4. Len(s) # Len(p)
  BY <1>2, <1>3, SameSeq
<1>5. Len(s) \in 1 .. Len(p) - 1
  BY <1>3, <1>4
<1>6. SubSeq(p, 1, Len(s)) = s
  BY <1>2, <1>3, PrefixIs
<1>7. s \in DOMAIN Tree /\ Tree[s].type = "dir"
  BY <1>2, <1>5, <1>6, TreeAssumption
<1>8. Stands(s)
  <2>1. ~Moved(j, s)
    BY <1>1, <1>7 DEF Moved, ApartPlans
  <2> QED
    BY <1>7, <2>1 DEF SourceKept
<1> QED
  BY <1>7, <1>8 DEF Stands

LEMMA FileOfSource ==
  ASSUME NEW j, SourceKept(j), NEW p \in Files(j), p \in DOMAIN fs
  PROVE  fs[p] = Tree[p] /\ Tree[p].type = "file"
BY DEF Files, FilesAt, SourceOf, SourceKept, Stands, Moved

\* A move has its file in the tree, as it was, until it has removed it.
LEMMA MovesFile ==
  ASSUME WalkIInv, ApartPlans, NEW j \in Jobs, plan[j].move, SourceKept(j),
         plan[j].from \in DOMAIN fs
  PROVE  /\ fs[plan[j].from] = Tree[plan[j].from] /\ Tree[plan[j].from].type = "file"
         /\ plan[j].from \in Files(j)
<1>1. plan[j] \in Plans
  BY DEF WalkIInv, TypeOK
<1>2. plan[j].from \in DOMAIN Tree /\ Tree[plan[j].from].type = "file"
  BY <1>1 DEF ApartPlans
<1>3. Within(plan[j].from, plan[j].from)
  BY <1>1, PathsAssumption, WithinItself DEF IsSeq
<1>4. plan[j].from \in Files(j)
  BY <1>2, <1>3 DEF Files, FilesAt, SourceOf
<1> QED
  BY <1>2, <1>3, <1>4 DEF SourceKept, Stands, Moved

\* Every step of a job, call by call.
LEMMA StepAdvances ==
  ASSUME WalkIInv, ApartPlans, StatBelieved, NEW j \in Jobs, Step(j),
         SoundCalls(j), Sound(j, Top(j)), ReadyCall(j), SourceKept(j), TargetFree(j),
         Accepts(plan[j].from, plan[j].to)
  PROVE  Advances(j)
<1> DEFINE from == plan[j].from
           f == Top(j)
<1>1. stack[j] # <<>> /\ UNCHANGED plan /\ Records(j)
  BY StepDoes DEF Records
<1>2. /\ Framed(from, f) /\ IsSeq(from) /\ plan[j] \in Plans /\ from # Root
      /\ plan[j].policy \in Policies
  BY <1>1, CallAt, PlansAssumption DEF Accepts
<1>3. Ready(j, f) /\ Sound(j, f)
  BY <1>1 DEF ReadyCall
<1>4. plan[j].policy # "replace" => "stat" \notin Faults[plan[j]]
  BY <1>2 DEF StatBelieved
<1>5. f = Fields(f)
  BY <1>2 DEF Framed
<1>6. plan[j].move => f.from = from /\ ~f.dir /\ f.at \in FileSteps
  BY <1>3 DEF Sound
<1>7. plan[j].move /\ from \in DOMAIN fs => fs[from] = Tree[from] /\ Tree[from].type = "file"
  BY MovesFile
<1>8. plan[j].policy = "replace" => f.at # "unique"
  BY <1>3 DEF Sound
<1>9. (stack' = [stack EXCEPT ![j] = <<>>] \/ Pop(j) \/ GiveUp(j)) => Advances(j)
  BY DEF Advances, GiveUp
<1>10. \A at : At(j, at) => f.at = at
  BY DEF At
<1>11. from \in DOMAIN Tree /\ f.at \notin {"enter", "verify"} => from \in DOMAIN fs
  BY <1>3, SourceThere DEF Ready
<1>12. plan[j].policy = "replace" => Beside(j, f.target)
  BY <1>1, <1>2, <1>3, PlaceBeside DEF Framed, Sound
<1>13. IsSeq(f.from) /\ IsSeq(f.to) /\ IsSeq(f.target) /\ Within(from, f.from)
       /\ (f.at \in Early => f.target = f.to)
       /\ \A q \in f.todo : IsSeq(q) /\ Within(from, q) /\ Len(q) = Len(f.from) + 1 /\ Within(f.from, q)
  BY <1>2, <1>3 DEF Framed, Sound
<1> HIDE DEF f, from
<1>14. CASE Abort(j)
  BY <1>9, <1>14 DEF Abort, End
<1>15. CASE Enter(j)
  <2>1. CASE Pop(j)
    BY <1>9, <2>1
  <2>2. plan[j].move => from \in DOMAIN fs
    BY <1>2, <1>6, <1>15 DEF Enter, StatFinds, Exists, f
  <2>3. f.at = "enter" /\ ~f.dir /\ UNCHANGED fs
    BY <1>3, <1>10, <1>15 DEF Enter, Ready
  <2>4. f.from # Root
    BY <1>2, <1>13, Shortened, EmptyMeans, WithinMeans DEF Root
  <2>5. f.from \in DOMAIN fs /\ TypeOf(f.from) = fs[f.from].type
    BY <1>15, <2>4 DEF Enter, StatFinds, Exists, TypeOf, f
  <2>6. CASE TypeOf(f.from) = "file" /\ Goto(j, "probe")
    <3>1. \A p \in Files(j) : Within(f.from, p) => p = f.from
      BY <1>2, <1>13, <2>6, <2>5, FolderOfFile DEF from
    <3> QED
      BY <1>1, <1>3, <2>2, <2>6, <2>3, <3>1, GoesSound DEF FileSteps, Aimed, f, from
  <2>7. CASE TypeOf(f.from) = "dir" /\ Goto(j, "probeDir")
    <3>1. ~plan[j].move
      BY <1>2, <1>6, <1>7, <2>2, <2>7 DEF TypeOf
    <3>2. f.from \notin Files(j)
      BY <2>7, <2>5, FileOfSource
    <3> QED
      BY <1>1, <1>3, <2>7, <2>3, <3>1, <3>2, GoesSound DEF Aimed, f
  <2> QED
    BY <1>15, <2>1, <2>6, <2>7 DEF Enter, f
<1>16. CASE EnterFails(j) \/ ProbeFolder(j)
  BY <1>9, <1>16 DEF EnterFails, ProbeFolder
<1>17. CASE ProbeOther(j)
  <2>1. f.at = "probe" /\ ~f.dir /\ UNCHANGED fs /\ Goto(j, "resolve")
    BY <1>3, <1>10, <1>17 DEF ProbeOther, Ready
  <2>2. OnFile(f)
    BY <2>1 DEF OnFile
  <2> QED
    BY <1>1, <1>3, <2>1, <2>2, GoesSound DEF FileSteps, Aimed, f
<1>18. CASE ProbeDir(j)
  <2>1. f.at = "probeDir" /\ ~plan[j].move /\ UNCHANGED fs
    BY <1>6, <1>10, <1>18 DEF ProbeDir, FileSteps
  <2>2. CASE Pop(j) \/ GiveUp(j)
    BY <1>9, <2>2
  <2>3. CASE /\ OnFolder(plan[j].policy) = "unique" \/ OnOther(plan[j].policy) = "unique"
             /\ Become(j, [f EXCEPT !.at = "unique", !.dir = TRUE])
    <3>1. plan[j].policy # "replace"
      BY <1>2, <2>3 DEF OnFolder, OnOther
    <3>2. PICK g : g = [f EXCEPT !.at = "unique", !.dir = TRUE]
      OBVIOUS
    <3>3. /\ g.at = "unique" /\ g.from = f.from /\ g.target = f.target
          /\ g.to = f.to /\ g.dir /\ g.todo = f.todo
      BY <1>5, <3>2 DEF Fields
    <3>4. OnDir(f) /\ ~OnFile(g)
      BY <2>1, <3>3 DEF OnDir, OnFile
    <3>5. Become(j, g)
      BY <2>3, <3>2
    <3> QED
      BY <1>1, <1>3, <2>1, <3>1, <3>3, <3>4, <3>5, TurnsSound DEF Aimed, f
  <2>4. CASE /\ OnFolder(plan[j].policy) = "merge" \/ OnOther(plan[j].policy) = "merge"
             /\ Goto(j, "list")
    <3>1. plan[j].policy = "replace"
      BY <1>2, <2>4 DEF OnFolder, OnOther, Policies
    <3>2. OnDir(f)
      BY <2>1 DEF OnDir
    <3> QED
      BY <1>1, <1>3, <1>12, <2>1, <2>4, <3>1, <3>2, GoesSound DEF f
  <2> QED
    BY <1>18, <2>2, <2>3, <2>4 DEF ProbeDir, f
<1>19. CASE ProbeDirFails(j)
  <2>1. f.at = "probeDir" /\ ~plan[j].move /\ UNCHANGED fs
    BY <1>6, <1>10, <1>19 DEF ProbeDirFails, FileSteps
  <2>2. PICK g : g = [f EXCEPT !.at = "resolve", !.dir = TRUE]
    OBVIOUS
  <2>3. /\ g.at = "resolve" /\ g.from = f.from /\ g.target = f.target
        /\ g.to = f.to /\ g.dir /\ g.todo = f.todo /\ Become(j, g)
    BY <1>5, <1>19, <2>2 DEF Fields, ProbeDirFails, f
  <2>4. OnDir(f) /\ ~OnFile(g)
    BY <2>1, <2>3 DEF OnDir, OnFile
  <2> QED
    BY <1>1, <1>3, <2>1, <2>3, <2>4, TurnsSound DEF Aimed, f
<1>20. /\ Transfer(j) = IF f.dir THEN "mkdir" ELSE "download"
       /\ plan[j].move => Transfer(j) \in FileSteps
  BY <1>6 DEF Transfer, FileSteps, f
<1>21. ASSUME NEW g, Become(j, g), UNCHANGED fs, f.at \in {"resolve", "unique"},
              g.at = Transfer(j), g.from = f.from, g.to = f.to, g.dir = f.dir, g.todo = f.todo,
              plan[j].policy = "replace" => g.target = f.target,
              from \in DOMAIN Tree => Beside(j, g.target)
       PROVE  Advances(j)
  <2>1. (OnFile(g) <=> OnFile(f)) /\ (OnDir(g) <=> OnDir(f))
    BY <1>20, <1>21 DEF OnFile, OnDir
  <2> QED
    BY <1>1, <1>3, <1>20, <1>21, <2>1, TurnsSound DEF from, f
<1>22. CASE ResolveNew(j)
  <2>1. PICK g : g = [f EXCEPT !.at = Transfer(j), !.target = f.target]
    OBVIOUS
  <2>2. /\ g.at = Transfer(j) /\ g.from = f.from /\ g.target = f.target /\ g.dir = f.dir
        /\ g.to = f.to /\ g.todo = f.todo
    BY <1>5, <2>1 DEF Fields
  <2>3. /\ Become(j, g) /\ UNCHANGED fs /\ f.at = "resolve" /\ f.target = f.to
    BY <1>10, <1>22, <1>13, <2>1 DEF ResolveNew, Early, f
  <2>4. ASSUME plan[j].policy # "replace", from \in DOMAIN Tree
        PROVE  Beside(j, f.to)
    <3>1. f.to \notin DOMAIN fs /\ f.to # Root
      BY <1>22, <1>4, <2>4 DEF ResolveNew, StatFails, MayFail, Exists, f
    <3>2. ~Within(from, f.to)
      BY <1>3, <2>4 DEF Sound, from
    <3>3. ~Within(f.to, from)
      BY <1>11, <1>13, <2>3, <2>4, <3>1, AboveStays DEF from
    <3> QED
      BY <3>2, <3>3 DEF Beside, from
  <2>5. from \in DOMAIN Tree => Beside(j, g.target)
    BY <1>12, <2>2, <2>3, <2>4
  <2> QED
    BY <1>21, <2>2, <2>3, <2>5
<1>23. CASE ResolveExisting(j)
  <2>1. f.at = "resolve" /\ UNCHANGED fs
    BY <1>10, <1>23 DEF ResolveExisting
  <2>2. CASE Pop(j) \/ GiveUp(j)
    BY <1>9, <2>2
  <2>3. CASE plan[j].policy = "replace" /\ Goto(j, Transfer(j))
    <3>1. PICK g : /\ Become(j, g) /\ g.at = Transfer(j) /\ g.from = f.from /\ g.target = f.target
                   /\ g.dir = f.dir /\ g.to = f.to /\ g.todo = f.todo
      BY <1>1, <2>3, GoesWith DEF f
    <3> QED
      BY <1>12, <1>21, <2>1, <2>3, <3>1
  <2>4. CASE plan[j].policy = "skip" /\ f.dir /\ Become(j, [f EXCEPT !.at = "mkdir", !.target = Root])
    <3>1. PICK g : g = [f EXCEPT !.at = "mkdir", !.target = Root]
      OBVIOUS
    <3>2. /\ g.at = "mkdir" /\ g.from = f.from /\ g.dir = f.dir
          /\ g.to = f.to /\ g.todo = f.todo /\ g.target = Root
      BY <1>5, <3>1 DEF Fields
    <3>3. OnDir(f) /\ ~OnFile(g) /\ Become(j, g) /\ ~plan[j].move
      BY <1>6, <2>1, <2>4, <3>1, <3>2 DEF OnDir, OnFile
    <3> QED
      BY <1>1, <1>3, <2>1, <2>4, <3>2, <3>3, TurnsSound DEF Aimed, f
  <2>5. CASE plan[j].policy = "rename" /\ Goto(j, "unique")
    <3>1. (~f.dir => OnFile(f)) /\ (f.dir => OnDir(f))
      BY <2>1 DEF OnFile, OnDir
    <3> QED
      BY <1>1, <1>3, <2>1, <2>5, <3>1, GoesSound DEF f, FileSteps, Aimed
  <2> QED
    BY <1>23, <2>2, <2>3, <2>4, <2>5 DEF ResolveExisting, f
<1>24. CASE UniqueTaken(j)
  <2>1. PICK g : g = [f EXCEPT !.num = @ + 1]
    OBVIOUS
  <2>2. /\ g.at = f.at /\ g.from = f.from /\ g.target = f.target /\ g.dir = f.dir
        /\ g.to = f.to /\ g.todo = f.todo
    BY <1>5, <2>1 DEF Fields
  <2>3. Become(j, g) /\ UNCHANGED fs /\ f.at = "unique"
    BY <1>10, <1>24, <2>1 DEF UniqueTaken, f
  <2>4. (OnFile(g) <=> OnFile(f)) /\ (OnDir(g) <=> OnDir(f))
    BY <2>2 DEF OnFile, OnDir
  <2> QED
    BY <1>1, <1>3, <1>8, <2>2, <2>3, <2>4, TurnsSound DEF f, FileSteps, Aimed
<1>25. CASE UniqueFree(j)
  <2>1. PICK cand : cand = Numbered(f.to, f.num)
    OBVIOUS
  <2>2. PICK g : g = [f EXCEPT !.at = Transfer(j), !.target = cand, !.num = 1]
    OBVIOUS
  <2>3. /\ g.at = Transfer(j) /\ g.from = f.from /\ g.dir = f.dir
        /\ g.to = f.to /\ g.todo = f.todo /\ g.target = cand
    BY <1>5, <2>2 DEF Fields
  <2>4. Become(j, g) /\ UNCHANGED fs /\ f.at = "unique"
    BY <1>10, <1>25, <2>1, <2>2 DEF UniqueFree, f
  <2>5. ASSUME from \in DOMAIN Tree
        PROVE  Beside(j, cand)
    <3>1. cand \notin DOMAIN fs /\ cand # Root
      BY <1>8, <1>25, <1>4, <2>1, <2>4 DEF UniqueFree, StatFails, MayFail, Exists, f
    <3>2. IsSeq(cand)
      BY <1>13, <2>1, Shortened, Appended DEF Numbered
    <3>3. ~Within(from, cand)
      <4>1. ~Within(from, f.to)
        BY <1>3, <2>5 DEF Sound, from
      <4>2. from \in DOMAIN fs
        BY <1>11, <2>4, <2>5
      <4> QED
        BY <1>2, <1>13, <2>1, <3>1, <4>1, <4>2, NumberedApart
    <3>4. ~Within(cand, from)
      BY <1>11, <2>4, <2>5, <3>1, <3>2, AboveStays DEF from
    <3> QED
      BY <3>3, <3>4 DEF Beside, from
  <2> QED
    BY <1>8, <1>21, <2>3, <2>4, <2>5
<1>26. CASE Download(j)
  <2>1. PICK data : /\ data \in {fs[f.from].data, Torn}
                    /\ Become(j, [f EXCEPT !.at = "upload", !.data = data])
    BY <1>26 DEF Download, Arrives, f
  <2>2. PICK g : g = [f EXCEPT !.at = "upload", !.data = data]
    OBVIOUS
  <2>3. /\ g.at = "upload" /\ g.from = f.from /\ g.dir = f.dir /\ g.target = f.target
        /\ g.data = data /\ g.to = f.to /\ g.todo = f.todo
    BY <1>5, <2>2 DEF Fields
  <2>4. Become(j, g) /\ UNCHANGED fs /\ f.at = "download"
    BY <1>10, <1>26, <2>1, <2>2 DEF Download, f
  <2>5. f.from \in DOMAIN fs
    BY <1>26 DEF Download, CanRead, Exists, f
  <2>6. f.from \in Files(j) => data \in {Tree[f.from].data, Torn}
    BY <2>1, <2>5, FileOfSource
  <2>7. Sound(j, g)
    BY <1>3, <2>3, <2>4 DEF Sound, FileSteps, Aimed
  <2>8. Ready(j, g)'
    <3>1. Files(j)' = Files(j)
      BY <1>1 DEF Files, FilesAt, SourceOf
    <3>2. OnFile(f) /\ ~OnDir(g)
      BY <2>3, <2>4 DEF OnFile, OnDir
    <3> QED
      BY <1>1, <1>3, <2>3, <2>4, <2>6, <3>1, <3>2 DEF Ready
  <2> QED
    BY <2>3, <2>4, <2>7, <2>8 DEF Advances
<1>27. CASE DownloadFails(j)
  BY <1>27, CopyFailsSound DEF DownloadFails
<1>28. CASE Upload(j)
  <2>1. CASE plan[j].move /\ Goto(j, "removeFile")
    <3>0. PICK d : /\ d \in {Top(j).data, Torn} /\ Put(Top(j).target, File(d))
                   /\ d = Torn => <<j, Top(j).from>> \in brokenOff'
      BY <1>28 DEF Upload, Arrives
    <3>1. /\ f.at = "upload" /\ Put(f.target, File(d)) /\ d \in {f.data, Torn}
          /\ d = Torn => <<j, f.from>> \in brokenOff'
      BY <1>10, <1>28, <3>0 DEF Upload, f
    <3>2. from \in DOMAIN fs /\ f.data \in {Tree[from].data, Torn} /\ f.from = from
      <4>1. from \in DOMAIN fs /\ f.from = from
        BY <1>3, <1>6, <2>1, <3>1 DEF Ready, from
      <4>2. from \in Files(j)
        BY <2>1, <4>1, MovesFile DEF from
      <4> QED
        BY <1>3, <3>1, <4>1, <4>2 DEF Ready
    <3>3. f.target # from
      <4>1. Within(from, from)
        BY <1>2, WithinItself
      <4> QED
        BY <1>1, <1>2, <1>3, <3>1, <3>2, <4>1, TargetApart DEF f, from
    <3>4. /\ from \in DOMAIN fs' /\ f.target \in DOMAIN fs'
          /\ fs'[f.target] = File(Tree[from].data) \/ <<j, from>> \in brokenOff'
      BY <3>1, <3>2 DEF Put
    <3>5. PICK g : /\ Become(j, g) /\ g.at = "removeFile" /\ g.from = f.from
                   /\ g.target = f.target /\ g.dir = f.dir /\ g.to = f.to /\ g.todo = f.todo
      BY <1>1, <2>1, GoesWith DEF f
    <3>6. Sound(j, g)
      BY <1>3, <2>1, <3>5 DEF Sound, FileSteps, Aimed
    <3>7. Ready(j, g)'
      <4>1. ~OnFile(g) /\ ~OnDir(g)
        BY <3>5 DEF OnFile, OnDir
      <4> QED
        BY <1>1, <3>3, <3>4, <3>5, <4>1 DEF Ready, Broken, from
    <3> QED
      BY <3>5, <3>6, <3>7 DEF Advances
  <2> QED
    BY <1>9, <1>28, <2>1 DEF Upload
<1>29. CASE UploadFails(j)
  BY <1>29, CopyFailsSound DEF UploadFails
<1>30. CASE RemoveFile(j) \/ RemoveFileFails(j)
  BY <1>9, <1>30 DEF RemoveFile, RemoveFileFails
<1>31. CASE Mkdir(j)
  <2>1. ~plan[j].move
    BY <1>6, <1>10, <1>31 DEF Mkdir, FileSteps
  <2>2. PICK g : /\ Become(j, g) /\ g.at = "list" /\ g.from = f.from
                 /\ g.target = f.target /\ g.dir = f.dir /\ g.to = f.to /\ g.todo = f.todo
    BY <1>1, <1>31, GoesWith DEF Mkdir, f
  <2>3. f.at = "mkdir" /\ f.target # Root
    BY <1>10, <1>31 DEF Mkdir, CanMkdir, f
  <2>4. Sound(j, g)
    BY <1>3, <2>1, <2>2, <2>3 DEF Sound, Aimed
  <2>5. Ready(j, g)'
    <3>1. OnDir(f) /\ ~OnFile(g)
      BY <2>2, <2>3 DEF OnFile, OnDir
    <3>2. Files(j)' = Files(j)
      BY <1>1 DEF Files, FilesAt, SourceOf
    <3> QED
      BY <1>1, <1>3, <2>1, <2>2, <3>1, <3>2 DEF Ready
  <2> QED
    BY <2>2, <2>4, <2>5 DEF Advances
<1>32. CASE MkdirFails(j) \/ ListFails(j)
  BY <1>9, <1>32 DEF MkdirFails, ListFails
<1>33. CASE ListFolder(j)
  <2>1. PICK rest : rest = Children(f.from)
    OBVIOUS
  <2>2. PICK g : g = [f EXCEPT !.at = "children", !.todo = rest]
    OBVIOUS
  <2>3. /\ g.at = "children" /\ g.from = f.from /\ g.dir = f.dir /\ g.target = f.target
        /\ g.to = f.to /\ g.todo = rest
    BY <1>5, <2>2 DEF Fields
  <2>4. Become(j, g) /\ UNCHANGED fs /\ ~plan[j].move /\ f.at = "list"
    BY <1>6, <1>10, <1>33, <2>1, <2>2 DEF ListFolder, FileSteps, f
  <2>5. \A q \in g.todo : Len(q) = Len(g.from) + 1 /\ Within(g.from, q)
    BY <2>1, <2>3 DEF Children, Within
  <2>6. from \in DOMAIN Tree => Beside(j, g.target)
    BY <1>3, <2>3, <2>4 DEF Sound, Aimed, from
  <2>7. ~OnFile(g) /\ ~OnDir(g)
    BY <2>3 DEF OnFile, OnDir
  <2> QED
    BY <1>1, <1>3, <2>3, <2>4, <2>5, <2>6, <2>7, TurnsSound DEF f, from
<1>34. ASSUME NEW p \in Listed(j), Descend(j, p)
       PROVE  Advances(j)
  <2>1. PICK g : g = [f EXCEPT !.todo = f.todo \ {p}]
    OBVIOUS
  <2>2. /\ g.at = "children" /\ g.target = f.target /\ ~plan[j].move
        /\ g.from = f.from /\ g.to = f.to /\ g.todo = f.todo \ {p}
        /\ f.at = "children" /\ p \in f.todo
    BY <1>1, <1>5, <1>6, <1>10, <1>34, <2>1 DEF Descend, Fields, FileSteps, Listed, f
  <2>3. PICK to : to = Append(f.target, Last(p))
    OBVIOUS
  <2>4. PICK h : h = Frame(p, to)
    OBVIOUS
  <2>5. h.at = "enter" /\ h.target = to /\ h.to = to /\ h.from = p /\ h.todo = {} /\ ~h.dir
    BY <2>4 DEF Frame
  <2>6. plan[j].policy = "replace" => Corresponds(j, p, to)
    <3>1. IsSeq(plan[j].to) /\ IsSeq(plan[j].from)
      BY <1>1, CallAt
    <3> QED
      BY <1>3, <1>13, <2>2, <2>3, <3>1, ChildCorresponds DEF Sound, from
  <2>7. from \in DOMAIN Tree => ~Within(from, to)
    BY <1>3, <1>13, <2>2, <2>3, GrownBeside DEF Sound, Aimed, from
  <2>8. Sound(j, g)
    BY <1>3, <2>2 DEF Sound, Aimed
  <2>9. Sound(j, h)
    BY <2>2, <2>5, <2>6, <2>7 DEF Sound, Aimed, from
  <2>10. Ready(j, h)'
    <3>1. ~OnFile(h) /\ ~OnDir(h)
      BY <2>5 DEF OnFile, OnDir
    <3> QED
      BY <1>1, <2>2, <2>5, <3>1 DEF Ready
  <2>11. stack' = [stack EXCEPT ![j] = Front(@) \o <<g, h>>]
    BY <1>34, <2>1, <2>3, <2>4 DEF Descend, f
  <2> QED
    BY <2>5, <2>10, <2>11, <2>8, <2>9 DEF Advances
<1>35. ASSUME NEW p \in Listed(j), PassOver(j, p)
       PROVE  Advances(j)
  <2>1. PICK g : g = [f EXCEPT !.todo = f.todo \ {p}]
    OBVIOUS
  <2>2. /\ g.at = "children" /\ g.target = f.target /\ ~plan[j].move
        /\ g.from = f.from /\ g.dir = f.dir /\ g.to = f.to /\ g.todo = f.todo \ {p}
        /\ f.at = "children"
    BY <1>5, <1>6, <1>10, <1>35, <2>1 DEF PassOver, Fields, FileSteps
  <2>3. Become(j, g) /\ UNCHANGED fs
    BY <1>35, <2>1 DEF PassOver, f
  <2>4. from \in DOMAIN Tree => Beside(j, g.target)
    BY <1>3, <2>2 DEF Sound, Aimed, from
  <2>5. ~OnFile(g) /\ ~OnDir(g)
    BY <2>2 DEF OnFile, OnDir
  <2> QED
    BY <1>1, <1>3, <2>2, <2>3, <2>4, <2>5, TurnsSound DEF f, from
<1>36. CASE ChildrenDone(j)
  <2>1. ~plan[j].move
    BY <1>6, <1>10, <1>36 DEF ChildrenDone, FileSteps
  <2> QED
    BY <1>9, <1>36, <2>1 DEF ChildrenDone, RemovesSource
<1>37. CASE RemoveTree(j) \/ RemoveTreeFails(j)
  BY <1>9, <1>37 DEF RemoveTree, RemoveTreeFails
<1>38. CASE Finish(j)
  BY <1>9, <1>38 DEF Finish, End
<1> QED
  BY <1>14, <1>15, <1>16, <1>17, <1>18, <1>19, <1>22, <1>23, <1>24, <1>25, <1>26, <1>27, <1>28,
     <1>29, <1>30, <1>31, <1>32, <1>33, <1>34, <1>35, <1>36, <1>37, <1>38 DEF Step

\* A step keeps the files of the source.
LEMMA StepSpares ==
  ASSUME WalkIInv, ApartPlans, NEW j \in Jobs, Step(j),
         Sound(j, Top(j)), ReadyCall(j), SourceKept(j), TargetFree(j),
         Accepts(plan[j].from, plan[j].to)
  PROVE  SourceKept(j)'
<1> DEFINE from == plan[j].from
           f == Top(j)
<1>1. stack[j] # <<>> /\ UNCHANGED plan /\ Touches(j)
  BY StepDoes DEF Records
<1>2. IsSeq(from) /\ Ready(j, f) /\ Sound(j, f)
  BY <1>1, CallAt DEF ReadyCall
<1>3. \A at : At(j, at) => f.at = at
  BY DEF At
<1>4. ASSUME NEW p \in DOMAIN Tree, ~Within(from, p)
      PROVE  p \in DOMAIN fs'
  BY <1>1, <1>4, TreeKept DEF SourceKept
<1>5. SUFFICES ASSUME NEW p \in DOMAIN Tree, Within(from, p), Stands(p) \/ Moved(j, p)
               PROVE  Stands(p)' \/ Moved(j, p)'
  BY <1>1, <1>4 DEF SourceKept
<1> HIDE DEF f, from
<1>12. \A q : Broken(j, q) => Broken(j, q)'
  BY BrokenStays DEF Next
<1>6. CASE UNCHANGED fs
  BY <1>1, <1>5, <1>6, <1>12 DEF Stands, Moved
<1>7. CASE f.at = "upload" /\ \E d : Put(f.target, File(d))
  <2>1. Stands(p)
    BY <1>2, <1>5, <1>7 DEF Moved, Ready, from
  <2>2. p # f.target
    BY <1>1, <1>2, <1>5, <1>7, <2>1, TargetApart DEF Stands, f, from
  <2> QED
    BY <1>7, <2>1, <2>2 DEF Put, Stands
<1>8. CASE Mkdir(j)
  <2>1. Stands(p)
    BY <1>2, <1>3, <1>5, <1>8 DEF Mkdir, Moved, Sound, FileSteps
  <2> QED
    BY <1>8, <2>1 DEF Mkdir, CanMkdir, Exists, Put, Stands, f
<1>9. CASE RemoveFile(j)
  <2>1. /\ f.at = "removeFile" /\ plan[j].move /\ f.from = from
    BY <1>2, <1>3, <1>9 DEF RemoveFile, Sound, from
  <2>2. /\ from \in DOMAIN fs /\ f.target # from /\ f.target \in DOMAIN fs
        /\ fs[f.target] = File(Tree[from].data) \/ Broken(j, from)
    BY <1>2, <2>1 DEF Ready, from
  <2>3. Delete({from})
    BY <1>9, <2>1 DEF RemoveFile, f
  <2>4. Stands(p)
    BY <1>5, <2>2 DEF Moved, from
  <2>5. CASE p # from
    BY <2>3, <2>4, <2>5 DEF Delete, Stands
  <2>6. CASE p = from
    <3>1. p \notin DOMAIN fs' /\ f.target \in DOMAIN fs' /\ fs'[f.target] = fs[f.target]
      BY <2>2, <2>3, <2>6 DEF Delete
    <3>2. \/ fs'[f.target].type = "file" /\ fs'[f.target].data = Tree[p].data
          \/ Broken(j, p)'
      BY <1>12, <2>2, <2>6, <3>1 DEF File
    <3> QED
      BY <1>1, <2>1, <2>6, <3>1, <3>2 DEF Moved, from
  <2> QED
    BY <2>5, <2>6
<1>10. ~RemoveTree(j) /\ ~RemoveTreeFails(j)
  BY <1>2, <1>3 DEF RemoveTree, RemoveTreeFails, Sound, FileSteps
<1>11. UNCHANGED fs \/ Mkdir(j) \/ RemoveFile(j) \/ (f.at = "upload" /\ \E d : Put(f.target, File(d)))
  <2>1. CASE Upload(j)
    BY <1>3, <2>1 DEF Upload, f
  <2>2. CASE UploadFails(j)
    BY <1>3, <2>2 DEF UploadFails, f
  <2> QED
    BY <1>10, <2>1, <2>2
       DEF Step, Abort, Enter, EnterFails, ProbeFolder, ProbeOther, ProbeDir, ProbeDirFails,
           ResolveNew, ResolveExisting, UniqueTaken, UniqueFree, Download, DownloadFails,
           RemoveFileFails, MkdirFails, ListFolder, ListFails, Descend, PassOver, ChildrenDone,
           Finish
<1> QED
  BY <1>6, <1>7, <1>8, <1>9, <1>11

LEMMA TopSound ==
  ASSUME WalkIInv, NEW j \in Jobs, stack[j] # <<>>, SoundCalls(j)
  PROVE  /\ Sound(j, Top(j))
         /\ \A d \in DOMAIN Front(stack[j]) : Sound(j, Front(stack[j])[d])
<1>1. /\ IsSeq(stack[j]) /\ IsSeq(Front(stack[j]))
      /\ stack[j] = Append(Front(stack[j]), Last(stack[j]))
      /\ Len(stack[j]) = Len(Front(stack[j])) + 1 /\ DOMAIN stack[j] = 1 .. Len(stack[j])
      /\ Len(Front(stack[j])) \in Nat
      /\ DOMAIN Front(stack[j]) = 1 .. Len(Front(stack[j]))
  BY CallAt, Shortened
<1>2. Len(stack[j]) \in DOMAIN stack[j]
  BY <1>1
<1>3. \A d \in DOMAIN Front(stack[j]) : d \in DOMAIN stack[j] /\ stack[j][d] = Front(stack[j])[d]
  BY <1>1, Appended
<1> QED
  BY <1>2, <1>3 DEF SoundCalls, Top, Last

\* A sound call on top of sound calls.
LEMMA SoundAppend ==
  ASSUME NEW j, NEW s, IsSeq(s), \A d \in DOMAIN s : Sound(j, s[d]), NEW g, Sound(j, g)
  PROVE  \A d \in DOMAIN Append(s, g) : Sound(j, Append(s, g)[d])
<1>1. PICK t : t = Append(s, g)
  OBVIOUS
<1>2. /\ Len(s) \in Nat /\ DOMAIN s = 1 .. Len(s)
      /\ DOMAIN t = 1 .. Len(s) + 1 /\ t[Len(s) + 1] = g /\ \A i \in 1 .. Len(s) : t[i] = s[i]
  BY <1>1, Appended, Shortened
<1>3. \A d \in DOMAIN t : d \in 1 .. Len(s) \/ d = Len(s) + 1
  BY <1>2
<1>4. \A d \in DOMAIN t : Sound(j, t[d])
  BY <1>2, <1>3
<1> QED
  BY <1>1, <1>4

\* The calls of a job stay sound.
LEMMA AdvancesSound ==
  ASSUME WalkIInv, NEW j \in Jobs, stack[j] # <<>>, SoundCalls(j), UNCHANGED plan, Advances(j)
  PROVE  SoundCalls(j)' /\ ReadyCall(j)'
<1> DEFINE b == Front(stack[j])
<1>1. \A v : [stack EXCEPT ![j] = v][j] = v
  BY CallAt
<1>2. /\ Sound(j, Top(j)) /\ IsSeq(b) /\ Opened(plan[j].from, b)
      /\ \A d \in DOMAIN b : Sound(j, b[d])
  BY CallAt, TopSound DEF Opened
<1>3. \A g : Sound(j, g)' <=> Sound(j, g)
  BY DEF Sound, Corresponds, Beside
<1>4. SUFFICES /\ \A d \in DOMAIN stack'[j] : Sound(j, stack'[j][d])
               /\ \A g : stack'[j] # <<>> /\ g = Last(stack'[j]) =>
                    Ready(j, g)' /\ (g.at = "verify" => Front(stack'[j]) = <<>>)
  BY <1>3 DEF SoundCalls, ReadyCall, Top
<1>5. CASE stack' = [stack EXCEPT ![j] = <<>>]
  <2>1. stack'[j] = <<>> /\ DOMAIN <<>> = {}
    BY <1>1, <1>5
  <2> QED
    BY <2>1
<1>6. CASE Pop(j)
  <2> DEFINE g == [Top(j) EXCEPT !.at = "verify"]
  <2>1. stack'[j] = IF Len(stack[j]) > 1 THEN b ELSE <<g>>
    BY <1>1, <1>6, CallAt DEF Pop
  <2>2. g.at = "verify" /\ g.from = Top(j).from /\ g.dir = Top(j).dir /\ g.target = Top(j).target
    BY CallAt DEF Framed, Fields
  <2>3. Sound(j, g) /\ \A h : h = g => Ready(j, h)'
    <3>1. g.to = Top(j).to /\ g.todo = Top(j).todo
      BY CallAt DEF Framed, Fields
    <3> HIDE DEF g
    <3>2. ~OnFile(g) /\ ~OnDir(g)
      BY <2>2 DEF OnFile, OnDir
    <3>3. Sound(j, g)
      BY <1>2, <2>2, <3>1 DEF Sound, FileSteps, Aimed
    <3> QED
      BY <2>2, <3>2, <3>3 DEF Ready
  <2>4. CASE stack'[j] = b
    <3>1. b # <<>> => Last(b).at = "children" /\ Sound(j, Last(b))
      <4>1. b # <<>> => Len(b) \in DOMAIN b
        BY <1>2, Shortened, EmptySeq
      <4> QED
        BY <1>2, <4>1, OpenedFront DEF Last
    <3>2. b # <<>> => ~plan[j].move
      BY <3>1 DEF Sound, FileSteps
    <3>3. b # <<>> => ~OnFile(Last(b)) /\ ~OnDir(Last(b))
      BY <3>1 DEF OnFile, OnDir
    <3>4. b # <<>> => \A h : h = Last(b) => Ready(j, h)'
      BY <3>1, <3>2, <3>3 DEF Ready
    <3> HIDE DEF b
    <3> QED
      BY <1>2, <2>4, <3>1, <3>4
  <2> HIDE DEF g
  <2>5. CASE stack'[j] = <<g>>
    <3>1. <<g>> = Append(<<>>, g) /\ Last(<<g>>) = g
      BY OneCall
    <3>2. \A d \in DOMAIN Append(<<>>, g) : Sound(j, Append(<<>>, g)[d])
      <4>1. DOMAIN <<>> = {}
        OBVIOUS
      <4> QED
        BY <2>3, <4>1, EmptyIsSeq, SoundAppend
    <3>3. \A d \in DOMAIN stack'[j] : Sound(j, stack'[j][d])
      BY <2>5, <3>1, <3>2, Zenon
    <3>4. \A h : h = Last(stack'[j]) => Ready(j, h)'
      BY <2>3, <2>5, <3>1
    <3>5. Front(stack'[j]) = <<>>
      <4>1. Front(Append(<<>>, g)) = <<>>
        BY EmptyIsSeq, Appended
      <4> QED
        BY <2>5, <3>1, <4>1, Zenon
    <3> QED
      BY <3>3, <3>4, <3>5
  <2> QED
    BY <2>1, <2>4, <2>5
<1>7. ASSUME NEW g, Sound(j, g), Ready(j, g)', g.at # "verify", Become(j, g)
      PROVE  /\ \A d \in DOMAIN stack'[j] : Sound(j, stack'[j][d])
             /\ \A h : h = Last(stack'[j]) => Ready(j, h)' /\ h.at # "verify"
  <2>1. stack'[j] = Append(b, g)
    BY <1>1, <1>7 DEF Become
  <2>2. \A d \in DOMAIN Append(b, g) : Sound(j, Append(b, g)[d])
    BY <1>2, <1>7, SoundAppend
  <2>3. Last(Append(b, g)) = g
    BY <1>2, Appended
  <2> QED
    BY <1>7, <2>1, <2>2, <2>3
<1>8. ASSUME NEW f, NEW g, Sound(j, f), Sound(j, g), Ready(j, g)', g.at # "verify",
             stack' = [stack EXCEPT ![j] = Front(@) \o <<f, g>>]
      PROVE  /\ \A d \in DOMAIN stack'[j] : Sound(j, stack'[j][d])
             /\ \A h : h = Last(stack'[j]) => Ready(j, h)' /\ h.at # "verify"
  <2>1. PICK s : s = b \o <<f, g>>
    OBVIOUS
  <2>2. stack'[j] = s
    BY <1>1, <1>8, <2>1
  <2>3. s = Append(Append(b, f), g)
    BY <1>2, <2>1, TwoCalls
  <2>4. PICK t : t = Append(b, f) /\ IsSeq(t) /\ \A d \in DOMAIN t : Sound(j, t[d])
    BY <1>2, <1>8, Appended, SoundAppend
  <2>5. \A d \in DOMAIN Append(t, g) : Sound(j, Append(t, g)[d])
    BY <1>8, <2>4, SoundAppend
  <2>6. Last(Append(t, g)) = g
    BY <2>4, Appended
  <2> QED
    BY <1>8, <2>2, <2>3, <2>4, <2>5, <2>6
<1> QED
  BY <1>5, <1>6, <1>7, <1>8 DEF Advances

\* The inductive invariant of jobs that lose nothing: calls that write beside the
\* source only, and the files of the source in place.
THEOREM KeepInvariant ==
  ASSUME StatBelieved, OneJob, ApartPlans
  PROVE  Spec => []KeepIInv
<1> DEFINE Free == \A j \in Jobs : TargetFree(j)
<1>1. Init => KeepIInv
  <2> SUFFICES ASSUME Init, NEW j \in Jobs
               PROVE  SoundCalls(j) /\ ReadyCall(j) /\ SourceKept(j) /\ Admitted(j)
    BY DEF KeepIInv
  <2>1. stack[j] = <<>> /\ DOMAIN <<>> = {}
    BY DEF Init
  <2>2. SourceKept(j)
    BY DEF Init, SourceKept, Stands
  <2>3. Admitted(j)
    BY DEF Init, Admitted
  <2> QED
    BY <2>1, <2>2, <2>3 DEF SoundCalls, ReadyCall
<1>2. WalkIInv /\ Free /\ KeepIInv /\ [Next]_vars => KeepIInv'
  <2> SUFFICES ASSUME WalkIInv, Free, KeepIInv, [Next]_vars, NEW j \in Jobs
               PROVE  (SoundCalls(j) /\ ReadyCall(j) /\ SourceKept(j) /\ Admitted(j))'
    BY DEF KeepIInv
  <2>1. SoundCalls(j) /\ ReadyCall(j) /\ SourceKept(j) /\ Admitted(j) /\ TargetFree(j)
    BY DEF KeepIInv
  <2>2. UNCHANGED <<fs, plan, brokenOff>> => SourceKept(j)'
    BY <2>1 DEF SourceKept, Stands, Moved, Broken
  <2>3. CASE UNCHANGED <<fs, plan, outcome, stack, brokenOff>>
    <3>1. \A g : (Sound(j, g)' <=> Sound(j, g)) /\ (Ready(j, g)' <=> Ready(j, g))
      BY <2>3 DEF Sound, Corresponds, Beside, Ready, Broken, Files, FilesAt, SourceOf
    <3> QED
      BY <2>1, <2>2, <2>3, <3>1 DEF SoundCalls, ReadyCall, Top, Admitted
  <2>4. CASE Step(j)
    <3>1. /\ stack[j] # <<>> /\ UNCHANGED plan
          /\ Sound(j, Top(j))
      BY <2>1, <2>4, StepDoes, TopSound DEF Records
    <3>2. outcome[j] # "idle"
      BY <3>1 DEF WalkIInv, TypeOK
    <3>3. Accepts(plan[j].from, plan[j].to)
      BY <2>1, <3>2 DEF Admitted
    <3>4. Advances(j) /\ SourceKept(j)'
      BY <2>1, <2>4, <3>1, <3>3, StatBelieved, StepAdvances, StepSpares
    <3> QED
      BY <2>1, <3>1, <3>3, <3>4, AdvancesSound DEF Admitted, Accepts
  <2>5. CASE StartCopy(j) \/ Retry(j)
    <3> DEFINE f == Frame(plan[j].from, plan[j].to)
    <3>1. /\ stack' = [stack EXCEPT ![j] = <<f>>] /\ UNCHANGED <<fs, plan, brokenOff>>
          /\ Accepts(plan[j].from, plan[j].to)
      BY <2>1, <2>5 DEF StartCopy, Retry, Admitted
    <3>2. /\ f.at = "enter" /\ f.from = plan[j].from /\ f.target = plan[j].to /\ ~f.dir
          /\ f.to = plan[j].to /\ f.todo = {}
      BY DEF Frame
    <3>3. IsSeq(plan[j].to) /\ IsSeq(plan[j].from)
      BY PathsAssumption DEF WalkIInv, TypeOK, IsSeq
    <3> HIDE DEF f
    <3>4. Corresponds(j, f.from, f.target)
      BY <3>2, <3>3, SourceCorresponds
    <3>5. ~OnFile(f) /\ ~OnDir(f)
      BY <3>2 DEF OnFile, OnDir
    <3>6. Sound(j, f)
      BY <3>1, <3>2, <3>4 DEF Sound, FileSteps, Aimed, Accepts
    <3>7. Sound(j, f) /\ \A g : g = f => Ready(j, g)'
      BY <3>2, <3>5, <3>6 DEF Ready
    <3>8. stack'[j] = <<f>>
      BY <3>1 DEF WalkIInv
    <3>9. <<f>> = Append(<<>>, f) /\ Last(<<f>>) = f
      BY OneCall
    <3>10. \A d \in DOMAIN Append(<<>>, f) : Sound(j, Append(<<>>, f)[d])
      <4>1. DOMAIN <<>> = {}
        OBVIOUS
      <4> QED
        BY <3>7, <4>1, EmptyIsSeq, SoundAppend
    <3>11. \A g : Sound(j, g)' <=> Sound(j, g)
      BY <3>1 DEF Sound, Corresponds, Beside
    <3>12. SoundCalls(j)'
      BY <3>8, <3>9, <3>10, <3>11 DEF SoundCalls
    <3>13. ReadyCall(j)'
      <4>1. Top(j)' = f
        BY <3>8, <3>9 DEF Top
      <4> QED
        BY <3>2, <3>7, <4>1 DEF ReadyCall
    <3> QED
      BY <2>2, <3>1, <3>12, <3>13 DEF Admitted, Accepts
  <2>6. CASE Cancel(j)
    BY <2>3, <2>6 DEF Cancel
  <2> QED
    BY <2>3, <2>4, <2>5, <2>6, OneJob DEF Next, AtRest, OneJob, vars
<1> HIDE DEF Free
<1>3. Spec => []Free
  BY StatBelieved, OneJob, TargetInvariant DEF Free
<1> QED
  BY <1>1, <1>2, <1>3, WalkInvariant, PTL DEF Spec

\* A copy, and the move of a file, loses nothing: at every moment each file of the
\* source is somewhere, whole, across failures, cancellation and retry
\* (copy.go:185-196, 265-290); but for a file a move stored a torn copy of without
\* being told.
THEOREM NothingIsLost ==
  ASSUME StatBelieved, OneJob, ApartPlans
  PROVE  Spec => []NothingLost
<1>1. WalkIInv /\ KeepIInv => NothingLost
  <2> SUFFICES ASSUME WalkIInv, KeepIInv, NEW j \in Jobs, NEW p \in FilesAt(SourceOf(j))
               PROVE  \/ \E q \in DOMAIN fs : Tree[p].data \in DataIn(q)
                      \/ \E k \in Jobs : plan[k].move /\ <<k, p>> \in brokenOff
    BY DEF NothingLost
  <2>1. /\ \A q \in DOMAIN fs : Exists(q) /\ q # Root /\ TypeOf(q) = fs[q].type
        /\ Tree[p].type = "file"
        /\ Stands(p) \/ Moved(j, p)
    <3>1. \A q \in DOMAIN fs : Exists(q) /\ q # Root /\ TypeOf(q) = fs[q].type
      BY DEF WalkIInv, TypeOK, Exists, TypeOf
    <3>2. p \in DOMAIN Tree /\ Within(plan[j].from, p) /\ Tree[p].type = "file"
      BY DEF FilesAt, SourceOf
    <3> QED
      BY <3>1, <3>2 DEF KeepIInv, SourceKept
  <2>2. CASE Stands(p)
    <3>1. p \in DOMAIN fs /\ fs[p].type = "file" /\ fs[p].data = Tree[p].data
      BY <2>1, <2>2 DEF Stands
    <3> QED
      BY <2>1, <3>1 DEF DataIn
  <2>3. CASE Moved(j, p)
    BY <2>1, <2>3 DEF Moved, DataIn, Broken
  <2> QED
    BY <2>1, <2>2, <2>3
<1> QED
  BY <1>1, KeepInvariant, WalkInvariant, PTL

------------------------------------------------------------------------------
(* A job that reports no trouble has landed its files                      *)

\* A target is the place of one entry.
LEMMA OnePlace ==
  ASSUME NEW j, NEW s, IsSeq(s), NEW t, IsSeq(t), NEW u, IsSeq(plan[j].from),
         Within(plan[j].from, s), Within(plan[j].from, t),
         Corresponds(j, s, u), Corresponds(j, t, u), IsSeq(u), IsSeq(plan[j].to)
  PROVE  s = t
<1> DEFINE m == Len(plan[j].from)
           n == Len(plan[j].to)
<1>1. /\ m \in Nat /\ n \in Nat /\ Len(s) \in Nat /\ Len(t) \in Nat /\ Len(u) \in Nat
  BY Shortened
<1>2. /\ m <= Len(s) /\ \A i \in 1 .. m : plan[j].from[i] = s[i]
      /\ m <= Len(t) /\ \A i \in 1 .. m : plan[j].from[i] = t[i]
  BY WithinMeans
<1>3. /\ Len(u) + m = Len(s) + n /\ \A i \in 1 .. Len(s) - m : u[n + i] = s[m + i]
      /\ Len(u) + m = Len(t) + n /\ \A i \in 1 .. Len(t) - m : u[n + i] = t[m + i]
  BY DEF Corresponds
<1> HIDE DEF m, n
<1>4. Len(s) = Len(t)
  BY <1>1, <1>3
<1>5. ASSUME NEW i \in 1 .. Len(s)
      PROVE  s[i] = t[i]
  <2>1. CASE i \in 1 .. m
    BY <1>2, <2>1 DEF m
  <2>2. CASE ~(i \in 1 .. m)
    <3>1. PICK k \in 1 .. Len(s) - m : i = m + k
      <4>1. i - m \in 1 .. Len(s) - m /\ i = m + (i - m)
        BY <1>1, <2>2
      <4> QED
        BY <4>1
    <3> QED
      BY <1>3, <1>4, <3>1
  <2> QED
    BY <2>1, <2>2
<1> QED
  BY <1>4, <1>5, SameSeq

LEMMA SourceInTree ==
  ASSUME WalkIInv, ApartPlans, NEW j \in Jobs, SourceKept(j), plan[j].from # Root,
         NEW p \in Files(j)
  PROVE  /\ plan[j].from \in DOMAIN Tree /\ p \in DOMAIN Tree /\ Tree[p].type = "file"
         /\ IsSeq(p) /\ Within(plan[j].from, p)
<1>1. IsSeq(plan[j].from)
  BY PathsAssumption DEF WalkIInv, TypeOK, IsSeq
<1>2. /\ p \in DOMAIN Tree /\ Tree[p].type = "file" /\ Within(plan[j].from, p) /\ IsSeq(p)
  BY PathsAssumption DEF Files, FilesAt, SourceOf, IsSeq
<1>3. plan[j].from # p => plan[j].from \in DOMAIN Tree
  BY <1>1, WithinItself, <1>2, FolderOfFile
<1> QED
  BY <1>2, <1>3

\* What has landed stays where it is, unless the job notes an error or ends, or a
\* second copy that replaces it breaks off in silence.
LEMMA LandedStays ==
  ASSUME WalkIInv, ApartPlans, NEW j \in Jobs, Step(j),
         Sound(j, Top(j)), ReadyCall(j), SourceKept(j), TargetFree(j),
         Accepts(plan[j].from, plan[j].to),
         NEW p \in Files(j), Landed(j, p), ~stats'[j].errs, outcome'[j] # "canceled"
  PROVE  Copied(j, p)'
<1> DEFINE from == plan[j].from
           f == Top(j)
<1>1. stack[j] # <<>> /\ UNCHANGED plan
  BY StepDoes DEF Records
<1>2. /\ IsSeq(from) /\ IsSeq(plan[j].to) /\ Framed(from, f) /\ Ready(j, f) /\ Sound(j, f)
  BY <1>1, CallAt DEF ReadyCall
<1>3. \A at : At(j, at) => f.at = at
  BY DEF At
<1>4. PICK q \in DOMAIN fs : /\ ~Within(from, q) /\ fs[q].type = "file" /\ fs[q].data = Tree[p].data
                             /\ plan[j].policy = "replace" => Corresponds(j, p, q)
  BY DEF Landed
<1> HIDE DEF f, from
<1>5. SUFFICES \/ q \in DOMAIN fs' /\ fs'[q].type = "file" /\ fs'[q].data = Tree[p].data
               \/ Broken(j, p)'
  <2>1. Corresponds(j, p, q) <=> Corresponds(j, p, q)'
    BY <1>1 DEF Corresponds
  <2> QED
    BY <1>1, <1>4, <2>1 DEF Copied, Landed, from
<1>6. CASE UNCHANGED fs
  BY <1>4, <1>6
<1>7. CASE Upload(j)
  <2>0. PICK d : /\ d \in {Top(j).data, Torn} /\ Put(Top(j).target, File(d))
                 /\ d = Torn => <<j, Top(j).from>> \in brokenOff'
    BY <1>7 DEF Upload, Arrives
  <2>1. /\ f.at = "upload" /\ Put(f.target, File(d)) /\ d \in {f.data, Torn}
        /\ d = Torn => <<j, f.from>> \in brokenOff'
    BY <1>3, <1>7, <2>0 DEF Upload, f
  <2>2. CASE q # f.target
    BY <1>4, <2>1, <2>2 DEF Put
  <2>3. CASE q = f.target
    <3>1. plan[j].policy = "replace"
      BY <1>1, <1>4, <2>1, <2>3 DEF TargetFree, Late, f
    <3>2. /\ IsSeq(q) /\ IsSeq(f.from) /\ Within(from, f.from) /\ IsSeq(p) /\ Within(from, p)
          /\ Corresponds(j, f.from, q)
      <4>1. IsSeq(p) /\ Within(from, p)
        BY PathsAssumption DEF Files, FilesAt, SourceOf, IsSeq, from
      <4> QED
        BY <1>2, <2>3, <3>1, <4>1 DEF Framed, Sound
    <3>3. f.from = p
      BY <1>2, <1>4, <3>1, <3>2, OnePlace DEF from
    <3>4. f.data \in {Tree[p].data, Torn}
      BY <1>2, <2>1, <3>3 DEF Ready
    <3> QED
      BY <2>1, <2>3, <3>3, <3>4 DEF Put, File, Broken
  <2> QED
    BY <2>2, <2>3
<1>8. CASE UploadFails(j)
  <2>1. CASE GiveUp(j)
    BY <2>1 DEF GiveUp, AddErr, Count, WalkIInv, TypeOK
  <2>2. CASE End(j, "canceled")
    BY <2>2 DEF End, WalkIInv, TypeOK
  <2> QED
    BY <1>8, <2>1, <2>2 DEF UploadFails, CopyFileFails
<1>9. CASE Mkdir(j)
  BY <1>4, <1>9 DEF Mkdir, CanMkdir, Exists, Put
<1>10. CASE RemoveFile(j)
  <2>1. f.from = from /\ Delete({f.from})
    BY <1>2, <1>3, <1>10 DEF RemoveFile, Sound, f, from
  <2>2. q # from
    BY <1>2, <1>4, WithinItself
  <2> QED
    BY <1>4, <2>1, <2>2 DEF Delete
<1>11. ~RemoveTree(j) /\ ~RemoveTreeFails(j)
  BY <1>2, <1>3 DEF RemoveTree, RemoveTreeFails, Sound, FileSteps
<1> QED
  BY <1>6, <1>7, <1>8, <1>9, <1>10, <1>11
     DEF Step, Abort, Enter, EnterFails, ProbeFolder, ProbeOther, ProbeDir, ProbeDirFails,
         ResolveNew, ResolveExisting, UniqueTaken, UniqueFree, Download, DownloadFails,
         RemoveFileFails, MkdirFails, ListFolder, ListFails, Descend, PassOver, ChildrenDone,
         Finish

\* The upload of a file in hand lands it, or breaks off in silence.
LEMMA UploadLands ==
  ASSUME WalkIInv, ApartPlans, NEW j \in Jobs, Upload(j), stack[j] # <<>>,
         Sound(j, Top(j)), ReadyCall(j), SourceKept(j), Accepts(plan[j].from, plan[j].to),
         NEW p \in Files(j), InHand(Top(j), p)
  PROVE  Copied(j, p)'
<1> DEFINE f == Top(j)
<1>10. PICK d : /\ d \in {Top(j).data, Torn} /\ Put(Top(j).target, File(d))
                /\ d = Torn => <<j, Top(j).from>> \in brokenOff'
  BY DEF Upload, Arrives
<1>1. /\ Ready(j, f) /\ f.at = "upload" /\ UNCHANGED plan
      /\ Put(f.target, File(d)) /\ d \in {f.data, Torn}
      /\ d = Torn => <<j, f.from>> \in brokenOff'
  BY <1>10 DEF ReadyCall, Upload, At
<1>2. f.from = p
  BY <1>1 DEF Ready, OnFile, InHand
<1>3. d = Tree[p].data \/ Broken(j, p)'
  BY <1>1, <1>2 DEF Ready, Broken
<1>4. ~Within(plan[j].from, f.target)
  <2>1. plan[j].from \in DOMAIN Tree
    BY SourceInTree DEF Accepts
  <2> QED
    BY <1>1, <2>1 DEF Sound, Aimed, Beside
<1>5. plan[j].policy = "replace" => Corresponds(j, p, f.target)
  BY <1>2 DEF Sound
<1> HIDE DEF f
<1>6. PICK q : q = f.target
  OBVIOUS
<1>7. \/ q \in DOMAIN fs' /\ fs'[q].type = "file" /\ fs'[q].data = Tree[p].data
      \/ Broken(j, p)'
  BY <1>1, <1>3, <1>6 DEF Put, File
<1>8. ~Within(plan'[j].from, q)
  BY <1>1, <1>4, <1>6
<1>9. plan'[j].policy = "replace" => Corresponds(j, p, q)'
  BY <1>1, <1>5, <1>6 DEF Corresponds
<1> QED
  BY <1>7, <1>8, <1>9 DEF Landed, Copied

LEMMA WaitsAppend ==
  ASSUME NEW s, IsSeq(s), NEW x, NEW p
  PROVE  Waits(Append(s, x), p) <=> Waits(s, p) \/ Holds(x, p)
<1>1. PICK t : t = Append(s, x)
  OBVIOUS
<1>2. /\ Len(s) \in Nat /\ DOMAIN s = 1 .. Len(s) /\ DOMAIN t = 1 .. Len(s) + 1
      /\ t[Len(s) + 1] = x /\ \A i \in 1 .. Len(s) : t[i] = s[i]
  BY <1>1, Appended, Shortened
<1>3. \A d \in DOMAIN t : d \in 1 .. Len(s) \/ d = Len(s) + 1
  BY <1>2
<1>4. DOMAIN s \subseteq DOMAIN t /\ Len(s) + 1 \in DOMAIN t
  BY <1>2
<1>5. Waits(t, p) <=> Waits(s, p) \/ Holds(x, p)
  BY <1>2, <1>3, <1>4 DEF Waits
<1> QED
  BY <1>1, <1>5

\* The calls of a job below the innermost, and the innermost, have a file.
LEMMA PendingMeans ==
  ASSUME WalkIInv, NEW j \in Jobs, stack[j] # <<>>, NEW p
  PROVE  Pending(j, p) <=> Waits(Front(stack[j]), p) \/ InHand(Top(j), p) \/ Holds(Top(j), p)
<1>1. IsSeq(Front(stack[j])) /\ stack[j] = Append(Front(stack[j]), Top(j))
  BY CallAt, Shortened DEF Opened
<1>2. PICK s : s = Front(stack[j])
  OBVIOUS
<1>3. Waits(Append(s, Top(j)), p) <=> Waits(s, p) \/ Holds(Top(j), p)
  BY <1>1, <1>2, WaitsAppend
<1> QED
  BY <1>1, <1>2, <1>3 DEF Pending

\* A call that returns leaves the files the ones below it have; one that goes
\* on, or calls, passes on its own.
LEMMA ReturnPasses ==
  ASSUME WalkIInv, NEW j \in Jobs, stack[j] # <<>>, NEW p, Pending(j, p),
         ~InHand(Top(j), p), ~Holds(Top(j), p), Pop(j)
  PROVE  Pending(j, p)'
<1> DEFINE b == Front(stack[j])
           g == [Top(j) EXCEPT !.at = "verify"]
<1>1. Waits(b, p)
  BY PendingMeans
<1>2. stack'[j] = IF Len(stack[j]) > 1 THEN b ELSE <<g>>
  BY CallAt DEF Pop
<1>3. Len(stack[j]) = Len(b) + 1 /\ IsSeq(b) /\ Len(b) \in Nat /\ DOMAIN b = 1 .. Len(b)
  <2>1. IsSeq(stack[j]) /\ IsSeq(b)
    BY CallAt DEF Opened
  <2> QED
    BY <2>1, Shortened
<1>4. Len(b) # 0
  <2>1. Len(b) = 0 => DOMAIN b = {}
    BY <1>3
  <2> QED
    BY <1>1, <2>1 DEF Waits
<1>5. stack'[j] = b
  BY <1>2, <1>3, <1>4
<1>6. b # <<>>
  BY <1>3, <1>4, EmptyMeans
<1> QED
  BY <1>1, <1>5, <1>6 DEF Pending

LEMMA TurnPasses ==
  ASSUME WalkIInv, NEW j \in Jobs, stack[j] # <<>>, NEW p, Pending(j, p),
         NEW g, Become(j, g),
         InHand(Top(j), p) \/ Holds(Top(j), p) => InHand(g, p) \/ Holds(g, p)
  PROVE  Pending(j, p)'
<1>1. PICK b : b = Front(stack[j]) /\ IsSeq(b)
  BY CallAt DEF Opened
<1>2. stack'[j] = Append(b, g)
  BY <1>1, CallAt DEF Become
<1>3. Waits(b, p) \/ InHand(g, p) \/ Holds(g, p)
  BY <1>1, PendingMeans
<1>4. PICK t : t = Append(b, g)
  OBVIOUS
<1>5. Waits(t, p) <=> Waits(b, p) \/ Holds(g, p)
  BY <1>1, <1>4, WaitsAppend
<1>6. t # <<>> /\ Last(t) = g
  BY <1>1, <1>4, Appended
<1> QED
  BY <1>2, <1>3, <1>4, <1>5, <1>6 DEF Pending, Top

LEMMA CallPasses ==
  ASSUME WalkIInv, NEW j \in Jobs, stack[j] # <<>>, NEW p, Pending(j, p),
         NEW g, NEW h, stack' = [stack EXCEPT ![j] = Front(@) \o <<g, h>>],
         InHand(Top(j), p) \/ Holds(Top(j), p) => Holds(g, p) \/ InHand(h, p)
  PROVE  Pending(j, p)'
<1>1. PICK b : b = Front(stack[j]) /\ IsSeq(b)
  BY CallAt DEF Opened
<1>2. PICK t : t = Append(b, g)
  OBVIOUS
<1>3. PICK u : u = Append(t, h)
  OBVIOUS
<1>4. stack'[j] = u
  <2>1. stack'[j] = b \o <<g, h>>
    BY <1>1, CallAt
  <2> QED
    BY <1>1, <1>2, <1>3, <2>1, TwoCalls
<1>5. Waits(b, p) \/ Holds(g, p) \/ InHand(h, p)
  BY <1>1, PendingMeans
<1>6. IsSeq(t) /\ (Waits(t, p) <=> Waits(b, p) \/ Holds(g, p))
  BY <1>1, <1>2, Appended, WaitsAppend
<1>7. Waits(u, p) <=> Waits(t, p) \/ Holds(h, p)
  BY <1>3, <1>6, WaitsAppend
<1>8. u # <<>> /\ Last(u) = h
  BY <1>3, <1>6, Appended
<1> QED
  BY <1>4, <1>5, <1>6, <1>7, <1>8 DEF Pending, Top

\* The folder of a file has, among its entries, the one the file is within.
LEMMA ListHasIt ==
  ASSUME WalkIInv, ApartPlans, NEW j \in Jobs, ~plan[j].move, SourceKept(j),
         plan[j].from # Root, NEW p \in Files(j), NEW s, IsSeq(s),
         Within(plan[j].from, s), Within(s, p), s # p
  PROVE  \E q \in Children(s) : Within(q, p)
<1> DEFINE n == Len(s) + 1
<1>1. IsSeq(p) /\ p \in DOMAIN Tree /\ Within(plan[j].from, p) /\ IsSeq(plan[j].from)
  BY SourceInTree, PathsAssumption DEF WalkIInv, TypeOK, IsSeq
<1>2. Len(s) \in Nat /\ Len(p) \in Nat /\ Len(s) <= Len(p) /\ \A i \in 1 .. Len(s) : s[i] = p[i]
  BY <1>1, Shortened, WithinMeans
<1>3. Len(s) # Len(p)
  BY <1>1, <1>2, SameSeq
<1>4. n \in Nat /\ n <= Len(p) /\ 1 <= n
  BY <1>2, <1>3
<1>5. PICK q : q = SubSeq(p, 1, n)
  OBVIOUS
<1>6. IsSeq(q) /\ Len(q) = n /\ \A i \in 1 .. n : q[i] = p[i]
  <2>1. p \in Seq(ToSet(p)) /\ \A i \in 1 .. n : p[i] \in ToSet(p)
    BY <1>1, <1>4, ElementOfSeq DEF IsSeq
  <2>2. /\ SubSeq(p, 1, n) \in Seq(ToSet(p)) /\ Len(SubSeq(p, 1, n)) = n
        /\ \A i \in 1 .. n : SubSeq(p, 1, n)[i] = p[i]
    BY <1>4, <2>1, SubSeqProperties
  <2> QED
    BY <1>5, <2>2, AnySet
<1> HIDE DEF n
<1>7. Within(q, p)
  BY <1>1, <1>4, <1>6, WithinMeans
<1>8. Len(q) = Len(s) + 1 /\ Within(s, q)
  <2>1. \A i \in 1 .. Len(s) : s[i] = q[i]
    BY <1>2, <1>6 DEF n
  <2>2. Len(q) = Len(s) + 1 /\ Len(s) <= Len(q)
    BY <1>2, <1>6 DEF n
  <2> QED
    BY <1>6, <2>1, <2>2, WithinMeans
<1>9. q \in DOMAIN Tree
  <2>1. CASE n = Len(p)
    BY <1>1, <1>6, <2>1, SameSeq
  <2>2. CASE n # Len(p)
    <3>1. n \in 1 .. Len(p) - 1
      BY <1>2, <1>4, <2>2
    <3> QED
      BY <1>1, <1>5, <3>1, TreeAssumption
  <2> QED
    BY <2>1, <2>2
<1>10. Within(plan[j].from, q)
  BY <1>1, <1>6, <1>8, WithinWithin
<1>11. q \in DOMAIN fs
  BY <1>9, <1>10 DEF SourceKept, Stands, Moved
<1> QED
  BY <1>7, <1>8, <1>11 DEF Children, Within

\* What a job notes stays noted while it runs.
LEMMA CountsStay ==
  ASSUME WalkIInv, NEW j \in Jobs, NEW field \in {"items", "skipped", "errs"}, Count(j, field)
  PROVE  /\ stats'[j][field]
         /\ stats[j].errs => stats'[j].errs
         /\ stats[j].skipped => stats'[j].skipped
<1>1. stats[j] \in [items : BOOLEAN, skipped : BOOLEAN, errs : BOOLEAN]
  BY DEF WalkIInv, TypeOK
<1>2. PICK r : r = stats[j] /\ r \in [items : BOOLEAN, skipped : BOOLEAN, errs : BOOLEAN]
  BY <1>1
<1>3. stats'[j] = [r EXCEPT ![field] = TRUE]
  BY <1>2 DEF Count, WalkIInv, TypeOK
<1>4. CASE field = "items"
  BY <1>2, <1>3, <1>4
<1>5. CASE field = "skipped"
  BY <1>2, <1>3, <1>5
<1>6. CASE field = "errs"
  BY <1>2, <1>3, <1>6
<1> QED
  BY <1>4, <1>5, <1>6

\* A step that gives an entry up, or ends the job early, leaves no clean record.
LEMMA GiveUpSpoils ==
  ASSUME WalkIInv, NEW j \in Jobs, GiveUp(j) \/ Count(j, "skipped")
  PROVE  ~Spotless(j)'
BY CountsStay DEF GiveUp, AddErr, Spotless

LEMMA EndSpoils ==
  ASSUME WalkIInv, NEW j \in Jobs, End(j, "canceled")
  PROVE  outcome'[j] = "canceled"
BY DEF End, WalkIInv, TypeOK

LEMMA CopyFailsSpoils ==
  ASSUME WalkIInv, NEW j \in Jobs, CopyFileFails(j)
  PROVE  ~Spotless(j)' \/ outcome'[j] = "canceled"
BY GiveUpSpoils, EndSpoils DEF CopyFileFails

\* A clean record after a step was clean before.
LEMMA WasSpotless ==
  ASSUME WalkIInv, NEW j \in Jobs, Step(j), Spotless(j)'
  PROVE  Spotless(j)
<1>1. UNCHANGED stats \/ \E field \in {"items", "skipped", "errs"} : Count(j, field)
        \/ stats' = [stats EXCEPT ![j].errs = TRUE, ![j].skipped = TRUE]
        \/ stats' = [stats EXCEPT ![j].items = TRUE, ![j].errs = TRUE]
  BY DEF Step, Abort, Enter, EnterFails, ProbeFolder, ProbeOther, ProbeDir, ProbeDirFails,
         ResolveNew, ResolveExisting, UniqueTaken, UniqueFree, Download, DownloadFails, Upload,
         UploadFails, RemoveFile, RemoveFileFails, Mkdir, MkdirFails, ListFolder, ListFails,
         Descend, PassOver, ChildrenDone, RemoveTree, RemoveTreeFails, Finish,
         GiveUp, AddErr, CopyFileFails
<1>2. CASE UNCHANGED stats
  BY <1>2 DEF Spotless
<1>3. CASE \E field \in {"items", "skipped", "errs"} : Count(j, field)
  BY <1>3, CountsStay DEF Spotless
<1>4. stats \in [Jobs -> [items : BOOLEAN, skipped : BOOLEAN, errs : BOOLEAN]]
  BY DEF WalkIInv, TypeOK
<1>5. CASE stats' = [stats EXCEPT ![j].errs = TRUE, ![j].skipped = TRUE]
  <2>1. stats'[j].errs
    BY <1>4, <1>5
  <2> QED
    BY <2>1 DEF Spotless
<1>6. CASE stats' = [stats EXCEPT ![j].items = TRUE, ![j].errs = TRUE]
  <2>1. stats'[j].errs
    BY <1>4, <1>6
  <2> QED
    BY <2>1 DEF Spotless
<1> QED
  BY <1>1, <1>2, <1>3, <1>5, <1>6

\* A job that completes has noted no error.
LEMMA StepCompletes ==
  ASSUME WalkIInv, NEW j \in Jobs, Step(j), outcome'[j] = "completed"
  PROVE  ~stats'[j].errs
<1>1. CASE Finish(j)
  <2>1. CASE End(j, Result(j, FALSE))
    BY <2>1 DEF End, Result, WalkIInv, TypeOK
  <2> QED
    BY <1>1, <2>1 DEF Finish
<1>2. CASE ~Finish(j)
  <2>1. outcome[j] = "running"
    BY StepDoes DEF WalkIInv, TypeOK
  <2>2. UNCHANGED outcome \/ End(j, "canceled")
    BY <1>2 DEF Step, Abort, Enter, EnterFails, ProbeFolder, ProbeOther, ProbeDir, ProbeDirFails,
         ResolveNew, ResolveExisting, UniqueTaken, UniqueFree, Download, DownloadFails, Upload,
         UploadFails, RemoveFile, RemoveFileFails, Mkdir, MkdirFails, ListFolder, ListFails,
         Descend, PassOver, ChildrenDone, RemoveTree, RemoveTreeFails, CopyFileFails, Same
  <2> QED
    BY <2>1, <2>2, EndSpoils
<1> QED
  BY <1>1, <1>2

\* A step passes on what is to be copied, lands it, or spoils the record.
LEMMA StepCovers ==
  ASSUME WalkIInv, ApartPlans, NEW j \in Jobs, Step(j),
         Sound(j, Top(j)), ReadyCall(j), SourceKept(j), TargetFree(j),
         Accepts(plan[j].from, plan[j].to),
         Spotless(j)', outcome'[j] # "canceled",
         NEW p \in Files(j), Pending(j, p)
  PROVE  Copied(j, p)' \/ Pending(j, p)'
<1> DEFINE f == Top(j)
<1>1. stack[j] # <<>> /\ UNCHANGED plan /\ Framed(plan[j].from, f)
  BY StepDoes, CallAt DEF Records
<1>2. Ready(j, f) /\ f = Fields(f)
  BY <1>1 DEF ReadyCall, Framed
<1>3. \A at : At(j, at) => f.at = at
  BY DEF At
<1>4. plan[j].move => f.at \in FileSteps
  BY DEF Sound
<1>5. ASSUME NEW g, Become(j, g), f.at \in Active, g.at \in Active, g.from = f.from
      PROVE  Pending(j, p)'
  <2>1. InHand(f, p) \/ Holds(f, p) => InHand(g, p)
    BY <1>5 DEF InHand, Holds, Active
  <2> QED
    BY <1>1, <1>5, <2>1, TurnPasses
<1>6. ASSUME NEW at \in Active, Goto(j, at), f.at \in Active
      PROVE  Pending(j, p)'
  BY <1>1, <1>5, <1>6, GoesWith
<1>7. ASSUME Pop(j), f.at \notin Active, f.at # "children" \/ f.todo = {}
      PROVE  Pending(j, p)'
  BY <1>1, <1>7, ReturnPasses DEF InHand, Holds
<1> HIDE DEF f
<1>8. ~GiveUp(j) /\ ~Count(j, "skipped") /\ ~CopyFileFails(j) /\ ~End(j, "canceled")
  BY GiveUpSpoils, EndSpoils, CopyFailsSpoils
<1>9. ~Abort(j) /\ ~EnterFails(j) /\ ~ProbeFolder(j) /\ ~DownloadFails(j) /\ ~UploadFails(j)
      /\ ~MkdirFails(j) /\ ~ListFails(j) /\ ~RemoveTreeFails(j)
      /\ \A q : ~PassOver(j, q)
  BY <1>8 DEF Abort, EnterFails, ProbeFolder, DownloadFails, UploadFails, MkdirFails, ListFails,
              RemoveTreeFails, PassOver
<1>10. ~RemoveFileFails(j)
  BY DEF RemoveFileFails, Spotless, WalkIInv, TypeOK
<1>11. CASE Enter(j)
  <2>1. stats' # [stats EXCEPT ![j].errs = TRUE, ![j].skipped = TRUE]
    BY DEF Spotless, WalkIInv, TypeOK
  <2> QED
    BY <1>3, <1>6, <1>11, <2>1 DEF Enter, Active
<1>12. CASE ProbeOther(j)
  BY <1>3, <1>6, <1>12 DEF ProbeOther, Active
<1>13. CASE ProbeDir(j)
  <2>1. PICK g : g = [f EXCEPT !.at = "unique", !.dir = TRUE]
    OBVIOUS
  <2>2. g.at = "unique" /\ g.from = f.from
    BY <1>2, <2>1 DEF Fields
  <2>3. f.at = "probeDir" /\ (Become(j, g) \/ Goto(j, "list"))
    BY <1>3, <1>8, <1>13, <2>1 DEF ProbeDir, f
  <2> QED
    BY <1>5, <1>6, <2>2, <2>3 DEF Active
<1>14. CASE ProbeDirFails(j)
  <2>1. PICK g : g = [f EXCEPT !.at = "resolve", !.dir = TRUE]
    OBVIOUS
  <2>2. g.at = "resolve" /\ g.from = f.from
    BY <1>2, <2>1 DEF Fields
  <2>3. f.at = "probeDir" /\ Become(j, g)
    BY <1>3, <1>14, <2>1 DEF ProbeDirFails, f
  <2> QED
    BY <1>5, <2>2, <2>3 DEF Active
<1>15. Transfer(j) \in Active
  BY DEF Transfer, Active
<1>16. CASE ResolveNew(j)
  <2>1. PICK g : g = [f EXCEPT !.at = Transfer(j), !.target = f.target]
    OBVIOUS
  <2>2. g.at = Transfer(j) /\ g.from = f.from
    BY <1>2, <2>1 DEF Fields
  <2>3. f.at = "resolve" /\ Become(j, g)
    BY <1>3, <1>16, <2>1 DEF ResolveNew, f
  <2> QED
    BY <1>5, <1>15, <2>2, <2>3 DEF Active
<1>17. CASE ResolveExisting(j)
  <2>1. PICK g : g = [f EXCEPT !.at = "mkdir", !.target = Root]
    OBVIOUS
  <2>2. g.at = "mkdir" /\ g.from = f.from
    BY <1>2, <2>1 DEF Fields
  <2>3. f.at = "resolve" /\ (Become(j, g) \/ Goto(j, Transfer(j)) \/ Goto(j, "unique"))
    BY <1>3, <1>8, <1>17, <2>1 DEF ResolveExisting, f
  <2> QED
    BY <1>5, <1>6, <1>15, <2>2, <2>3 DEF Active
<1>18. CASE UniqueTaken(j)
  <2>1. PICK g : g = [f EXCEPT !.num = @ + 1]
    OBVIOUS
  <2>2. g.at = f.at /\ g.from = f.from
    BY <1>2, <2>1 DEF Fields
  <2>3. f.at = "unique" /\ Become(j, g)
    BY <1>3, <1>18, <2>1 DEF UniqueTaken, f
  <2> QED
    BY <1>5, <2>2, <2>3 DEF Active
<1>19. CASE UniqueFree(j)
  <2>1. PICK cand : cand = Numbered(f.to, f.num)
    OBVIOUS
  <2>2. PICK g : g = [f EXCEPT !.at = Transfer(j), !.target = cand, !.num = 1]
    OBVIOUS
  <2>3. g.at = Transfer(j) /\ g.from = f.from
    BY <1>2, <2>2 DEF Fields
  <2>4. f.at = "unique" /\ Become(j, g)
    BY <1>3, <1>19, <2>1, <2>2 DEF UniqueFree, f
  <2> QED
    BY <1>5, <1>15, <2>3, <2>4 DEF Active
<1>20. CASE Download(j)
  <2>1. PICK data : Become(j, [f EXCEPT !.at = "upload", !.data = data])
    BY <1>20 DEF Download, f
  <2>2. PICK g : g = [f EXCEPT !.at = "upload", !.data = data]
    OBVIOUS
  <2>3. g.at = "upload" /\ g.from = f.from
    BY <1>2, <2>2 DEF Fields
  <2>4. f.at = "download" /\ Become(j, g)
    BY <1>3, <1>20, <2>1, <2>2 DEF Download, f
  <2> QED
    BY <1>5, <2>3, <2>4 DEF Active
<1>21. CASE Upload(j)
  <2>1. CASE InHand(f, p)
    BY <1>1, <1>21, <2>1, UploadLands DEF f
  <2>2. CASE ~InHand(f, p)
    <3>1. ~Holds(f, p) /\ f.at = "upload"
      BY <1>3, <1>21 DEF Upload, Holds
    <3>2. CASE Pop(j)
      BY <1>1, <2>2, <3>1, <3>2, ReturnPasses DEF f
    <3>3. CASE Goto(j, "removeFile")
      <4>1. PICK g : Become(j, g)
        BY <1>1, <3>3, GoesWith
      <4> QED
        BY <1>1, <2>2, <3>1, <4>1, TurnPasses DEF f
    <3> QED
      BY <1>21, <3>2, <3>3 DEF Upload
  <2> QED
    BY <2>1, <2>2
<1>22. CASE RemoveFile(j)
  BY <1>3, <1>7, <1>22 DEF RemoveFile, Active
<1>23. CASE Mkdir(j)
  BY <1>3, <1>6, <1>23 DEF Mkdir, Active
<1>24. CASE ListFolder(j)
  <2>1. PICK rest : rest = Children(f.from)
    OBVIOUS
  <2>2. PICK g : g = [f EXCEPT !.at = "children", !.todo = rest]
    OBVIOUS
  <2>3. g.at = "children" /\ g.todo = rest
    BY <1>2, <2>2 DEF Fields
  <2>4. f.at = "list" /\ Become(j, g)
    BY <1>3, <1>24, <2>1, <2>2 DEF ListFolder, f
  <2>5. ASSUME InHand(f, p)
        PROVE  Holds(g, p)
    <3>1. f.from # p
      BY <1>2, <2>4 DEF Ready, OnDir
    <3>2. ~plan[j].move
      BY <1>4, <2>4 DEF FileSteps
    <3>3. \E q \in Children(f.from) : Within(q, p)
      BY <1>1, <2>5, <3>1, <3>2, ListHasIt DEF InHand, Framed, Accepts
    <3> QED
      BY <2>1, <2>3, <3>3 DEF Holds
  <2>6. ~Holds(f, p)
    BY <2>4 DEF Holds
  <2> QED
    BY <1>1, <2>4, <2>5, <2>6, TurnPasses DEF f
<1>25. ASSUME NEW q \in Listed(j), Descend(j, q)
       PROVE  Pending(j, p)'
  <2>1. PICK g : g = [f EXCEPT !.todo = f.todo \ {q}]
    OBVIOUS
  <2>2. PICK h : h = Frame(q, Append(f.target, Last(q)))
    OBVIOUS
  <2>3. f.at = "children" /\ g.at = "children" /\ g.todo = f.todo \ {q}
    BY <1>2, <1>3, <1>25, <2>1 DEF Descend, Fields
  <2>4. h.at = "enter" /\ h.from = q
    BY <2>2 DEF Frame
  <2>5. stack' = [stack EXCEPT ![j] = Front(@) \o <<g, h>>]
    BY <1>25, <2>1, <2>2 DEF Descend, f
  <2>6. InHand(f, p) \/ Holds(f, p) => Holds(g, p) \/ InHand(h, p)
    BY <2>3, <2>4 DEF InHand, Holds, Active
  <2> QED
    BY <1>1, <2>5, <2>6, CallPasses DEF f
<1>26. CASE ChildrenDone(j)
  <2>1. f.at = "children" /\ f.todo = {} /\ ~plan[j].move
    BY <1>3, <1>4, <1>26 DEF ChildrenDone, FileSteps, f
  <2>2. Pop(j)
    BY <1>26, <2>1 DEF ChildrenDone, RemovesSource
  <2> QED
    BY <1>7, <2>1, <2>2 DEF Active
<1>27. ~RemoveTree(j)
  BY <1>3 DEF RemoveTree, Sound, FileSteps, f
<1>28. ~Finish(j)
  <2> SUFFICES ASSUME Finish(j)
               PROVE  FALSE
    OBVIOUS
  <2>1. f.at = "verify"
    BY <1>3 DEF Finish
  <2>2. Front(stack[j]) = <<>>
    BY <1>1, <2>1 DEF ReadyCall, f
  <2>3. ~Waits(<<>>, p)
    <3>1. DOMAIN <<>> = {}
      OBVIOUS
    <3> QED
      BY <3>1 DEF Waits
  <2>4. ~InHand(f, p) /\ ~Holds(f, p)
    BY <2>1 DEF InHand, Holds, Active
  <2> QED
    BY <1>1, <2>2, <2>3, <2>4, PendingMeans DEF f
<1> QED
  BY <1>9, <1>10, <1>11, <1>12, <1>13, <1>14, <1>16, <1>17, <1>18, <1>19, <1>20, <1>21, <1>22,
     <1>23, <1>24, <1>25, <1>26, <1>27, <1>28 DEF Step

\* As long as it has noted nothing, a running job has landed a file or still has
\* it to do; and it completes with all of them landed, but for those of which a
\* copy broke off in silence.
THEOREM CoverInvariant ==
  ASSUME StatBelieved, OneJob, ApartPlans
  PROVE  Spec => [](\A j \in Jobs : Covered(j))
<1> DEFINE Free  == \A j \in Jobs : TargetFree(j)
           Cover == \A j \in Jobs : Covered(j)
<1>1. Init => Cover
  BY DEF Init, Covered
<1>2. WalkIInv /\ WalkIInv' /\ Free /\ KeepIInv /\ Cover /\ [Next]_vars => Cover'
  <2> SUFFICES ASSUME WalkIInv, WalkIInv', Free, KeepIInv, Cover, [Next]_vars, NEW j \in Jobs
               PROVE  Covered(j)'
    OBVIOUS
  <2>1. /\ SoundCalls(j) /\ ReadyCall(j) /\ SourceKept(j) /\ Admitted(j)
        /\ TargetFree(j) /\ Covered(j)
    BY DEF KeepIInv
  <2>2. UNCHANGED plan => Files(j)' = Files(j)
    BY DEF Files, FilesAt, SourceOf
  <2>3. CASE UNCHANGED <<fs, plan, outcome, stack, stats, brokenOff>>
    <3>1. \A p : (Copied(j, p)' <=> Copied(j, p)) /\ (Pending(j, p)' <=> Pending(j, p))
      BY <2>3 DEF Copied, Broken, Landed, Corresponds, Pending, Top
    <3> QED
      BY <2>1, <2>2, <2>3, <3>1 DEF Covered, Spotless
  <2>4. CASE Step(j)
    <3>1. stack[j] # <<>> /\ UNCHANGED plan /\ Sound(j, Top(j))
      BY <2>1, <2>4, StepDoes, TopSound DEF Records
    <3>2. outcome[j] = "running"
      BY <3>1 DEF WalkIInv, TypeOK
    <3>3. Accepts(plan[j].from, plan[j].to)
      BY <2>1, <3>2 DEF Admitted
    <3>4. ASSUME Spotless(j)', outcome'[j] # "canceled", NEW p \in Files(j)
          PROVE  Copied(j, p)' \/ Pending(j, p)'
      <4>1. Landed(j, p) \/ Broken(j, p) \/ Pending(j, p)
        BY <2>1, <2>4, <3>2, <3>4, WasSpotless DEF Covered, Copied
      <4>2. CASE Landed(j, p)
        BY <2>1, <2>4, <3>1, <3>3, <3>4, <4>2, LandedStays DEF Spotless
      <4>3. CASE Pending(j, p)
        BY <2>1, <2>4, <3>1, <3>3, <3>4, <4>3, StepCovers
      <4>4. CASE Broken(j, p)
        BY <4>4, BrokenStays DEF Copied
      <4> QED
        BY <4>1, <4>2, <4>3, <4>4
    <3>5. outcome'[j] = "completed" => ~stats'[j].errs /\ \A p : ~Pending(j, p)'
      BY <2>4, StepCompletes DEF WalkIInv, TypeOK, Pending
    <3> QED
      BY <2>2, <3>1, <3>4, <3>5 DEF Covered
  <2>5. CASE StartCopy(j) \/ Retry(j)
    <3> DEFINE f == Frame(plan[j].from, plan[j].to)
    <3>1. /\ stack' = [stack EXCEPT ![j] = <<f>>] /\ UNCHANGED plan
          /\ outcome'[j] = "running"
      BY <2>5 DEF StartCopy, Retry, WalkIInv, TypeOK
    <3>2. f.at = "enter" /\ f.from = plan[j].from
      BY DEF Frame
    <3> HIDE DEF f
    <3>3. stack'[j] = Append(<<>>, f)
      BY <3>1, OneCall DEF WalkIInv
    <3>4. stack'[j] # <<>> /\ Last(stack'[j]) = f
      <4>1. Append(<<>>, f) # <<>> /\ Last(Append(<<>>, f)) = f
        BY EmptyIsSeq, Appended
      <4> QED
        BY <3>3, <4>1, Zenon
    <3>5. \A p \in Files(j) : Pending(j, p)'
      BY <3>2, <3>4 DEF Pending, Top, InHand, Active, Files, FilesAt, SourceOf
    <3> QED
      BY <2>2, <3>1, <3>5 DEF Covered
  <2>6. CASE Cancel(j)
    BY <2>3, <2>6 DEF Cancel
  <2> QED
    BY <2>3, <2>4, <2>5, <2>6, OneJob DEF Next, AtRest, OneJob, vars
<1> HIDE DEF Free, Cover
<1>3. Spec => []Free
  BY StatBelieved, OneJob, TargetInvariant DEF Free
<1>4. Spec => []KeepIInv
  BY StatBelieved, OneJob, ApartPlans, KeepInvariant
<1>5. Spec => []Cover
  BY <1>1, <1>2, <1>3, <1>4, WalkInvariant, PTL DEF Spec
<1> QED
  BY <1>5 DEF Cover

\* A copy, or the move of a file, that is reported completed and skipped nothing
\* has landed every file of its source outside of it, whole, on a retry too
\* (copy.go:123-143), but for the files of which a copy broke off in silence.
THEOREM CompletedIsCopied ==
  ASSUME StatBelieved, OneJob, ApartPlans
  PROVE  Spec => []CompletedMeansCopied
<1> DEFINE Cover == \A j \in Jobs : Covered(j)
<1>1. WalkIInv /\ Cover => CompletedMeansCopied
  <2> SUFFICES ASSUME WalkIInv, NEW j \in Jobs, Covered(j),
                      outcome[j] = "completed", ~stats[j].skipped,
                      NEW p \in FilesAt(SourceOf(j))
               PROVE  Tree[p].data \in DataOutside(j) \/ <<j, p>> \in brokenOff
    BY DEF CompletedMeansCopied
  <2>1. CASE Broken(j, p)
    BY <2>1 DEF Broken
  <2> SUFFICES ASSUME Landed(j, p)
               PROVE  Tree[p].data \in DataOutside(j)
    BY <2>1 DEF Covered, Spotless, Copied, Files
  <2>2. PICK q \in DOMAIN fs : /\ ~Within(plan[j].from, q)
                               /\ fs[q].type = "file" /\ fs[q].data = Tree[p].data
    BY DEF Landed
  <2>3. Exists(q) /\ q # Root /\ TypeOf(q) = "file"
    BY <2>2 DEF WalkIInv, TypeOK, Exists, TypeOf
  <2>4. Tree[p].data \in DataIn(q)
    BY <2>2, <2>3 DEF DataIn
  <2> QED
    BY <2>2, <2>4 DEF DataOutside
<1> HIDE DEF Cover
<1>2. Spec => []Cover
  BY StatBelieved, OneJob, ApartPlans, CoverInvariant DEF Cover
<1> QED
  BY <1>1, <1>2, WalkInvariant, PTL
------------------------------------------------------------------------------
(* A search finds all there is                                             *)

\* The search goes on.
Walking == {"check", "list"}
\* The client still waits, and the limit on folders was not met.
Unlimited == ~ aborted /\ dirs < MaxDirs

\* The paths of a sequence of paths.
IsPathSeq(s) == IsSeq(s) /\ \A p \in ToSet(s) : IsSeq(p)

SearchTypes ==
  /\ query \in Queries
  /\ phase \in Walking \cup {"idle", "complete", "canceled"}
  /\ IsPathSeq(todo) /\ IsPathSeq(results)
  /\ dirs \in Nat /\ dirs <= MaxDirs
  /\ \A p \in lasting : IsSeq(p)
  /\ phase = "idle" => todo = <<>> /\ results = <<>>
  /\ phase = "list" => todo # <<>>

\* No path is to be listed twice or was found twice, and nothing found so far lies
\* below a folder that is still to be listed.
EachOnce ==
  /\ IsInjective(todo) /\ IsInjective(results)
  /\ phase \in Walking =>
       \A d \in ToSet(todo), p \in ToSet(todo) \cup ToSet(results) : ~ IsStrictPrefix(d, p)

\* A match that was in view all along is found, or below a folder still to be listed.
Ahead(p) == \E d \in ToSet(todo) : Within(query.path, d) /\ IsStrictPrefix(d, p)
StillAhead ==
  phase \in Walking =>
    \A p \in lasting :
      /\ InView(p)
      /\ Unlimited /\ Matches(p) => p \in ToSet(results) \/ Ahead(p)

\* The answer says so only when nothing is ahead any more.
AllFound ==
  phase = "complete" /\ Len(results) < query.max /\ dirs < MaxDirs =>
    \A p \in lasting : Matches(p) => p \in ToSet(results)

SearchIInv ==
  WalkIInv /\ IsFiniteSet(DOMAIN fs) /\ SearchTypes /\ EachOnce /\ StillAhead /\ AllFound

------------------------------------------------------------------------------
(* Sequences of distinct elements                                          *)

\* What a sequence is, element by element.
LEMMA SeqMeans ==
  ASSUME NEW s, IsSeq(s)
  PROVE  /\ Len(s) \in Nat /\ DOMAIN s = 1 .. Len(s)
         /\ ToSet(s) = {s[i] : i \in 1 .. Len(s)}
<1>1. Len(s) \in Nat /\ DOMAIN s = 1 .. Len(s)
  BY LenProperties DEF IsSeq
<1> QED
  BY <1>1 DEF ToSet

\* A sequence of all elements of a finite set, each once.
LEMMA Shuffled ==
  ASSUME NEW S, IsFiniteSet(S), NEW s \in SetToSeqs(S)
  PROVE  IsSeq(s) /\ ToSet(s) = S /\ IsInjective(s)
<1> DEFINE n == Cardinality(S)
<1>1. n \in Nat
  BY FS_CardinalityType
<1>2. s \in [1 .. n -> S] /\ \A i, j \in 1 .. n : i # j => s[i] # s[j]
  BY DEF SetToSeqs
<1>3. IsInjective(s) /\ s \in Injection(1 .. n, S)
  BY <1>2 DEF IsInjective, Injection
<1>4. IsFiniteSet(1 .. n) /\ Cardinality(1 .. n) = n
  BY <1>1, FS_Interval
<1>5. s \in Surjection(1 .. n, S)
  BY <1>3, <1>4, FS_Injection
<1>6. \A x \in S : \E i \in 1 .. n : s[i] = x
  BY <1>5 DEF Surjection
<1>7. s \in Seq(S)
  BY <1>1, <1>2, SeqDef
<1>8. IsSeq(s)
  BY <1>7, AnySet
<1>9. ToSet(s) = S
  BY <1>2, <1>6 DEF ToSet
<1> QED
  BY <1>3, <1>8, <1>9

\* Two sequences in a row.
LEMMA Joined ==
  ASSUME NEW s, IsSeq(s), NEW t, IsSeq(t)
  PROVE  /\ IsSeq(s \o t) /\ Len(s \o t) = Len(s) + Len(t)
         /\ ToSet(s \o t) = ToSet(s) \cup ToSet(t)
         /\ IsInjective(s) /\ IsInjective(t) /\ ToSet(s) \cap ToSet(t) = {}
              => IsInjective(s \o t)
<1> DEFINE A == ToSet(s) \cup ToSet(t)
           u == s \o t
<1>1. s \in Seq(A) /\ t \in Seq(A)
  BY SeqMonotonic DEF IsSeq
<1>2. /\ u \in Seq(A) /\ Len(u) = Len(s) + Len(t)
      /\ \A i \in 1 .. Len(s) + Len(t) : u[i] = IF i <= Len(s) THEN s[i] ELSE t[i - Len(s)]
  BY <1>1, ConcatProperties
<1>3. IsSeq(u)
  BY <1>2, AnySet
<1>4. /\ Len(s) \in Nat /\ DOMAIN s = 1 .. Len(s) /\ ToSet(s) = {s[i] : i \in 1 .. Len(s)}
      /\ Len(t) \in Nat /\ DOMAIN t = 1 .. Len(t) /\ ToSet(t) = {t[i] : i \in 1 .. Len(t)}
      /\ DOMAIN u = 1 .. Len(s) + Len(t) /\ ToSet(u) = {u[i] : i \in 1 .. Len(s) + Len(t)}
  BY <1>2, <1>3, SeqMeans
<1> HIDE DEF u, A
<1>5. \A i \in 1 .. Len(s) : u[i] = s[i]
  BY <1>2, <1>4
<1>6. \A i \in 1 .. Len(t) : i + Len(s) \in 1 .. Len(s) + Len(t) /\ u[i + Len(s)] = t[i]
  <2> TAKE i \in 1 .. Len(t)
  <2>1. i + Len(s) \in 1 .. Len(s) + Len(t) /\ ~ (i + Len(s) <= Len(s)) /\ (i + Len(s)) - Len(s) = i
    BY <1>4
  <2> QED
    BY <1>2, <2>1
<1>7. \A i \in 1 .. Len(s) + Len(t) :
        \/ i \in 1 .. Len(s) /\ u[i] = s[i]
        \/ i - Len(s) \in 1 .. Len(t) /\ u[i] = t[i - Len(s)]
  BY <1>2, <1>4
<1>8. ToSet(u) = ToSet(s) \cup ToSet(t)
  <2>1. ToSet(u) \subseteq ToSet(s) \cup ToSet(t)
    BY <1>4, <1>7
  <2>2. ToSet(s) \subseteq ToSet(u)
    BY <1>4, <1>5
  <2>3. ToSet(t) \subseteq ToSet(u)
    BY <1>4, <1>6
  <2> QED
    BY <2>1, <2>2, <2>3
<1>9. ASSUME IsInjective(s), IsInjective(t), ToSet(s) \cap ToSet(t) = {}
      PROVE  IsInjective(u)
  <2> SUFFICES ASSUME NEW i \in 1 .. Len(s) + Len(t), NEW k \in 1 .. Len(s) + Len(t), u[i] = u[k]
               PROVE  i = k
    BY <1>4 DEF IsInjective
  <2>1. CASE i \in 1 .. Len(s) /\ k \in 1 .. Len(s)
    BY <1>4, <1>5, <1>9, <2>1 DEF IsInjective
  <2>2. CASE i - Len(s) \in 1 .. Len(t) /\ k - Len(s) \in 1 .. Len(t)
    <3>1. u[i] = t[i - Len(s)] /\ u[k] = t[k - Len(s)]
      BY <1>4, <1>6, <2>2
    <3>2. i - Len(s) = k - Len(s)
      BY <1>4, <1>9, <2>2, <3>1 DEF IsInjective
    <3> QED
      BY <1>4, <3>2
  <2>3. ASSUME NEW a \in 1 .. Len(s), NEW b \in 1 .. Len(t), s[a] = t[b]
        PROVE  FALSE
    BY <1>4, <1>9, <2>3
  <2> QED
    BY <1>4, <1>7, <2>1, <2>2, <2>3
<1> QED
  BY <1>2, <1>3, <1>8, <1>9 DEF u

\* The first n elements of a sequence.
LEMMA Cut ==
  ASSUME NEW s, IsSeq(s), NEW n \in Nat, n <= Len(s)
  PROVE  /\ IsSeq(SubSeq(s, 1, n)) /\ Len(SubSeq(s, 1, n)) = n
         /\ \A i \in 1 .. n : SubSeq(s, 1, n)[i] = s[i]
         /\ ToSet(SubSeq(s, 1, n)) \subseteq ToSet(s)
         /\ IsInjective(s) => IsInjective(SubSeq(s, 1, n))
         /\ n = Len(s) => SubSeq(s, 1, n) = s
<1> DEFINE A == ToSet(s)
           u == SubSeq(s, 1, n)
<1>1. s \in Seq(A) /\ Len(s) \in Nat /\ DOMAIN s = 1 .. Len(s) /\ A = {s[i] : i \in 1 .. Len(s)}
  BY SeqMeans DEF IsSeq
<1> HIDE DEF A
<1>2. \A i \in 1 .. n : s[i] \in A
  BY <1>1
<1>3. u \in Seq(A) /\ Len(u) = n /\ \A i \in 1 .. n : u[i] = s[i]
  BY <1>2, SubSeqProperties
<1>4. n = Len(s) => u = s
  BY <1>1, SubSeqFull
<1> HIDE DEF u
<1>5. IsSeq(u)
  BY <1>3, AnySet
<1>6. DOMAIN u = 1 .. n /\ ToSet(u) = {u[i] : i \in 1 .. n}
  BY <1>3, <1>5, SeqMeans
<1>7. ToSet(u) \subseteq A
  BY <1>1, <1>3, <1>6
<1>8. IsInjective(s) => IsInjective(u)
  BY <1>1, <1>3, <1>6 DEF IsInjective
<1> QED
  BY <1>3, <1>4, <1>5, <1>7, <1>8 DEF u, A

\* A sequence without its first element.
LEMMA Shifted ==
  ASSUME NEW s, IsSeq(s), s # <<>>
  PROVE  /\ IsSeq(Tail(s)) /\ Head(s) \in ToSet(s)
         /\ ToSet(Tail(s)) \subseteq ToSet(s) /\ ToSet(s) \subseteq ToSet(Tail(s)) \cup {Head(s)}
         /\ IsInjective(s) => IsInjective(Tail(s)) /\ Head(s) \notin ToSet(Tail(s))
<1> DEFINE A == ToSet(s)
           u == Tail(s)
<1>1. s \in Seq(A) /\ Len(s) \in Nat /\ DOMAIN s = 1 .. Len(s) /\ A = {s[i] : i \in 1 .. Len(s)}
  BY SeqMeans DEF IsSeq
<1>2. Len(s) >= 1
  <2>1. Len(s) \in Nat \ {0}
    BY <1>1, EmptySeq
  <2> QED
    BY <2>1
<1>3. u \in Seq(A) /\ Len(u) = Len(s) - 1 /\ \A i \in 1 .. Len(u) : u[i] = s[i + 1]
  BY <1>1, HeadTailProperties
<1>4. IsSeq(u)
  BY <1>3, AnySet
<1>5. DOMAIN u = 1 .. Len(u) /\ ToSet(u) = {u[i] : i \in 1 .. Len(u)}
  BY <1>4, SeqMeans
<1>6. Head(s) = s[1]
  BY <1>1, <1>2
<1> HIDE DEF u, A
<1>7. ToSet(u) \subseteq A
  BY <1>1, <1>2, <1>3, <1>5
<1>8. \A i \in 1 .. Len(s) : i = 1 \/ (i - 1 \in 1 .. Len(u) /\ u[i - 1] = s[i])
  <2> TAKE i \in 1 .. Len(s)
  <2>1. CASE i # 1
    <3>1. i - 1 \in 1 .. Len(u) /\ (i - 1) + 1 = i
      BY <1>1, <1>2, <1>3, <2>1
    <3> QED
      BY <1>3, <3>1
  <2> QED
    BY <2>1
<1>9. A \subseteq ToSet(u) \cup {s[1]}
  <2> SUFFICES ASSUME NEW x \in A, x # s[1]
               PROVE  x \in ToSet(u)
    OBVIOUS
  <2>1. PICK i \in 1 .. Len(s) : x = s[i]
    BY <1>1
  <2>2. i - 1 \in 1 .. Len(u) /\ u[i - 1] = x
    BY <1>8, <2>1
  <2> QED
    BY <1>5, <2>2
<1>10. s[1] \in A
  BY <1>1, <1>2
<1>11. ASSUME IsInjective(s)
       PROVE  IsInjective(u) /\ s[1] \notin ToSet(u)
  <2>1. \A i, k \in 1 .. Len(u) : i + 1 \in 1 .. Len(s) /\ k + 1 \in 1 .. Len(s) /\ i + 1 # 1
    BY <1>1, <1>2, <1>3
  <2>2. \A i, k \in 1 .. Len(u) : u[i] = u[k] => i = k
    <3> TAKE i, k \in 1 .. Len(u)
    <3> HAVE u[i] = u[k]
    <3>1. i + 1 = k + 1
      BY <1>1, <1>3, <1>11, <2>1 DEF IsInjective
    <3> QED
      BY <1>3, <3>1
  <2>3. \A i \in 1 .. Len(u) : u[i] # s[1]
    <3> TAKE i \in 1 .. Len(u)
    <3>1. u[i] = s[i + 1] /\ i + 1 \in 1 .. Len(s) /\ i + 1 # 1 /\ 1 \in 1 .. Len(s)
      BY <1>1, <1>2, <1>3, <2>1
    <3> QED
      BY <1>1, <1>11, <3>1 DEF IsInjective
  <2> QED
    BY <1>5, <2>2, <2>3 DEF IsInjective
<1> QED
  BY <1>4, <1>6, <1>7, <1>9, <1>10, <1>11 DEF u, A

------------------------------------------------------------------------------
(* Paths and what lies below them                                          *)

\* The entry of d on the way to p.
Towards(d, p) == SubSeq(p, 1, Len(d) + 1)

\* To be strictly above is to be within and shorter.
LEMMA StrictlyMeans ==
  ASSUME NEW d, IsSeq(d), NEW p, IsSeq(p)
  PROVE  IsStrictPrefix(d, p) <=> Len(d) < Len(p) /\ Within(d, p)
<1>1. Len(d) \in Nat /\ Len(p) \in Nat
  BY SeqMeans
<1>2. Within(d, p) <=> Len(d) <= Len(p) /\ \A i \in 1 .. Len(d) : d[i] = p[i]
  BY WithinMeans
<1>3. Within(d, p) /\ Len(d) = Len(p) => d = p
  <2>1. d \in Seq(ToSet(d) \cup ToSet(p)) /\ p \in Seq(ToSet(d) \cup ToSet(p))
    BY SeqMonotonic DEF IsSeq
  <2> QED
    BY <1>2, <2>1, SeqEqual
<1> QED
  BY <1>1, <1>2, <1>3 DEF IsStrictPrefix, Within

\* Below d, the way to p goes by one entry of d.
LEMMA OnTheWay ==
  ASSUME NEW d, IsSeq(d), NEW p, IsSeq(p), IsStrictPrefix(d, p)
  PROVE  /\ IsSeq(Towards(d, p)) /\ Len(Towards(d, p)) = Len(d) + 1
         /\ Within(d, Towards(d, p)) /\ Within(Towards(d, p), p)
         /\ Last(Towards(d, p)) = p[Len(d) + 1]
         /\ Len(d) + 1 = Len(p) => Towards(d, p) = p
         /\ Len(d) + 1 # Len(p) => IsStrictPrefix(Towards(d, p), p) /\ Len(d) + 1 < Len(p)
<1> DEFINE c == Towards(d, p)
<1>1. Len(d) \in Nat /\ Len(p) \in Nat /\ Len(d) < Len(p) /\ Within(d, p)
  BY SeqMeans, StrictlyMeans
<1>2. \A i \in 1 .. Len(d) : d[i] = p[i]
  BY <1>1, WithinMeans
<1>3. Len(d) + 1 \in Nat /\ Len(d) + 1 <= Len(p)
  BY <1>1
<1>4. /\ IsSeq(c) /\ Len(c) = Len(d) + 1 /\ \A i \in 1 .. Len(d) + 1 : c[i] = p[i]
      /\ Len(d) + 1 = Len(p) => c = p
  BY <1>3, Cut DEF Towards
<1> HIDE DEF c
<1>5. Within(d, c)
  <2>1. Len(d) <= Len(c) /\ \A i \in 1 .. Len(d) : d[i] = c[i]
    BY <1>1, <1>2, <1>4
  <2> QED
    BY <1>4, <2>1, WithinMeans
<1>6. Within(c, p)
  <2>1. Len(c) <= Len(p) /\ \A i \in 1 .. Len(c) : c[i] = p[i]
    BY <1>3, <1>4
  <2> QED
    BY <1>4, <2>1, WithinMeans
<1>7. Last(c) = p[Len(d) + 1]
  BY <1>1, <1>4 DEF Last
<1>8. Len(d) + 1 # Len(p) => Len(d) + 1 < Len(p) /\ IsStrictPrefix(c, p)
  BY <1>1, <1>4, <1>6, StrictlyMeans
<1> QED
  BY <1>4, <1>5, <1>6, <1>7, <1>8 DEF c

\* What is above an entry of d is d or above d.
LEMMA AboveEntry ==
  ASSUME NEW d, IsSeq(d), NEW c, IsSeq(c), Len(c) = Len(d) + 1, Within(d, c),
         NEW x, IsSeq(x), IsStrictPrefix(x, c)
  PROVE  x = d \/ IsStrictPrefix(x, d)
<1>1. Len(d) \in Nat /\ Len(c) \in Nat /\ Len(x) \in Nat /\ Len(x) < Len(c) /\ Within(x, c)
  BY SeqMeans, StrictlyMeans
<1>2. \A i \in 1 .. Len(d) : d[i] = c[i]
  BY WithinMeans
<1>3. \A i \in 1 .. Len(x) : x[i] = c[i]
  BY <1>1, WithinMeans
<1>4. Len(x) <= Len(d) /\ \A i \in 1 .. Len(x) : x[i] = d[i]
  BY <1>1, <1>2, <1>3
<1>5. Within(x, d)
  BY <1>4, WithinMeans
<1> QED
  BY <1>5 DEF IsStrictPrefix, Within

\* What is below an entry of d is below d.
LEMMA BelowEntry ==
  ASSUME NEW d, IsSeq(d), NEW c, IsSeq(c), Len(c) = Len(d) + 1, Within(d, c),
         NEW x, IsSeq(x), Within(c, x)
  PROVE  IsStrictPrefix(d, x)
<1>1. Len(d) \in Nat /\ Len(c) \in Nat /\ Len(x) \in Nat
  BY SeqMeans
<1>2. Within(d, x) /\ Len(c) <= Len(x)
  BY WithinWithin, WithinMeans
<1> QED
  BY <1>1, <1>2, StrictlyMeans

\* Of a path in view, every folder from the start on can be listed and shows the
\* entry on the way to it.
LEMMA ViewMeans ==
  ASSUME query \in Queries, NEW p, IsSeq(p), InView(p),
         NEW d, IsSeq(d), Within(query.path, d), IsStrictPrefix(d, p)
  PROVE  /\ Exists(d) /\ TypeOf(d) = "dir" /\ d \notin unread
         /\ Visible(p[Len(d) + 1]) /\ p \in DOMAIN fs
         /\ query.recursive \/ Len(d) + 1 = Len(p)
<1>1. IsSeq(query.path)
  BY QueriesAssumption DEF IsSeq
<1>2. /\ Len(d) \in Nat /\ Len(p) \in Nat /\ Len(query.path) \in Nat
      /\ Len(d) < Len(p) /\ Within(d, p) /\ Len(query.path) <= Len(d)
  BY <1>1, SeqMeans, StrictlyMeans, WithinMeans
<1>3. Len(d) \in Len(query.path) .. Len(p) - 1
  BY <1>2
<1>4. SubSeq(p, 1, Len(d)) = d
  <2>1. SubSeq(d, 1, Len(d)) = d
    BY Cut, <1>2
  <2> QED
    BY <1>2, <2>1 DEF Within, IsPrefix
<1>5. Exists(d) /\ TypeOf(d) = "dir" /\ d \notin unread /\ Visible(p[Len(d) + 1])
  BY <1>3, <1>4 DEF InView
<1>6. p \in DOMAIN fs
  <2>1. p # <<>>
    BY <1>2, EmptySeq
  <2> QED
    BY <2>1 DEF InView, Exists, Root
<1>7. query.recursive \/ Len(d) + 1 = Len(p)
  BY <1>2 DEF InView
<1> QED
  BY <1>5, <1>6, <1>7

\* The same of what is in view after a step.
LEMMA ViewMeansThen ==
  ASSUME query' \in Queries, NEW p, IsSeq(p), InView(p)',
         NEW d, IsSeq(d), Within(query'.path, d), IsStrictPrefix(d, p)
  PROVE  d \notin unread'
<1>1. IsSeq(query'.path)
  BY QueriesAssumption DEF IsSeq
<1>2. /\ Len(d) \in Nat /\ Len(p) \in Nat /\ Len(query'.path) \in Nat
      /\ Len(d) < Len(p) /\ Within(d, p) /\ Len(query'.path) <= Len(d)
  BY <1>1, SeqMeans, StrictlyMeans, WithinMeans
<1>3. Len(d) \in Len(query'.path) .. Len(p) - 1
  BY <1>2
<1>4. SubSeq(p, 1, Len(d)) = d
  <2>1. SubSeq(d, 1, Len(d)) = d
    BY Cut, <1>2
  <2> QED
    BY <1>2, <2>1 DEF Within, IsPrefix
<1> QED
  BY <1>3, <1>4 DEF InView

------------------------------------------------------------------------------
(* Every step keeps it                                                     *)

\* A job's call puts one entry there or takes some away.
LEMMA StaysFinite ==
  ASSUME WalkIInv, IsFiniteSet(DOMAIN fs), Next
  PROVE  WalkIInv' /\ IsFiniteSet(DOMAIN fs')
<1>1. ASSUME NEW j \in Jobs, Step(j)
      PROVE  IsFiniteSet(DOMAIN fs')
  <2>1. Touches(j)
    BY <1>1, StepDoes
  <2>2. ASSUME NEW p, NEW node, Put(p, node)
        PROVE  IsFiniteSet(DOMAIN fs')
    <3>1. DOMAIN fs' = DOMAIN fs \cup {p}
      BY <2>2 DEF Put
    <3> QED
      BY <3>1, FS_AddElement
  <2>3. ASSUME NEW gone, Delete(gone)
        PROVE  IsFiniteSet(DOMAIN fs')
    <3>1. DOMAIN fs' = DOMAIN fs \ gone
      BY <2>3 DEF Delete
    <3> QED
      BY <3>1, FS_Subset
  <2> QED
    BY <2>1, <2>2, <2>3 DEF Touches
<1>2. ASSUME NEW j \in Jobs, StartCopy(j) \/ Retry(j) \/ Cancel(j)
      PROVE  UNCHANGED fs
  BY <1>2 DEF StartCopy, Retry, Cancel
<1>3. AtRest => UNCHANGED fs
  BY DEF AtRest, vars
<1>4. WalkIInv'
  BY WalkNext
<1> QED
  BY <1>1, <1>2, <1>3, <1>4 DEF Next

\* The jobs and the tree keep what is known of them when neither takes a step.
LEMMA StillWalks ==
  ASSUME WalkIInv, UNCHANGED vars
  PROVE  WalkIInv'
BY WalkNext

\* What is followed only shrinks, and stays in view.
LEMMA Followed ==
  ASSUME Follow
  PROVE  /\ lasting' \subseteq lasting
         /\ phase \in Walking => \A p \in lasting' : InView(p)'
BY DEF Follow, Walking

\* The jobs.
LEMMA JobsKeep ==
  ASSUME SearchIInv, UNCHANGED <<query, walk, unread>>, Next, Follow
  PROVE  SearchIInv'
<1>1. UNCHANGED <<query, phase, todo, dirs, results, aborted, unread>>
  BY DEF walk
<1>2. WalkIInv' /\ IsFiniteSet(DOMAIN fs')
  BY StaysFinite DEF SearchIInv
<1>3. lasting' \subseteq lasting /\ (phase \in Walking => \A p \in lasting' : InView(p)')
  BY Followed
<1>4. SearchTypes'
  BY <1>1, <1>3 DEF SearchIInv, SearchTypes
<1>5. EachOnce'
  BY <1>1 DEF SearchIInv, EachOnce
<1>6. StillAhead'
  BY <1>1, <1>3 DEF SearchIInv, StillAhead, Unlimited, Matches, Ahead
<1>7. AllFound'
  BY <1>1, <1>3 DEF SearchIInv, AllFound, Matches
<1> QED
  BY <1>2, <1>4, <1>5, <1>6, <1>7 DEF SearchIInv

\* The search begins with the folder it is asked for.
LEMMA AskKeeps ==
  ASSUME SearchIInv, UNCHANGED <<vars, query>>, Ask
  PROVE  SearchIInv'
<1>1. /\ phase = "idle" /\ phase' = "check" /\ todo' = <<query.path>> /\ results = <<>>
      /\ UNCHANGED <<query, dirs, results, aborted, unread, fs>>
      /\ lasting' = {p \in DOMAIN fs : InView(p)}
  BY DEF Ask, SearchIInv, SearchTypes, vars
<1>2. WalkIInv' /\ IsFiniteSet(DOMAIN fs')
  BY <1>1, StillWalks DEF SearchIInv
<1>3. IsSeq(query.path)
  BY QueriesAssumption DEF SearchIInv, SearchTypes, IsSeq
<1>4. IsSeq(todo') /\ ToSet(todo') = {query.path} /\ IsInjective(todo')
  <2>1. PICK t : t = <<query.path>>
    OBVIOUS
  <2>2. PICK e : e = <<>>
    OBVIOUS
  <2>3. IsSeq(t) /\ DOMAIN t = 1 .. 1 /\ t[1] = query.path
    <3>1. t = Append(e, query.path) /\ Len(e) = 0 /\ IsSeq(e)
      BY <2>1, <2>2, OneCall, EmptySeq, EmptyIsSeq
    <3>2. /\ IsSeq(Append(e, query.path))
          /\ DOMAIN Append(e, query.path) = 1 .. Len(e) + 1
          /\ Append(e, query.path)[Len(e) + 1] = query.path
      BY <3>1, Appended
    <3> QED
      BY <3>1, <3>2
  <2>4. DOMAIN t = {1}
    BY <2>3
  <2> QED
    BY <1>1, <2>1, <2>3, <2>4 DEF ToSet, IsInjective
<1>5. ToSet(results') = {}
  BY <1>1, EmptyIsSeq, EmptySeq, SeqMeans
<1>6. SearchTypes'
  BY <1>1, <1>3, <1>4 DEF SearchIInv, SearchTypes, IsPathSeq, Walking, WalkIInv
<1>7. EachOnce'
  BY <1>1, <1>4, <1>5 DEF SearchIInv, EachOnce, IsStrictPrefix
<1>8. StillAhead'
  <2>1. \A p \in lasting' : InView(p)'
    BY <1>1 DEF InView, Exists, TypeOf, Visible
  <2>2. \A p \in lasting' : Ahead(p)'
    <3>1. Within(query.path, query.path)
      BY <1>3, WithinItself
    <3>2. \A p \in lasting' : IsStrictPrefix(query.path, p)
      BY <1>1 DEF InView
    <3> QED
      BY <1>1, <1>4, <3>1, <3>2 DEF Ahead
  <2> QED
    BY <2>1, <2>2 DEF StillAhead
<1>9. AllFound'
  BY <1>1 DEF AllFound
<1> QED
  BY <1>2, <1>6, <1>7, <1>8, <1>9 DEF SearchIInv

\* The client leaves, the loop goes on or ends.
LEMMA LoopKeeps ==
  ASSUME SearchIInv, UNCHANGED <<vars, query>>, Abandon \/ Answer \/ Proceed, Follow
  PROVE  SearchIInv'
<1>1. UNCHANGED <<query, todo, dirs, results, unread, fs>>
  BY DEF Abandon, Answer, Proceed, vars
<1>2. WalkIInv' /\ IsFiniteSet(DOMAIN fs')
  BY <1>1, StillWalks DEF SearchIInv
<1>3. phase \in Walking
  BY DEF Abandon, Answer, Proceed, Walking
<1>4. lasting' \subseteq lasting /\ \A p \in lasting' : InView(p)'
  BY <1>3, Followed
<1>5. /\ phase' = "list" => todo # <<>>
      /\ phase' \in Walking \cup {"complete", "canceled"}
      /\ Unlimited' => Unlimited
  BY <1>1 DEF Abandon, Answer, Proceed, Walking, SearchIInv, SearchTypes, Unlimited
<1>6. SearchTypes'
  BY <1>1, <1>4, <1>5 DEF SearchIInv, SearchTypes, Walking
<1>7. EachOnce'
  BY <1>1, <1>3 DEF SearchIInv, EachOnce
<1>8. StillAhead'
  BY <1>1, <1>3, <1>4, <1>5 DEF SearchIInv, StillAhead, Matches, Ahead
<1>9. AllFound'
  <2> SUFFICES ASSUME phase' = "complete", dirs < MaxDirs, NEW p \in lasting', Matches(p)
               PROVE  p \in ToSet(results)
    BY <1>1 DEF AllFound, Matches
  <2>1. ~ aborted /\ todo = <<>>
    BY <1>3 DEF Abandon, Answer, Proceed, Walking
  <2>2. ToSet(todo) = {}
    BY <2>1, EmptyIsSeq, EmptySeq, SeqMeans
  <2> QED
    BY <1>3, <1>4, <2>1, <2>2 DEF SearchIInv, StillAhead, Unlimited, Ahead
<1> QED
  BY <1>2, <1>6, <1>7, <1>8, <1>9 DEF SearchIInv

\* A folder that is passed over hides what is below it, or the answer is "canceled".
LEMMA PassKeeps ==
  ASSUME SearchIInv, UNCHANGED <<vars, query>>, PassFolder, Follow
  PROVE  SearchIInv'
<1>1. /\ UNCHANGED <<query, dirs, results, aborted, fs>>
      /\ phase = "list" /\ phase' = "check" /\ todo' = Tail(todo)
      /\ ~ aborted => Head(todo) \in unread'
  BY DEF PassFolder, vars
<1>2. WalkIInv' /\ IsFiniteSet(DOMAIN fs')
  BY <1>1, StillWalks DEF SearchIInv
<1>3. lasting' \subseteq lasting /\ \A p \in lasting' : InView(p)'
  BY <1>1, Followed DEF Walking
<1>4. todo # <<>> /\ IsSeq(todo) /\ IsInjective(todo) /\ \A p \in ToSet(todo) : IsSeq(p)
  BY <1>1 DEF SearchIInv, SearchTypes, EachOnce, IsPathSeq
<1>5. /\ IsSeq(todo') /\ ToSet(todo') \subseteq ToSet(todo) /\ IsInjective(todo')
      /\ Head(todo) \in ToSet(todo) /\ ToSet(todo) \subseteq ToSet(todo') \cup {Head(todo)}
  BY <1>1, <1>4, Shifted
<1>6. SearchTypes'
  BY <1>1, <1>3, <1>4, <1>5 DEF SearchIInv, SearchTypes, IsPathSeq, Walking
<1>7. EachOnce'
  BY <1>1, <1>5 DEF SearchIInv, EachOnce, Walking
<1>8. StillAhead'
  <2> SUFFICES ASSUME NEW p \in lasting', ~ aborted, dirs < MaxDirs, Matches(p), p \notin ToSet(results)
               PROVE  Ahead(p)'
    BY <1>1, <1>3 DEF StillAhead, Unlimited, Matches
  <2>1. PICK d \in ToSet(todo) : Within(query.path, d) /\ IsStrictPrefix(d, p)
    BY <1>1, <1>3 DEF SearchIInv, StillAhead, Unlimited, Ahead, Walking
  <2>2. d # Head(todo)
    <3>1. query' \in Queries /\ IsSeq(p) /\ IsSeq(d) /\ InView(p)'
      BY <1>1, <1>3, <1>4 DEF SearchIInv, SearchTypes
    <3>2. d \notin unread'
      <4>1. Within(query'.path, d)
        BY <1>1, <2>1
      <4> QED
        BY <2>1, <3>1, <4>1, ViewMeansThen
    <3> QED
      BY <1>1, <3>2
  <2> QED
    BY <1>1, <1>5, <2>1, <2>2 DEF Ahead
<1>9. AllFound'
  BY <1>1 DEF AllFound
<1> QED
  BY <1>2, <1>6, <1>7, <1>8, <1>9 DEF SearchIInv

\* The folder that is listed, and what of it the search sees.
Shown == {p \in Children(Head(todo)) : Visible(Last(p))}
Subdirs == {p \in Shown : query.recursive /\ TypeOf(p) = "dir"}
Matching == {p \in Shown : Matches(p)}

\* What a folder shows is an entry of it, and there are finitely many.
LEMMA ShownMeans ==
  ASSUME WalkIInv, IsFiniteSet(DOMAIN fs)
  PROVE  /\ IsFiniteSet(Subdirs) /\ IsFiniteSet(Matching)
         /\ \A c \in Shown : /\ IsSeq(c) /\ c \in DOMAIN fs
                             /\ Len(c) = Len(Head(todo)) + 1 /\ Within(Head(todo), c)
<1>1. Subdirs \subseteq DOMAIN fs /\ Matching \subseteq DOMAIN fs
  BY DEF Subdirs, Matching, Shown, Children
<1>2. IsFiniteSet(Subdirs) /\ IsFiniteSet(Matching)
  BY <1>1, FS_Subset
<1>3. \A c \in Shown : c \in DOMAIN fs /\ Len(c) = Len(Head(todo)) + 1 /\ Within(Head(todo), c)
  BY DEF Shown, Children, Within
<1> QED
  BY <1>2, <1>3 DEF WalkIInv

\* What is ahead of a folder in the queue is neither queued nor found, and what it
\* shows is not above anything that is.
LEMMA Fresh ==
  ASSUME SearchIInv, phase = "list", NEW c \in Shown
  PROVE  /\ c \notin ToSet(todo) \cup ToSet(results)
         /\ \A x \in ToSet(todo) \cup ToSet(results) : ~ IsStrictPrefix(c, x)
         /\ \A e \in ToSet(todo) \ {Head(todo)} : ~ IsStrictPrefix(e, c)
         /\ \A x \in Shown : ~ IsStrictPrefix(c, x)
<1> DEFINE d == Head(todo)
<1>1. /\ IsSeq(todo) /\ todo # <<>> /\ \A p \in ToSet(todo) \cup ToSet(results) : IsSeq(p)
      /\ \A e \in ToSet(todo), p \in ToSet(todo) \cup ToSet(results) : ~ IsStrictPrefix(e, p)
  BY DEF SearchIInv, SearchTypes, EachOnce, IsPathSeq, Walking
<1>2. d \in ToSet(todo) /\ IsSeq(d)
  BY <1>1, Shifted
<1>3. \A x \in Shown : IsSeq(x) /\ Len(x) = Len(d) + 1 /\ Within(d, x)
  BY ShownMeans DEF SearchIInv
<1> HIDE DEF d
<1>4. IsSeq(c) /\ Len(c) = Len(d) + 1 /\ Within(d, c) /\ Len(d) \in Nat
  BY <1>2, <1>3, SeqMeans
<1>5. IsStrictPrefix(d, c)
  BY <1>2, <1>4, StrictlyMeans
<1>6. c \notin ToSet(todo) \cup ToSet(results)
  BY <1>1, <1>2, <1>5
<1>7. ASSUME NEW x \in ToSet(todo) \cup ToSet(results), IsStrictPrefix(c, x)
      PROVE  FALSE
  <2>1. IsSeq(x) /\ Within(c, x)
    BY <1>1, <1>7 DEF IsStrictPrefix, Within
  <2>2. IsStrictPrefix(d, x)
    BY <1>2, <1>4, <2>1, BelowEntry
  <2> QED
    BY <1>1, <1>2, <2>2
<1>8. ASSUME NEW e \in ToSet(todo), e # d, IsStrictPrefix(e, c)
      PROVE  FALSE
  <2>1. IsStrictPrefix(e, d)
    BY <1>1, <1>2, <1>4, <1>8, AboveEntry
  <2> QED
    BY <1>1, <1>2, <2>1
<1>9. ASSUME NEW x \in Shown, IsStrictPrefix(c, x)
      PROVE  FALSE
  BY <1>3, <1>4, <1>9, StrictlyMeans
<1> QED
  BY <1>6, <1>7, <1>8, <1>9 DEF d

\* The folders of a listing join the queue, its matches the results, or the
\* results are full.
LEMMA ListMeans ==
  ASSUME SearchIInv, ListShows
  PROVE  /\ UNCHANGED <<aborted, unread>> /\ phase = "list"
         /\ \/ /\ phase' = "complete" /\ UNCHANGED <<todo, dirs>>
               /\ IsSeq(results') /\ IsInjective(results') /\ Len(results') >= query.max
               /\ ToSet(results') \subseteq ToSet(results) \cup Matching
            \/ /\ phase' = "check"
               /\ IsSeq(results') /\ IsInjective(results')
               /\ ToSet(results') = ToSet(results) \cup Matching
               /\ IsSeq(todo') /\ IsInjective(todo')
               /\ ToSet(todo') \subseteq ToSet(Tail(todo)) \cup Subdirs
               /\ ToSet(Tail(todo)) \subseteq ToSet(todo')
               /\ dirs' \in Nat /\ dirs <= dirs' /\ dirs' <= MaxDirs
               /\ dirs' < MaxDirs => Subdirs \subseteq ToSet(todo')
<1>1. PICK folders \in SetToSeqs(Subdirs), matches \in SetToSeqs(Matching) :
        TakeEntries(folders, matches)
  BY DEF ListShows, Subdirs, Matching, Shown
<1>2. phase = "list" /\ UNCHANGED <<aborted, unread>>
  BY DEF ListShows
<1>3. /\ IsSeq(folders) /\ ToSet(folders) = Subdirs /\ IsInjective(folders)
      /\ IsSeq(matches) /\ ToSet(matches) = Matching /\ IsInjective(matches)
  BY ShownMeans, Shuffled DEF SearchIInv
<1>4. /\ IsSeq(todo) /\ todo # <<>> /\ IsInjective(todo)
      /\ IsSeq(results) /\ IsInjective(results)
      /\ dirs \in Nat /\ dirs <= MaxDirs /\ MaxDirs \in Nat
      /\ query.max \in Nat \ {0}
  BY <1>2, QueriesAssumption, MaxDirsAssumption
  DEF SearchIInv, SearchTypes, EachOnce, IsPathSeq
<1>5. IsSeq(Tail(todo)) /\ IsInjective(Tail(todo)) /\ ToSet(Tail(todo)) \subseteq ToSet(todo)
  BY <1>4, Shifted
<1>6. \A c \in Subdirs \cup Matching : c \notin ToSet(todo) \cup ToSet(results)
  BY <1>2, Fresh DEF Subdirs, Matching
<1>7. PICK found : found = results \o matches
  OBVIOUS
<1>8. IsSeq(found) /\ ToSet(found) = ToSet(results) \cup Matching /\ IsInjective(found)
  BY <1>3, <1>4, <1>6, <1>7, Joined
<1>9. Len(found) \in Nat /\ Len(folders) \in Nat
  BY <1>3, <1>8, SeqMeans
<1>10. CASE Len(found) >= query.max
  <2>1. phase' = "complete" /\ UNCHANGED <<todo, dirs>> /\ results' = SubSeq(found, 1, query.max)
    BY <1>1, <1>7, <1>10 DEF TakeEntries
  <2>2. /\ IsSeq(results') /\ IsInjective(results') /\ Len(results') = query.max
        /\ ToSet(results') \subseteq ToSet(found)
    BY <1>4, <1>8, <1>9, <1>10, <2>1, Cut
  <2>3. Len(results') >= query.max
    BY <1>4, <2>2
  <2> QED
    BY <1>2, <1>8, <2>1, <2>2, <2>3
<1>11. CASE ~ (Len(found) >= query.max)
  <2>1. PICK room : room = IF Len(folders) < MaxDirs - dirs THEN Len(folders) ELSE MaxDirs - dirs
    OBVIOUS
  <2>2. PICK joining : joining = SubSeq(folders, 1, room)
    OBVIOUS
  <2>3. /\ phase' = "check" /\ results' = found
        /\ todo' = Tail(todo) \o joining /\ dirs' = dirs + room
    BY <1>1, <1>7, <1>11, <2>1, <2>2 DEF TakeEntries
  <2>4. /\ room \in Nat /\ room <= Len(folders)
        /\ dirs' \in Nat /\ dirs <= dirs' /\ dirs' <= MaxDirs
        /\ dirs' < MaxDirs => room = Len(folders)
    BY <1>4, <1>9, <2>1, <2>3
  <2>5. /\ IsSeq(joining) /\ IsInjective(joining) /\ ToSet(joining) \subseteq Subdirs
        /\ room = Len(folders) => joining = folders
    BY <1>3, <2>2, <2>4, Cut
  <2>6. ToSet(Tail(todo)) \cap ToSet(joining) = {}
    BY <1>5, <1>6, <2>5
  <2>7. /\ IsSeq(todo') /\ IsInjective(todo')
        /\ ToSet(todo') = ToSet(Tail(todo)) \cup ToSet(joining)
    BY <1>5, <2>3, <2>5, <2>6, Joined
  <2> QED
    BY <1>2, <1>3, <1>8, <2>3, <2>4, <2>5, <2>7
<1> QED
  BY <1>10, <1>11

\* A folder that is listed hands what is below it on to its entries.
LEMMA HandedOn ==
  ASSUME SearchIInv, phase = "list", NEW p \in lasting,
         Within(query.path, Head(todo)), IsStrictPrefix(Head(todo), p)
  PROVE  \/ p \in Shown
         \/ \E c \in Subdirs : Within(query.path, c) /\ IsStrictPrefix(c, p)
<1> DEFINE d == Head(todo)
           c == Towards(d, p)
<1>1. /\ IsSeq(p) /\ InView(p) /\ query \in Queries /\ IsSeq(todo) /\ todo # <<>>
      /\ \A e \in ToSet(todo) : IsSeq(e)
  BY DEF SearchIInv, SearchTypes, StillAhead, IsPathSeq, Walking
<1>2. IsSeq(d) /\ IsSeq(query.path)
  BY <1>1, Shifted, QueriesAssumption DEF IsSeq
<1> HIDE DEF d
<1>3. /\ Visible(p[Len(d) + 1]) /\ p \in DOMAIN fs
      /\ query.recursive \/ Len(d) + 1 = Len(p)
  BY <1>1, <1>2, ViewMeans DEF d
<1>4. /\ IsSeq(c) /\ Len(c) = Len(d) + 1 /\ Within(d, c) /\ Last(c) = p[Len(d) + 1]
      /\ Len(d) + 1 = Len(p) => c = p
      /\ Len(d) + 1 # Len(p) => IsStrictPrefix(c, p)
  BY <1>1, <1>2, OnTheWay DEF d
<1> HIDE DEF c
<1>5. ASSUME c \in DOMAIN fs
      PROVE  c \in Shown
  BY <1>3, <1>4, <1>5 DEF Shown, Children, Within, d
<1>6. CASE Len(d) + 1 = Len(p)
  BY <1>3, <1>4, <1>5, <1>6
<1>7. CASE Len(d) + 1 # Len(p)
  <2>1. Within(query.path, c)
    BY <1>2, <1>4, WithinWithin DEF d
  <2>2. Exists(c) /\ TypeOf(c) = "dir"
    BY <1>1, <1>4, <1>7, <2>1, ViewMeans
  <2>3. c # <<>>
    BY <1>2, <1>4, EmptySeq, SeqMeans
  <2>4. c \in DOMAIN fs
    BY <2>2, <2>3 DEF Exists, Root
  <2> QED
    BY <1>3, <1>4, <1>5, <1>7, <2>1, <2>2, <2>4 DEF Subdirs
<1> QED
  BY <1>6, <1>7

\* A listing: the case for which the invariant is made.
LEMMA ListKeeps ==
  ASSUME SearchIInv, UNCHANGED <<vars, query>>, ListShows, Follow
  PROVE  SearchIInv'
<1>1. UNCHANGED <<query, fs>>
  BY DEF vars
<1>2. WalkIInv' /\ IsFiniteSet(DOMAIN fs')
  BY <1>1, StillWalks DEF SearchIInv
<1>3. UNCHANGED <<aborted, unread>> /\ phase = "list"
  BY ListMeans
<1>4. lasting' \subseteq lasting /\ \A p \in lasting' : InView(p)'
  BY <1>3, Followed DEF Walking
<1>5. /\ IsSeq(todo) /\ todo # <<>> /\ IsInjective(todo)
      /\ \A p \in ToSet(todo) \cup ToSet(results) : IsSeq(p)
  BY <1>3 DEF SearchIInv, SearchTypes, EachOnce, IsPathSeq
<1>6. /\ ToSet(Tail(todo)) \subseteq ToSet(todo) \ {Head(todo)}
      /\ ToSet(todo) \subseteq ToSet(Tail(todo)) \cup {Head(todo)}
  BY <1>5, Shifted
<1>7. \A c \in Shown : IsSeq(c)
  BY ShownMeans DEF SearchIInv
<1>8. CASE /\ phase' = "complete" /\ UNCHANGED <<todo, dirs>>
           /\ IsSeq(results') /\ IsInjective(results') /\ Len(results') >= query.max
           /\ ToSet(results') \subseteq ToSet(results) \cup Matching
  <2>1. SearchTypes'
    BY <1>1, <1>4, <1>5, <1>7, <1>8 DEF SearchIInv, SearchTypes, IsPathSeq, Matching, Walking
  <2>2. EachOnce'
    BY <1>5, <1>8 DEF EachOnce, Walking
  <2>3. StillAhead'
    BY <1>8 DEF StillAhead, Walking
  <2>4. AllFound'
    <3>1. query.max \in Nat /\ Len(results') \in Nat
      BY <1>8, SeqMeans, QueriesAssumption DEF SearchIInv, SearchTypes
    <3>2. ~ (Len(results') < query.max)
      BY <1>8, <3>1
    <3> QED
      BY <1>1, <3>2 DEF AllFound
  <2> QED
    BY <1>2, <2>1, <2>2, <2>3, <2>4 DEF SearchIInv
<1>9. CASE /\ phase' = "check"
           /\ IsSeq(results') /\ IsInjective(results')
           /\ ToSet(results') = ToSet(results) \cup Matching
           /\ IsSeq(todo') /\ IsInjective(todo')
           /\ ToSet(todo') \subseteq ToSet(Tail(todo)) \cup Subdirs
           /\ ToSet(Tail(todo)) \subseteq ToSet(todo')
           /\ dirs' \in Nat /\ dirs <= dirs' /\ dirs' <= MaxDirs
           /\ dirs' < MaxDirs => Subdirs \subseteq ToSet(todo')
  <2>1. SearchTypes'
    BY <1>1, <1>4, <1>5, <1>6, <1>7, <1>9
    DEF SearchIInv, SearchTypes, IsPathSeq, Matching, Subdirs, Walking
  <2>2. EachOnce'
    <3> SUFFICES ASSUME NEW e \in ToSet(todo'), NEW x \in ToSet(todo') \cup ToSet(results'),
                        IsStrictPrefix(e, x)
                 PROVE  FALSE
      BY <1>9 DEF EachOnce
    <3>1. e \in ToSet(todo) \ {Head(todo)} \/ e \in Shown
      BY <1>6, <1>9 DEF Subdirs
    <3>2. x \in ToSet(todo) \cup ToSet(results) \/ x \in Shown
      BY <1>6, <1>9 DEF Subdirs, Matching
    <3>3. CASE e \in ToSet(todo) /\ x \in ToSet(todo) \cup ToSet(results)
      BY <1>3, <3>3 DEF SearchIInv, EachOnce, Walking
    <3> QED
      BY <1>3, <3>1, <3>2, <3>3, Fresh
  <2>3. StillAhead'
    <3> SUFFICES ASSUME NEW p \in lasting', Unlimited', Matches(p), p \notin ToSet(results')
                 PROVE  Ahead(p)'
      BY <1>1, <1>4 DEF StillAhead, Matches
    <3>1. Unlimited /\ Subdirs \subseteq ToSet(todo')
      <4>1. dirs \in Nat /\ MaxDirs \in Nat
        BY MaxDirsAssumption DEF SearchIInv, SearchTypes
      <4> QED
        BY <1>3, <1>9, <4>1 DEF Unlimited
    <3>2. PICK d \in ToSet(todo) : Within(query.path, d) /\ IsStrictPrefix(d, p)
      BY <1>3, <1>4, <1>9, <3>1 DEF SearchIInv, StillAhead, Ahead, Walking
    <3>3. CASE d \in ToSet(todo')
      BY <1>1, <3>2, <3>3 DEF Ahead
    <3>4. CASE d \notin ToSet(todo')
      <4>1. d = Head(todo)
        BY <1>6, <1>9, <3>4
      <4>2. p \notin Shown
        BY <1>9 DEF Matching
      <4>3. PICK c \in Subdirs : Within(query.path, c) /\ IsStrictPrefix(c, p)
        BY <1>3, <1>4, <3>2, <4>1, <4>2, HandedOn
      <4> QED
        BY <1>1, <3>1, <4>3 DEF Ahead
    <3> QED
      BY <3>3, <3>4
  <2>4. AllFound'
    BY <1>9 DEF AllFound
  <2> QED
    BY <1>2, <2>1, <2>2, <2>3, <2>4 DEF SearchIInv
<1> QED
  BY <1>8, <1>9, ListMeans

\* No search was asked for yet.
LEMMA SearchInitially == Init /\ SearchInit => SearchIInv
<1> SUFFICES ASSUME Init, SearchInit
             PROVE  SearchIInv
  OBVIOUS
<1>1. WalkIInv /\ IsFiniteSet(DOMAIN fs)
  BY WalkInit, FiniteAssumption DEF Init
<1>2. /\ query \in Queries /\ phase = "idle" /\ todo = <<>> /\ dirs = 0 /\ results = <<>>
      /\ lasting = {}
  BY DEF SearchInit
<1>3. IsPathSeq(todo) /\ IsInjective(todo)
  BY <1>2, EmptyIsSeq, EmptySeq, SeqMeans DEF IsPathSeq, IsInjective
<1>4. SearchTypes
  BY <1>2, <1>3, MaxDirsAssumption DEF SearchTypes, Walking
<1>5. EachOnce /\ StillAhead /\ AllFound
  BY <1>2, <1>3 DEF EachOnce, StillAhead, AllFound, Walking
<1> QED
  BY <1>1, <1>4, <1>5 DEF SearchIInv

\* The inductive invariant of a search: each folder is listed once, and whatever was
\* in view all along is found or below a folder still to be listed
\* (search.go:57-94), beside any copies and moves.
THEOREM SearchInvariant == SearchSpec => []SearchIInv
<1>1. SearchIInv /\ [SearchNext]_<<vars, searchVars>> => SearchIInv'
  <2> SUFFICES ASSUME SearchIInv, [SearchNext]_<<vars, searchVars>>
               PROVE  SearchIInv'
    OBVIOUS
  <2>1. CASE UNCHANGED <<vars, searchVars>>
    <3>1. UNCHANGED <<vars, fs, query, phase, todo, dirs, results, aborted, unread, lasting>>
      BY <2>1 DEF vars, searchVars, walk
    <3>2. WalkIInv' /\ IsFiniteSet(DOMAIN fs')
      BY <3>1, StillWalks DEF SearchIInv
    <3>3. SearchTypes' /\ EachOnce' /\ AllFound'
      BY <3>1 DEF SearchIInv, SearchTypes, EachOnce, AllFound, Matches
    <3>4. StillAhead'
      BY <3>1 DEF SearchIInv, StillAhead, Unlimited, Matches, Ahead, InView, Exists, TypeOf, Visible
    <3> QED
      BY <3>2, <3>3, <3>4 DEF SearchIInv
  <2>2. CASE UNCHANGED <<vars, query>> /\ Ask
    BY <2>2, AskKeeps
  <2>3. CASE UNCHANGED <<vars, query>> /\ SearchStep /\ Follow
    BY <2>3, LoopKeeps, ListKeeps, PassKeeps DEF SearchStep
  <2>4. CASE UNCHANGED <<query, walk, unread>> /\ Next /\ Follow
    BY <2>4, JobsKeep
  <2> QED
    BY <2>1, <2>2, <2>3, <2>4 DEF SearchNext
<1> QED
  BY <1>1, SearchInitially, PTL DEF SearchSpec

\* A search that says it is complete, and met neither of its limits, has found every
\* match that was in view from its beginning to its end, and none twice.
THEOREM SearchFindsAll == SearchSpec => []SearchIsComplete
<1>1. SearchIInv => SearchIsComplete
  <2> SUFFICES ASSUME SearchIInv
               PROVE  SearchIsComplete
    OBVIOUS
  <2>1. DOMAIN results = 1 .. Len(results) /\ ToSet(results) = {results[i] : i \in DOMAIN results}
    BY SeqMeans DEF SearchIInv, SearchTypes, IsPathSeq
  <2>2. \A i, k \in DOMAIN results : results[i] = results[k] => i = k
    BY DEF SearchIInv, EachOnce, IsInjective
  <2>3. \A p : p \in ToSet(results) => \E i \in DOMAIN results : results[i] = p
    BY <2>1
  <2> QED
    BY <2>2, <2>3 DEF SearchIsComplete, SearchIInv, AllFound
<1> QED
  BY <1>1, SearchInvariant, PTL
==============================================================================
