--------------------------------- MODULE PartFile ---------------------------------
(***************************************************************************)
(* A download to the local disk (transfers.LocalDownloadWriter): the data  *)
(* goes to a part file in a folder of its own below the temporary folder   *)
(* and only then to its final name, by one rename, or by a copy when the   *)
(* temporary folder is on another file system.  Each download is a process *)
(* of the command line; meanwhile a started engine may shut down, which    *)
(* wipes the temporary folder of all.                                      *)
(***************************************************************************)
EXTENDS FiniteSets

CONSTANTS Downloads, Names

\* A download is none of the words that stand for what is no download's data.
ASSUME DownloadsAssumption == Downloads \cap {"old", "torn", "absent"} = {}

VARIABLES
  target,     \* the final name of each download
  sameDisk,   \* the temporary folder is on the disk of the final names
  step,       \* where each process is
  outcome,    \* Job.Status in the end, or "died"
  jobDir,     \* the downloads whose folder exists
  part,       \* the data of each part file; absent ones are not in the domain
  final,      \* the data under each final name
  brokenOff   \* history: the downloads that broke off and were taken for whole

partVars == <<target, sameDisk, step, outcome, jobDir, part, final, brokenOff>>

\* What a file holds: what was there before, a whole download, or a piece of something.
Old == [of |-> "old"]
Whole(d) == [of |-> d]
Piece == [of |-> "torn"]
Absent == [of |-> "absent"]

\* Two downloads to one name are only told apart when the last rename decides.
PartInit ==
  /\ sameDisk \in BOOLEAN
  /\ target \in [Downloads -> Names]
  /\ sameDisk \/ \A d, e \in Downloads : target[d] = target[e] => d = e
  /\ step = [d \in Downloads |-> "start"]
  /\ outcome = [d \in Downloads |-> "running"]
  /\ jobDir = {} /\ part = [d \in {} |-> Piece] /\ brokenOff = {}
  /\ final \in [Names -> {Old, Absent}]

Is(d, here) == step[d] = here /\ outcome[d] = "running"
To(d, there) == step' = [step EXCEPT ![d] = there]
Linked(d) == d \in DOMAIN part
Store(d, data) == part' = [e \in DOMAIN part \cup {d} |-> IF e = d THEN data ELSE part[e]]
RemovePart(d) == part' = [e \in DOMAIN part \ {d} |-> part[e]]
Finish(d, o) == outcome' = [outcome EXCEPT ![d] = o] /\ UNCHANGED step
Fixed == UNCHANGED <<target, sameDisk, brokenOff>>
\* What the open part file of a download taken for whole holds.
Got(d) == IF d \in brokenOff THEN Piece ELSE Whole(d)
\* After Commit the worker asks first whether the job was canceled meanwhile.
FinishUnlessCanceled(d, o) == \E answer \in {o, "canceled"} : Finish(d, answer)

\* The part file and its folder go; the answer is the transfer's.
Discard(d) == RemovePart(d) /\ jobDir' = jobDir \ {d}

LocalDownloadWriter(d) ==
  /\ Is(d, "start")
  /\ jobDir' = jobDir \cup {d}
  /\ To(d, "open")
  /\ UNCHANGED <<outcome, part, final>> /\ Fixed

\* The worker opens the part file: its folder may have been wiped by now.
OpenPart(d) ==
  /\ Is(d, "open")
  /\ \/ d \in jobDir /\ Store(d, Piece) /\ To(d, "receive") /\ UNCHANGED outcome
     \/ d \notin jobDir /\ Finish(d, "failed") /\ UNCHANGED part
  /\ UNCHANGED <<jobDir, final>> /\ Fixed

\* Download returns nil: the last byte has arrived, or the FTP server broke the
\* transfer off and said so in its final reply, whose code is not looked at.  The
\* file stays open when its name is gone.
Received(d) ==
  /\ Is(d, "receive")
  /\ \/ /\ IF Linked(d) THEN Store(d, Whole(d)) ELSE UNCHANGED part
        /\ UNCHANGED brokenOff
     \/ brokenOff' = brokenOff \cup {d} /\ UNCHANGED part
  /\ To(d, "commit")
  /\ UNCHANGED <<target, sameDisk, outcome, jobDir, final>>

\* A plausible bug: what was received is committed although Download gave an error.
BreakCommits(d) ==
  /\ Is(d, "receive")
  /\ To(d, "commit")
  /\ UNCHANGED <<outcome, jobDir, part, final>> /\ Fixed

\* The transfer fails or is canceled: Close.
Close(d) ==
  /\ Is(d, "receive")
  /\ Discard(d)
  /\ \E o \in {"failed", "canceled"} : Finish(d, o)
  /\ UNCHANGED final /\ Fixed

\* Commit could not close the part file, or not move it.
CommitFails(d) ==
  /\ Is(d, "commit")
  /\ Discard(d) /\ FinishUnlessCanceled(d, "failed")
  /\ UNCHANGED final /\ Fixed

RenamePart(d) ==
  /\ Is(d, "commit") /\ sameDisk /\ Linked(d)
  /\ final' = [final EXCEPT ![target[d]] = part[d]]
  /\ Discard(d) /\ FinishUnlessCanceled(d, "completed")
  /\ Fixed

\* moveFile across file systems: open the part, empty the final name, copy.
CopyBegins(d) ==
  /\ Is(d, "commit") /\ ~ sameDisk /\ Linked(d)
  /\ final' = [final EXCEPT ![target[d]] = Piece]
  /\ To(d, "copy")
  /\ UNCHANGED <<outcome, jobDir, part>> /\ Fixed

CopyEnds(d) ==
  /\ Is(d, "copy")
  /\ final' = [final EXCEPT ![target[d]] = Got(d)]
  /\ To(d, "unlink")
  /\ UNCHANGED <<outcome, jobDir, part>> /\ Fixed

\* A plausible bug: the error of the copy is dropped.
CopyFailsQuietly(d) ==
  /\ Is(d, "copy")
  /\ To(d, "unlink")
  /\ UNCHANGED <<outcome, jobDir, part, final>> /\ Fixed

CopyFails(d) ==
  /\ Is(d, "copy")
  /\ final' = [final EXCEPT ![target[d]] = Absent]
  /\ Discard(d) /\ FinishUnlessCanceled(d, "failed")
  /\ Fixed

\* The part is removed last; when it is gone already, that is taken for a failure.
UnlinkPart(d) ==
  /\ Is(d, "unlink")
  /\ Discard(d) /\ FinishUnlessCanceled(d, IF Linked(d) THEN "completed" ELSE "failed")
  /\ UNCHANGED final /\ Fixed

Kill(d) ==
  /\ outcome[d] = "running" /\ step[d] # "start"
  /\ Finish(d, "died")
  /\ UNCHANGED <<jobDir, part, final>> /\ Fixed

\* Engine.Shutdown of the process that serves the interface.
WipeTemp ==
  /\ jobDir # {}
  /\ jobDir' = {} /\ part' = [d \in {} |-> Piece]
  /\ UNCHANGED <<step, outcome, final>> /\ Fixed

PartNext ==
  \/ WipeTemp
  \/ \E d \in Downloads :
       \/ LocalDownloadWriter(d) \/ OpenPart(d) \/ Received(d) \/ Close(d)
       \/ CommitFails(d) \/ RenamePart(d) \/ CopyBegins(d) \/ CopyEnds(d) \/ CopyFails(d)
       \/ UnlinkPart(d) \/ Kill(d)

PartSpec == PartInit /\ [][PartNext]_partVars

(* A part file lies in the folder of its own download and holds only that *)
(* download's data.                                                         *)
PartTypeOK ==
  /\ outcome \in [Downloads -> {"running", "completed", "failed", "canceled", "died"}]
  /\ step \in [Downloads -> {"start", "open", "receive", "commit", "copy", "unlink"}]
  /\ brokenOff \subseteq Downloads
  /\ jobDir \subseteq Downloads /\ DOMAIN part \subseteq jobDir
  /\ \A d \in DOMAIN part : part[d] \in {Piece, Whole(d)}

(* The final name holds what was there before or the whole of a download:  *)
(* at every moment when one rename puts it there, and across file systems  *)
(* but for the copy itself and a process that ended in it.  A piece lies   *)
(* there only of a download the FTP server broke off, which the client     *)
(* takes for whole.                                                        *)
FinalIsWhole ==
  \A n \in Names :
    LET mine == {d \in Downloads : target[d] = n} IN
    \/ final[n] \in {Old, Absent} \cup {Whole(d) : d \in mine}
    \/ final[n] = Piece /\ mine \cap brokenOff # {}
    \/ ~ sameDisk /\ \E d \in mine : step[d] = "copy" /\ outcome[d] \in {"running", "died"}

(* A download is reported completed only at the moment its whole data is   *)
(* under the final name, whoever wiped or renamed meanwhile, unless the    *)
(* server broke it off; one that is reported failed on one disk has not    *)
(* touched the name.  One reported canceled may have: a job that was       *)
(* canceled during its Commit is reported so although it committed.        *)
ReportIsTrue ==
  [][\A d \in Downloads :
       outcome[d] = "running" =>
         /\ outcome'[d] = "completed" => final'[target[d]] = Whole(d) \/ d \in brokenOff
         /\ outcome'[d] = "failed" /\ sameDisk => final'[target[d]] # Whole(d)]_partVars
=================================================================================
