------------------------------- MODULE FilesProofs -------------------------------
(***************************************************************************)
(* Proofs about the local disk: PartFile for every set of downloads and of *)
(* final names, then LocalFiles for every set of requests, of wishes and   *)
(* of file systems, and every disk to begin with, of folders of any depth. *)
(***************************************************************************)
EXTENDS LocalFiles, PartFile, FiniteSetTheorems, SequenceTheorems, TLAPS

--------------------------------------------------------------------------
(* The part files *)

\* What a final name may hold.
Data == {Old, Absent, Piece} \cup {Whole(d) : d \in Downloads}

\* Where the names lie, and what they hold.
FinalsOK ==
  /\ target \in [Downloads -> Names] /\ sameDisk \in BOOLEAN
  /\ sameDisk \/ \A d, e \in Downloads : target[d] = target[e] => d = e
  /\ final \in [Names -> Data]

\* A part file that is still there when its download is committed is whole, but for a
\* download that broke off and was taken for whole; before that it is a piece: only the
\* download's own process writes it, and a wipe removes it.
CommittedIsWhole ==
  \A d \in Downloads :
    /\ step[d] \in {"commit", "copy", "unlink"} /\ d \in DOMAIN part => part[d] = Got(d)
    /\ d \in brokenOff => step[d] \in {"commit", "copy", "unlink"}
    /\ step[d] \in {"start", "open", "receive"} /\ d \in DOMAIN part => part[d] = Piece

\* A copy is made across file systems alone, and stands when the part is unlinked.
CopyStands ==
  \A d \in Downloads :
    /\ step[d] \in {"copy", "unlink"} => ~ sameDisk
    /\ Is(d, "unlink") => final[target[d]] = Got(d)

\* Before its rename a download has not touched its final name.
Untouched ==
  \A d \in Downloads : sameDisk /\ outcome[d] = "running" => final[target[d]] # Whole(d)

\* The inductive invariant.
PartIInv ==
  PartTypeOK /\ FinalsOK /\ CommittedIsWhole /\ CopyStands /\ Untouched /\ FinalIsWhole

\* What the invariant says of the constructors of a file's data.
LEMMA DataApart ==
  /\ \A d \in Downloads : Whole(d) \notin {Old, Absent, Piece}
  /\ \A d, e \in Downloads : Whole(d) = Whole(e) => d = e
  /\ Piece \notin {Old, Absent}
BY DownloadsAssumption DEF Whole, Old, Absent, Piece

\* Nothing has been downloaded at first.
LEMMA PartInitially == PartInit => PartIInv
BY DataApart DEF PartInit, PartIInv, PartTypeOK, FinalsOK, Data, CommittedIsWhole, CopyStands,
                 Untouched, FinalIsWhole, Is

\* Every step of a download on its part file (transfers.go:705-782, 347-364).
LEMMA PartFileStep ==
  ASSUME PartIInv, NEW d \in Downloads,
         \/ LocalDownloadWriter(d) \/ OpenPart(d) \/ Received(d) \/ Close(d) \/ CommitFails(d)
         \/ UnlinkPart(d) \/ Kill(d)
  PROVE  PartIInv'
<1> USE DEF PartIInv, PartTypeOK, FinalsOK, CommittedIsWhole, CopyStands, Untouched, FinalIsWhole,
            Is, To, Linked, Store, RemovePart, Finish, FinishUnlessCanceled, Fixed, Discard, Got
<1>1. CASE LocalDownloadWriter(d)
  BY <1>1 DEF LocalDownloadWriter
<1>2. CASE OpenPart(d)
  BY <1>2 DEF OpenPart
<1>3. CASE Received(d)
  <2>1. /\ step' = [step EXCEPT ![d] = "commit"] /\ step[d] = "receive" /\ outcome[d] = "running"
        /\ UNCHANGED <<target, sameDisk, outcome, jobDir, final>>
    BY <1>3 DEF Received
  <2>2. d \notin brokenOff BY <2>1
  <2>3. CASE brokenOff' = brokenOff /\ d \in DOMAIN part /\ part' = [part EXCEPT ![d] = Whole(d)]
    BY <2>1, <2>2, <2>3
  <2>4. CASE brokenOff' = brokenOff /\ d \notin DOMAIN part /\ part' = part
    BY <2>1, <2>2, <2>4
  <2>5. CASE brokenOff' = brokenOff \cup {d} /\ part' = part
    BY <2>1, <2>2, <2>5
  <2> QED BY <1>3, <2>3, <2>4, <2>5 DEF Received
<1>4. CASE Close(d)
  BY <1>4 DEF Close
<1>5. CASE CommitFails(d)
  BY <1>5 DEF CommitFails
<1>6. CASE UnlinkPart(d)
  BY <1>6 DEF UnlinkPart
<1>7. CASE Kill(d)
  BY <1>7 DEF Kill
<1> QED
  BY <1>1, <1>2, <1>3, <1>4, <1>5, <1>6, <1>7

\* Every step that writes a final name (move.go:12-42).
LEMMA FinalStep ==
  ASSUME PartIInv, NEW d \in Downloads,
         RenamePart(d) \/ CopyBegins(d) \/ CopyEnds(d) \/ CopyFails(d)
  PROVE  PartIInv'
<1> USE DataApart
        DEF PartIInv, PartTypeOK, FinalsOK, Data, CommittedIsWhole, CopyStands, Untouched,
            FinalIsWhole, Is, To, Linked, RemovePart, Finish, FinishUnlessCanceled, Fixed, Discard,
            Got
<1>1. CASE RenamePart(d)
  BY <1>1 DEF RenamePart
<1>2. CASE CopyBegins(d)
  BY <1>2 DEF CopyBegins
<1>3. CASE CopyEnds(d)
  BY <1>3 DEF CopyEnds
<1>4. CASE CopyFails(d)
  BY <1>4 DEF CopyFails
<1> QED
  BY <1>1, <1>2, <1>3, <1>4

\* Every step keeps the invariant, the wipe of all part files among them
\* (apppaths.go:97-103).
LEMMA PartStep == PartIInv /\ [PartNext]_partVars => PartIInv'
<1> SUFFICES ASSUME PartIInv, [PartNext]_partVars
             PROVE  PartIInv'
  OBVIOUS
<1> USE DEF PartIInv, PartTypeOK, FinalsOK, CommittedIsWhole, CopyStands, Untouched, FinalIsWhole, Is, Got
<1>1. CASE WipeTemp
  BY <1>1 DEF WipeTemp, Fixed
<1>2. CASE UNCHANGED partVars
  BY <1>2 DEF partVars
<1> QED
  BY <1>1, <1>2, PartFileStep, FinalStep DEF PartNext

\* What disk, part files and reports can be: a part file that is committed is whole, but
\* for one whose download the FTP server broke off, and a process that still runs on one
\* disk has not touched its final name.
THEOREM PartInvariant == PartSpec => []PartIInv
BY PartInitially, PartStep, PTL DEF PartSpec

\* The final name holds what was there before or a whole download, but for a copy
\* across file systems, a process that ended in it, and a piece of a download that the
\* FTP server broke off and the client took for whole (ftp_client.go:747).
THEOREM FinalInvariant == PartSpec => []FinalIsWhole
<1>1. PartIInv => FinalIsWhole
  BY DEF PartIInv
<1> QED
  BY <1>1, PartInvariant, PTL

\* A download is reported completed only when its whole data is under the final name,
\* unless the FTP server broke it off; one reported failed on one disk has not touched
\* the name (transfers.go:347-378, move.go:12-42).
THEOREM ReportsAreTrue == PartSpec => ReportIsTrue
<1> DEFINE True(d) ==
      /\ outcome'[d] = "completed" => final'[target[d]] = Whole(d) \/ d \in brokenOff
      /\ outcome'[d] = "failed" /\ sameDisk => final'[target[d]] # Whole(d)
<1>1. ASSUME PartIInv, [PartNext]_partVars, NEW d \in Downloads, outcome[d] = "running"
      PROVE  True(d)
  <2> USE <1>1
          DEF PartIInv, PartTypeOK, FinalsOK, Is, To, Linked, Finish, FinishUnlessCanceled, Fixed
  <2>1. CASE UNCHANGED outcome
    BY <2>1
  <2>2. ASSUME NEW e \in Downloads,
               OpenPart(e) \/ Close(e) \/ CommitFails(e) \/ UnlinkPart(e) \/ Kill(e)
        PROVE  outcome'[d] # outcome[d] =>
                 /\ final' = final
                 /\ outcome'[d] = "completed" => Is(d, "unlink")
    BY <2>2 DEF OpenPart, Close, CommitFails, UnlinkPart, Kill
  <2>3. ASSUME NEW e \in Downloads, RenamePart(e)
        PROVE  outcome'[d] # outcome[d] =>
                 /\ outcome'[d] \in {"completed", "canceled"}
                 /\ final'[target[d]] = Whole(d) \/ d \in brokenOff
    BY <2>3 DEF RenamePart, CommittedIsWhole, Got
  <2>4. ASSUME NEW e \in Downloads, CopyFails(e)
        PROVE  outcome'[d] # outcome[d] => outcome'[d] \in {"failed", "canceled"} /\ ~ sameDisk
    BY <2>4 DEF CopyFails, CopyStands
  <2>5. ASSUME NEW e \in Downloads,
               LocalDownloadWriter(e) \/ Received(e) \/ CopyBegins(e) \/ CopyEnds(e)
        PROVE  UNCHANGED outcome
    BY <2>5 DEF LocalDownloadWriter, Received, CopyBegins, CopyEnds
  <2>6. WipeTemp \/ UNCHANGED partVars => UNCHANGED outcome
    BY DEF WipeTemp, partVars
  <2>7. ASSUME NEW e \in Downloads,
               \/ OpenPart(e) \/ Close(e) \/ CommitFails(e) \/ UnlinkPart(e) \/ Kill(e)
               \/ RenamePart(e) \/ CopyFails(e)
        PROVE  True(d)
    BY <2>2, <2>3, <2>4, <2>7 DEF CopyStands, Untouched, Got
  <2> QED
    BY <2>1, <2>5, <2>6, <2>7 DEF PartNext
<1>2. PartIInv /\ [PartNext]_partVars =>
        [\A d \in Downloads : outcome[d] = "running" => True(d)]_partVars
  BY <1>1
<1> QED
  BY <1>2, PartInvariant, PTL DEF PartSpec, ReportIsTrue

--------------------------------------------------------------------------
(* Paths *)

\* A path is made of names, and only the root of none.
LEMMA PathMeans ==
  ASSUME NEW p \in Path
  PROVE  /\ Len(p) \in Nat /\ \A i \in 1 .. Len(p) : p[i] \in Name
         /\ Len(p) = 0 <=> p = Root
BY LenProperties, ElementOfSeq, EmptySeq DEF Path, Root

\* Paths of the same names are one.
LEMMA SamePath ==
  ASSUME NEW p \in Path, NEW q \in Path, Len(p) = Len(q), \A i \in 1 .. Len(p) : p[i] = q[i]
  PROVE  p = q
BY SeqEqual DEF Path

\* The first names of a path are a path.
LEMMA Cut ==
  ASSUME NEW p \in Path, NEW n \in 0 .. Len(p)
  PROVE  /\ SubSeq(p, 1, n) \in Path /\ Len(SubSeq(p, 1, n)) = n
         /\ \A i \in 1 .. n : SubSeq(p, 1, n)[i] = p[i]
<1>1. Len(p) \in Nat /\ \A i \in 1 .. n : p[i] \in Name
  BY PathMeans
<1> QED
  BY <1>1, SubSeqProperties DEF Path

\* What IsPrefix says of two paths, name by name.
LEMMA PrefixMeans ==
  ASSUME NEW s \in Path, NEW t \in Path
  PROVE  IsPrefix(s, t) <=> Len(s) <= Len(t) /\ \A i \in 1 .. Len(s) : s[i] = t[i]
<1>1. Len(s) \in Nat /\ Len(t) \in Nat
  BY PathMeans
<1>2. ASSUME Len(s) <= Len(t)
      PROVE  SubSeq(s, 1, Len(s)) = SubSeq(t, 1, Len(s))
               <=> \A i \in 1 .. Len(s) : s[i] = t[i]
  <2>1. SubSeq(s, 1, Len(s)) = s
    BY SubSeqFull DEF Path
  <2>2. /\ SubSeq(t, 1, Len(s)) \in Path /\ Len(SubSeq(t, 1, Len(s))) = Len(s)
        /\ \A i \in 1 .. Len(s) : SubSeq(t, 1, Len(s))[i] = t[i]
    BY <1>1, <1>2, Cut
  <2> QED
    BY <2>1, <2>2, SamePath
<1> QED
  BY <1>2 DEF IsPrefix

\* The root is a path of no names.
LEMMA RootPath == Root \in Path /\ Len(Root) = 0
BY EmptySeq DEF Path, Root

\* Every path leads to itself, and the root to every path.
LEMMA PrefixItself ==
  ASSUME NEW s \in Path
  PROVE  IsPrefix(s, s) /\ IsPrefix(Root, s)
<1>1. Len(s) \in Nat
  BY PathMeans
<1>2. IsPrefix(s, s)
  BY <1>1, PrefixMeans
<1>3. Len(Root) <= Len(s) /\ \A i \in 1 .. Len(Root) : Root[i] = s[i]
  BY <1>1, RootPath
<1> QED
  BY <1>2, <1>3, RootPath, PrefixMeans

\* A path below another leads nowhere the other does not.
LEMMA PrefixPrefix ==
  ASSUME NEW s \in Path, NEW t \in Path, NEW u \in Path, IsPrefix(s, t), IsPrefix(t, u)
  PROVE  IsPrefix(s, u)
<1>1. Len(s) \in Nat /\ Len(t) \in Nat /\ Len(u) \in Nat
  BY PathMeans
<1>2. /\ Len(s) <= Len(t) /\ \A i \in 1 .. Len(s) : s[i] = t[i]
      /\ Len(t) <= Len(u) /\ \A i \in 1 .. Len(t) : t[i] = u[i]
  BY PrefixMeans
<1>3. Len(s) <= Len(u) /\ \A i \in 1 .. Len(s) : s[i] = u[i]
  BY <1>1, <1>2
<1> QED
  BY <1>3, PrefixMeans

\* Two paths that lie below one another are one.
LEMMA PrefixBoth ==
  ASSUME NEW s \in Path, NEW t \in Path, IsPrefix(s, t), IsPrefix(t, s)
  PROVE  s = t
<1>1. Len(s) \in Nat /\ Len(t) \in Nat
  BY PathMeans
<1> QED
  BY <1>1, PrefixMeans, SamePath

\* Two paths that lead to a third lie one below the other.
LEMMA PrefixesMeet ==
  ASSUME NEW s \in Path, NEW t \in Path, NEW u \in Path, IsPrefix(s, u), IsPrefix(t, u)
  PROVE  IsPrefix(s, t) \/ IsPrefix(t, s)
<1>1. Len(s) \in Nat /\ Len(t) \in Nat /\ Len(u) \in Nat
  BY PathMeans
<1>2. /\ Len(s) <= Len(u) /\ \A i \in 1 .. Len(s) : s[i] = u[i]
      /\ Len(t) <= Len(u) /\ \A i \in 1 .. Len(t) : t[i] = u[i]
  BY PrefixMeans
<1>3. CASE Len(s) <= Len(t)
  <2>1. \A i \in 1 .. Len(s) : s[i] = t[i]
    BY <1>1, <1>2, <1>3
  <2> QED
    BY <1>3, <2>1, PrefixMeans
<1>4. CASE Len(t) <= Len(s)
  <2>1. \A i \in 1 .. Len(t) : t[i] = s[i]
    BY <1>1, <1>2, <1>4
  <2> QED
    BY <1>4, <2>1, PrefixMeans
<1> QED
  BY <1>1, <1>3, <1>4

\* The folder a path is in.
LEMMA FrontMeans ==
  ASSUME NEW p \in Path
  PROVE  /\ Front(p) \in Path
         /\ p # Root => /\ IsPrefix(Front(p), p) /\ Front(p) # p /\ Len(Front(p)) = Len(p) - 1
                        /\ \A q \in Path : IsPrefix(q, p) /\ q # p => IsPrefix(q, Front(p))
<1>1. Len(p) \in Nat
  BY PathMeans
<1>2. CASE p = Root
  <2>1. Front(p) = <<>>
    BY <1>1, <1>2, PathMeans, SubSeqEmpty DEF Front
  <2> QED
    BY <1>2, <2>1, EmptySeq DEF Path, Root
<1>3. CASE p # Root
  <2>1. Len(p) - 1 \in 0 .. Len(p)
    BY <1>1, <1>3, PathMeans
  <2>2. /\ Front(p) \in Path /\ Len(Front(p)) = Len(p) - 1
        /\ \A i \in 1 .. Len(p) - 1 : Front(p)[i] = p[i]
    BY <2>1, Cut DEF Front
  <2>3. IsPrefix(Front(p), p)
    BY <1>1, <2>2, PrefixMeans
  <2>4. ASSUME NEW q \in Path, IsPrefix(q, p), q # p
        PROVE  IsPrefix(q, Front(p))
    <3>1. Len(q) \in Nat /\ Len(q) <= Len(p) /\ \A i \in 1 .. Len(q) : q[i] = p[i]
      BY <2>4, PrefixMeans, PathMeans
    <3>2. Len(q) # Len(p)
      BY <2>4, <3>1, SamePath
    <3>3. Len(q) <= Len(p) - 1
      BY <1>1, <3>1, <3>2
    <3>4. \A i \in 1 .. Len(q) : q[i] = Front(p)[i]
      BY <1>1, <2>2, <3>1, <3>3
    <3> QED
      BY <2>2, <3>3, <3>4, PrefixMeans
  <2> QED
    BY <1>1, <2>2, <2>3, <2>4
<1> QED
  BY <1>2, <1>3

\* The entry of a folder that leads to a path below it.
LEMMA EntryTowards ==
  ASSUME NEW a \in Path, NEW p \in Path, IsPrefix(a, p), a # p
  PROVE  \E c \in Path : IsPrefix(a, c) /\ Len(c) = Len(a) + 1 /\ IsPrefix(c, p) /\ c # Root
<1>1. /\ Len(a) \in Nat /\ Len(p) \in Nat /\ Len(a) <= Len(p)
      /\ \A i \in 1 .. Len(a) : a[i] = p[i]
  BY PathMeans, PrefixMeans
<1>2. Len(a) # Len(p)
  BY <1>1, SamePath
<1>3. Len(a) + 1 \in 0 .. Len(p)
  BY <1>1, <1>2
<1>4. PICK c : c = SubSeq(p, 1, Len(a) + 1)
  OBVIOUS
<1>5. c \in Path /\ Len(c) = Len(a) + 1 /\ \A i \in 1 .. Len(a) + 1 : c[i] = p[i]
  BY <1>3, <1>4, Cut
<1>6. IsPrefix(a, c) /\ IsPrefix(c, p)
  <2>1. \A i \in 1 .. Len(a) : a[i] = c[i]
    BY <1>1, <1>5
  <2>2. Len(c) <= Len(p) /\ \A i \in 1 .. Len(c) : c[i] = p[i]
    BY <1>1, <1>3, <1>5
  <2> QED
    BY <1>1, <1>5, <2>1, <2>2, PrefixMeans
<1> QED
  BY <1>1, <1>5, <1>6, PathMeans

\* u lies below to as q lies below p.
Lies(u, to, q, p) ==
  /\ u \in Path /\ IsPrefix(to, u) /\ Len(u) = Len(to) + Len(q) - Len(p)
  /\ \A i \in 1 .. Len(to) : u[i] = to[i]
  /\ \A i \in 1 .. Len(q) - Len(p) : u[Len(to) + i] = q[Len(p) + i]

\* Under gives the place below to that q has below p.
LEMMA UnderMeans ==
  ASSUME NEW to \in Path, NEW p \in Path, NEW q \in Path, IsPrefix(p, q)
  PROVE  Lies(Under(to, p, q), to, q, p)
<1>1. Len(p) \in Nat /\ Len(q) \in Nat /\ Len(to) \in Nat /\ Len(p) <= Len(q)
  BY PathMeans, PrefixMeans
<1>2. PICK s : s = SubSeq(q, Len(p) + 1, Len(q))
  OBVIOUS
<1>3. /\ s \in Seq(Name) /\ Len(s) = Len(q) - Len(p)
      /\ \A i \in 1 .. Len(q) - Len(p) : s[i] = q[Len(p) + i]
  <2>1. \A i \in Len(p) + 1 .. Len(q) : q[i] \in Name
    BY <1>1, PathMeans
  <2>2. /\ s \in Seq(Name)
        /\ Len(s) = IF Len(p) + 1 <= Len(q) THEN Len(q) - (Len(p) + 1) + 1 ELSE 0
        /\ \A i \in 1 .. Len(q) - (Len(p) + 1) + 1 : s[i] = q[Len(p) + 1 + i - 1]
    BY <1>1, <1>2, <2>1, SubSeqProperties
  <2> QED
    BY <1>1, <2>2
<1>4. PICK u : u = to \o s
  OBVIOUS
<1>5. /\ u \in Path /\ Len(u) = Len(to) + Len(s)
      /\ \A i \in 1 .. Len(to) + Len(s) : u[i] = IF i <= Len(to) THEN to[i] ELSE s[i - Len(to)]
  BY <1>3, <1>4, ConcatProperties DEF Path
<1>6. u = Under(to, p, q)
  BY <1>2, <1>4 DEF Under
<1>7. \A i \in 1 .. Len(to) : u[i] = to[i]
  BY <1>1, <1>3, <1>5
<1>8. \A i \in 1 .. Len(q) - Len(p) : u[Len(to) + i] = q[Len(p) + i]
  <2> TAKE i \in 1 .. Len(q) - Len(p)
  <2>1. Len(to) + i \in 1 .. Len(to) + Len(s) /\ ~(Len(to) + i <= Len(to)) /\ Len(to) + i - Len(to) = i
    BY <1>1, <1>3
  <2> QED
    BY <1>3, <1>5, <2>1
<1>9. Len(u) = Len(to) + Len(q) - Len(p) /\ Len(to) <= Len(u)
  BY <1>1, <1>3, <1>5
<1> QED
  BY <1>5, <1>6, <1>7, <1>8, <1>9, PrefixMeans DEF Lies

\* Below and back again.
LEMMA UnderBack ==
  ASSUME NEW to \in Path, NEW p \in Path, NEW q \in Path, IsPrefix(p, q)
  PROVE  Under(p, to, Under(to, p, q)) = q
<1>1. PICK u : u = Under(to, p, q) /\ Lies(u, to, q, p)
  BY UnderMeans
<1>2. PICK v : v = Under(p, to, u) /\ Lies(v, p, u, to)
  <2>1. u \in Path /\ IsPrefix(to, u)
    BY <1>1 DEF Lies
  <2> QED
    BY <2>1, UnderMeans
<1>3. /\ Len(p) \in Nat /\ Len(q) \in Nat /\ Len(to) \in Nat /\ Len(p) <= Len(q)
      /\ \A i \in 1 .. Len(p) : p[i] = q[i]
  BY PathMeans, PrefixMeans
<1>4. /\ u \in Path /\ IsPrefix(to, u) /\ Len(u) = Len(to) + Len(q) - Len(p)
      /\ \A i \in 1 .. Len(q) - Len(p) : u[Len(to) + i] = q[Len(p) + i]
  BY <1>1 DEF Lies
<1>5. /\ v \in Path /\ Len(v) = Len(p) + Len(u) - Len(to)
      /\ \A i \in 1 .. Len(p) : v[i] = p[i]
      /\ \A i \in 1 .. Len(u) - Len(to) : v[Len(p) + i] = u[Len(to) + i]
  BY <1>2 DEF Lies
<1>6. Len(v) = Len(q)
  BY <1>3, <1>4, <1>5
<1>7. \A i \in 1 .. Len(q) : v[i] = q[i]
  <2> TAKE i \in 1 .. Len(q)
  <2>1. CASE i <= Len(p)
    BY <1>3, <1>5, <2>1
  <2>2. CASE i > Len(p)
    <3>1. PICK k \in Nat : i = Len(p) + k
      BY <1>3, <2>2
    <3>2. k \in 1 .. Len(q) - Len(p)
      BY <1>3, <2>2, <3>1
    <3>3. k \in 1 .. Len(u) - Len(to)
      BY <1>3, <1>4, <3>2
    <3> QED
      BY <1>4, <1>5, <3>1, <3>2, <3>3
  <2> QED
    BY <1>3, <2>1, <2>2
<1> QED
  BY <1>1, <1>2, <1>5, <1>6, <1>7, SamePath

\* What lies below one another lies so below to.
LEMMA UnderKeeps ==
  ASSUME NEW to \in Path, NEW p \in Path, NEW y \in Path, NEW x \in Path,
         IsPrefix(p, y), IsPrefix(y, x)
  PROVE  IsPrefix(Under(to, p, y), Under(to, p, x))
<1>1. IsPrefix(p, x)
  BY PrefixPrefix
<1>2. PICK u : u = Under(to, p, y) /\ Lies(u, to, y, p)
  BY UnderMeans
<1>3. PICK v : v = Under(to, p, x) /\ Lies(v, to, x, p)
  BY <1>1, UnderMeans
<1>4. /\ Len(p) \in Nat /\ Len(y) \in Nat /\ Len(x) \in Nat /\ Len(to) \in Nat
      /\ Len(p) <= Len(y) /\ Len(y) <= Len(x) /\ \A i \in 1 .. Len(y) : y[i] = x[i]
  BY PathMeans, PrefixMeans
<1>5. /\ u \in Path /\ v \in Path
      /\ Len(u) = Len(to) + Len(y) - Len(p) /\ \A i \in 1 .. Len(to) : u[i] = to[i]
      /\ \A i \in 1 .. Len(y) - Len(p) : u[Len(to) + i] = y[Len(p) + i]
      /\ Len(v) = Len(to) + Len(x) - Len(p) /\ \A i \in 1 .. Len(to) : v[i] = to[i]
      /\ \A i \in 1 .. Len(x) - Len(p) : v[Len(to) + i] = x[Len(p) + i]
  BY <1>2, <1>3 DEF Lies
<1>6. Len(u) <= Len(v)
  BY <1>4, <1>5
<1>7. \A i \in 1 .. Len(u) : u[i] = v[i]
  <2> TAKE i \in 1 .. Len(u)
  <2>1. CASE i <= Len(to)
    BY <1>4, <1>5, <2>1
  <2>2. CASE i > Len(to)
    <3>1. PICK k \in Nat : i = Len(to) + k
      <4>1. Len(u) \in Nat /\ Len(to) \in Nat
        BY <1>4, <1>5, PathMeans
      <4> QED
        BY <2>2, <4>1
    <3>2. k \in 1 .. Len(y) - Len(p)
      BY <1>4, <1>5, <2>2, <3>1
    <3>3. k \in 1 .. Len(x) - Len(p) /\ Len(p) + k \in 1 .. Len(y)
      BY <1>4, <3>2
    <3>4. u[Len(to) + k] = y[Len(p) + k]
      BY <1>5, <3>2
    <3>5. v[Len(to) + k] = x[Len(p) + k]
      BY <1>5, <3>3
    <3>6. y[Len(p) + k] = x[Len(p) + k]
      BY <1>4, <3>3
    <3> QED
      BY <3>1, <3>4, <3>5, <3>6
  <2> QED
    BY <1>4, <2>1, <2>2
<1> QED
  BY <1>2, <1>3, <1>5, <1>6, <1>7, PrefixMeans

--------------------------------------------------------------------------
(* The disk as a tree *)

\* What a file or link may hold on the way.
Contents == {Disk[p].data : p \in DOMAIN Disk} \cup {Torn, Sent, Unreadable}
\* What a path may be.
Node == [type : {"dir", "link", "file"}, data : Contents]
\* q is a folder of d.
FolderIn(d, q) == q = Root \/ (q \in DOMAIN d /\ d[q].type = "dir")

\* Whatever a path leads through is a folder.
TreeOK(d) ==
  /\ d \in [DOMAIN d -> Node] /\ IsFiniteSet(DOMAIN d) /\ DOMAIN d \subseteq Path \ {Root}
  /\ \A p \in DOMAIN d, q \in Path : IsPrefix(q, p) /\ q # p => FolderIn(d, q)

\* IsDir is about the disk as it is.
LEMMA IsDirMeans ==
  ASSUME NEW q
  PROVE  IsDir(q) <=> FolderIn(disk, q)
BY DEF IsDir, TypeOf, Exists, FolderIn

\* A folder that something lies below has an entry.
LEMMA EntryBelow ==
  ASSUME TreeOK(disk), NEW a \in Path, NEW p \in DOMAIN disk, IsPrefix(a, p), a # p
  PROVE  IsDir(a) /\ Children(a) # {}
<1>1. p \in Path
  BY DEF TreeOK
<1>2. IsDir(a)
  BY <1>1, IsDirMeans DEF TreeOK
<1>3. PICK c \in Path : IsPrefix(a, c) /\ Len(c) = Len(a) + 1 /\ IsPrefix(c, p) /\ c # Root
  BY <1>1, EntryTowards
<1>4. c \in DOMAIN disk
  BY <1>3 DEF TreeOK, FolderIn
<1> QED
  BY <1>2, <1>3, <1>4 DEF Children, Below

\* A new node in a folder.
LEMMA PutKeeps ==
  ASSUME TreeOK(disk), NEW p \in Path, p # Root, IsDir(Front(p)), NEW node \in Node,
         node.type # "dir" => ~ IsDir(p), Put(p, node)
  PROVE  TreeOK(disk')
<1>1. /\ DOMAIN disk' = DOMAIN disk \cup {p}
      /\ \A q \in DOMAIN disk' : disk'[q] = IF q = p THEN node ELSE disk[q]
  BY DEF Put
<1>2. disk' \in [DOMAIN disk' -> Node]
  BY DEF Put, TreeOK
<1>3. IsFiniteSet(DOMAIN disk')
  BY <1>1, FS_AddElement DEF TreeOK
<1>4. ASSUME NEW x \in DOMAIN disk', NEW q \in Path, IsPrefix(q, x), q # x
      PROVE  FolderIn(disk', q)
  <2>1. FolderIn(disk, q)
    <3>1. CASE x = p
      <4>1. IsPrefix(q, Front(p))
        BY <1>4, <3>1, FrontMeans
      <4>2. CASE q = Front(p)
        BY <4>2, IsDirMeans
      <4>3. CASE q # Front(p) /\ Front(p) # Root
        <5>1. Front(p) \in DOMAIN disk
          BY <4>3, IsDirMeans DEF FolderIn
        <5> QED
          BY <4>1, <4>3, <5>1 DEF TreeOK
      <4>4. CASE Front(p) = Root
        <5>1. IsPrefix(Root, q)
          BY PrefixItself
        <5> QED
          BY <4>1, <4>4, <5>1, PrefixBoth, RootPath DEF FolderIn
      <4> QED
        BY <4>2, <4>3, <4>4
    <3>2. CASE x \in DOMAIN disk
      BY <1>4, <3>2 DEF TreeOK
    <3> QED
      BY <1>1, <3>1, <3>2
  <2>2. q = p => node.type = "dir"
    BY <2>1, IsDirMeans
  <2> QED
    BY <1>1, <2>1, <2>2 DEF FolderIn
<1> QED
  BY <1>1, <1>2, <1>3, <1>4 DEF TreeOK

\* Removing what nothing is left below.
LEMMA DeleteKeeps ==
  ASSUME TreeOK(disk), NEW ps, Delete(ps),
         \A x \in DOMAIN disk, y \in ps : IsPrefix(y, x) => x \in ps
  PROVE  TreeOK(disk')
<1>1. /\ DOMAIN disk' = DOMAIN disk \ ps
      /\ \A q \in DOMAIN disk' : disk'[q] = disk[q]
  BY DEF Delete
<1>2. disk' \in [DOMAIN disk' -> Node]
  BY DEF Delete, TreeOK
<1>3. IsFiniteSet(DOMAIN disk')
  BY <1>1, FS_Subset DEF TreeOK
<1>4. ASSUME NEW x \in DOMAIN disk', NEW q \in Path, IsPrefix(q, x), q # x
      PROVE  FolderIn(disk', q)
  BY <1>1, <1>4 DEF TreeOK, FolderIn
<1> QED
  BY <1>1, <1>2, <1>3, <1>4 DEF TreeOK

\* os.Remove removes what has no entries.
LEMMA RemoveKeeps ==
  ASSUME TreeOK(disk), NEW p \in Path, CanRemove(p), Delete({p})
  PROVE  TreeOK(disk')
<1>1. \A x \in DOMAIN disk : IsPrefix(p, x) => x = p
  BY EntryBelow DEF CanRemove
<1> QED
  BY <1>1, DeleteKeeps

\* os.RemoveAll removes everything below.
LEMMA RemoveAllKeeps ==
  ASSUME TreeOK(disk), NEW p \in Path, Delete(Below(p))
  PROVE  TreeOK(disk')
<1>1. ASSUME NEW x \in DOMAIN disk, NEW y \in Below(p), IsPrefix(y, x)
      PROVE  x \in Below(p)
  <2>1. x \in Path /\ y \in Path /\ IsPrefix(p, y)
    BY DEF TreeOK, Below
  <2> QED
    BY <1>1, <2>1, PrefixPrefix DEF Below
<1> QED
  BY <1>1, DeleteKeeps

\* What a rename does, path by path.
LEMMA RelocateMeans ==
  ASSUME TreeOK(disk), NEW p \in Path, NEW to \in Path, Relocate(p, to)
  PROVE  /\ \A y \in DOMAIN disk' :
              \/ /\ y \in DOMAIN disk /\ ~ IsPrefix(p, y) /\ disk'[y] = disk[y]
                 /\ \A q \in Below(p) : y # Under(to, p, q)
              \/ \E q \in Below(p) : y = Under(to, p, q) /\ disk'[y] = disk[q]
         /\ \A q \in Below(p) : Under(to, p, q) \in DOMAIN disk' /\ disk'[Under(to, p, q)] = disk[q]
         /\ \A y \in DOMAIN disk :
              ~ IsPrefix(p, y) /\ (\A q \in Below(p) : y # Under(to, p, q))
                => y \in DOMAIN disk' /\ disk'[y] = disk[y]
<1> DEFINE new == {Under(to, p, q) : q \in Below(p)}
<1>1. /\ DOMAIN disk' = (DOMAIN disk \ Below(p)) \cup new
      /\ \A y \in DOMAIN disk' : disk'[y] = IF y \in new THEN disk[Under(p, to, y)] ELSE disk[y]
  BY DEF Relocate
<1>2. \A q \in Below(p) : Under(p, to, Under(to, p, q)) = q
  BY UnderBack DEF Below, TreeOK
<1>3. \A y \in DOMAIN disk : y \in Below(p) <=> IsPrefix(p, y)
  BY DEF Below
<1>4. \A y : y \in new <=> \E q \in Below(p) : y = Under(to, p, q)
  OBVIOUS
<1> HIDE DEF new
<1> QED
  BY <1>1, <1>2, <1>3, <1>4

\* Where a rename may go, nothing lies below but what it moves.
LEMMA RenameRoom ==
  ASSUME TreeOK(disk), NEW p \in Path, NEW to \in Path, CanRename(p, to)
  PROVE  /\ to # Root /\ ~ IsPrefix(p, to)
         /\ \A x \in DOMAIN disk : IsPrefix(to, x) => x = to
<1>1. CanRename(p, to)
  OBVIOUS
<1>2. /\ Exists(p) /\ IsDir(Front(to)) /\ ~ IsPrefix(p, to)
      /\ Exists(to) => Children(to) = {}
  BY <1>1 DEF CanRename
<1>3. ASSUME NEW x \in DOMAIN disk, IsPrefix(to, x), x # to
      PROVE  FALSE
  <2>1. IsDir(to) /\ Children(to) # {}
    BY <1>3, EntryBelow
  <2>2. Exists(to)
    BY <2>1, IsDirMeans DEF FolderIn, Exists
  <2> QED
    BY <1>2, <2>1, <2>2
<1>4. to # Root
  <2> SUFFICES ASSUME to = Root
               PROVE  FALSE
    OBVIOUS
  <2>1. p # Root
    BY <1>2, PrefixItself
  <2>2. p \in DOMAIN disk
    BY <1>2, <2>1 DEF Exists
  <2> QED
    BY <1>3, <2>1, <2>2, PrefixItself
<1> QED
  BY <1>2, <1>3, <1>4

\* A rename takes everything below along.
LEMMA RelocateKeeps ==
  ASSUME TreeOK(disk), NEW p \in Path, NEW to \in Path, CanRename(p, to), Relocate(p, to)
  PROVE  TreeOK(disk')
<1>1. /\ to # Root /\ ~ IsPrefix(p, to)
      /\ \A x \in DOMAIN disk : IsPrefix(to, x) => x = to
  BY RenameRoom
<1>2. IsDir(Front(to))
  BY DEF CanRename
<1>3. DOMAIN disk \subseteq Path \ {Root} /\ Below(p) \subseteq DOMAIN disk
  BY DEF TreeOK, Below
<1>4. \A q \in Below(p) : q \in Path /\ IsPrefix(p, q) /\ q \in DOMAIN disk
  BY <1>3 DEF Below
<1>5. \A q \in Below(p) : Under(to, p, q) \in Path \ {Root} /\ IsPrefix(to, Under(to, p, q))
  <2> TAKE q \in Below(p)
  <2>1. PICK u : u = Under(to, p, q) /\ Lies(u, to, q, p)
    BY <1>4, UnderMeans
  <2>2. u \in Path /\ IsPrefix(to, u)
    BY <2>1 DEF Lies
  <2>3. u # Root
    BY <1>1, <2>2, PrefixItself, PrefixBoth, RootPath
  <2> QED
    BY <2>1, <2>2, <2>3
\* What an old path leads through stays.
<1>6. ASSUME NEW y \in Path, FolderIn(disk, y), ~ IsPrefix(p, y), ~ IsPrefix(to, y)
      PROVE  FolderIn(disk', y)
  <2>1. \A q \in Below(p) : y # Under(to, p, q)
    BY <1>5, <1>6
  <2> QED
    BY <1>6, <2>1, RelocateMeans DEF FolderIn
<1>7. ASSUME NEW x \in DOMAIN disk', NEW y \in Path, IsPrefix(y, x), y # x
      PROVE  FolderIn(disk', y)
  <2>1. CASE x \in DOMAIN disk /\ ~ IsPrefix(p, x) /\ \A q \in Below(p) : x # Under(to, p, q)
    <3>1. x \in Path /\ FolderIn(disk, y)
      BY <1>3, <1>7, <2>1 DEF TreeOK
    <3>2. ~ IsPrefix(p, y)
      BY <1>7, <2>1, <3>1, PrefixPrefix
    <3>3. ~ IsPrefix(to, y)
      <4> SUFFICES ASSUME IsPrefix(to, y)
                   PROVE  FALSE
        OBVIOUS
      <4>1. IsPrefix(to, x)
        BY <1>7, <3>1, PrefixPrefix
      <4>2. x = to
        BY <1>1, <2>1, <4>1
      <4> QED
        BY <1>7, <4>2, PrefixBoth
    <3> QED
      BY <1>6, <3>1, <3>2, <3>3
  <2>2. CASE \E q \in Below(p) : x = Under(to, p, q)
    <3>1. PICK q \in Below(p) : x = Under(to, p, q)
      BY <2>2
    <3>2. q \in Path /\ IsPrefix(p, q) /\ q \in DOMAIN disk /\ x \in Path /\ IsPrefix(to, x)
      BY <1>4, <1>5, <3>1
    <3>3. CASE IsPrefix(to, y)
      <4>1. PICK z : z = Under(p, to, y) /\ Lies(z, p, y, to)
        BY <3>3, UnderMeans
      <4>2. z \in Path /\ IsPrefix(p, z)
        BY <4>1 DEF Lies
      <4>3. Under(to, p, z) = y
        BY <3>3, <4>1, UnderBack
      <4>4. IsPrefix(z, q)
        <5>1. IsPrefix(Under(p, to, y), Under(p, to, x))
          BY <1>7, <3>2, <3>3, UnderKeeps
        <5> QED
          BY <3>1, <3>2, <4>1, <5>1, UnderBack
      <4>5. z # q
        BY <1>7, <3>1, <4>3
      <4>6. FolderIn(disk, z)
        BY <3>2, <4>2, <4>4, <4>5 DEF TreeOK
      <4>7. z # Root
        BY <1>1, <4>2, PrefixItself, PrefixBoth, RootPath
      <4>8. z \in Below(p) /\ disk[z].type = "dir"
        BY <4>2, <4>6, <4>7 DEF FolderIn, Below
      <4> QED
        BY <4>3, <4>8, RelocateMeans DEF FolderIn
    <3>4. CASE ~ IsPrefix(to, y)
      <4>1. IsPrefix(y, to)
        BY <1>7, <3>2, <3>4, PrefixesMeet
      <4>2. ~ IsPrefix(p, y)
        BY <1>1, <4>1, PrefixPrefix
      <4>3. y # to
        BY <3>4, PrefixItself
      <4>4. IsPrefix(y, Front(to)) /\ Front(to) \in Path
        BY <1>1, <4>1, <4>3, FrontMeans
      <4>5. FolderIn(disk, y)
        <5>1. FolderIn(disk, Front(to))
          BY <1>2, IsDirMeans
        <5>2. CASE y = Front(to)
          BY <5>1, <5>2
        <5>3. CASE Front(to) = Root
          BY <4>4, <5>3, PrefixItself, PrefixBoth, RootPath DEF FolderIn
        <5>4. CASE y # Front(to) /\ Front(to) # Root
          BY <4>4, <5>1, <5>4 DEF FolderIn, TreeOK
        <5> QED
          BY <5>2, <5>3, <5>4
      <4> QED
        BY <1>6, <3>4, <4>2, <4>5
    <3> QED
      BY <3>3, <3>4
  <2> QED
    BY <2>1, <2>2, RelocateMeans
<1>8. DOMAIN disk' \subseteq Path \ {Root}
  BY <1>3, <1>5, RelocateMeans
<1>9. disk' \in [DOMAIN disk' -> Node]
  <2>1. \A y \in DOMAIN disk' : disk'[y] \in Node
    BY <1>4, RelocateMeans DEF TreeOK
  <2>2. disk' = [y \in DOMAIN disk' |-> disk'[y]]
    BY DEF Relocate
  <2> QED
    BY <2>1, <2>2
<1>10. IsFiniteSet(DOMAIN disk')
  <2> DEFINE new == {Under(to, p, q) : q \in Below(p)}
             f == [q \in Below(p) |-> Under(to, p, q)]
  <2>1. f \in Surjection(Below(p), new)
    BY DEF Surjection
  <2>2. IsFiniteSet(Below(p)) /\ IsFiniteSet(DOMAIN disk \ Below(p))
    BY <1>3, FS_Subset DEF TreeOK
  <2>3. IsFiniteSet(new)
    BY <2>1, <2>2, FS_Surjection
  <2>4. DOMAIN disk' = (DOMAIN disk \ Below(p)) \cup new
    BY DEF Relocate
  <2> HIDE DEF new
  <2> QED
    BY <2>2, <2>3, <2>4, FS_Union
<1> QED
  BY <1>7, <1>8, <1>9, <1>10 DEF TreeOK

\* A rename touches only what it moves and the place it moves that to.
LEMMA RelocateSpares ==
  ASSUME TreeOK(disk), NEW p \in Path, NEW to \in Path, CanRename(p, to), Relocate(p, to),
         NEW x \in DOMAIN disk, ~ IsPrefix(p, x), x # to
  PROVE  x \in DOMAIN disk' /\ disk'[x] = disk[x]
<1>1. \A q \in Below(p) : x # Under(to, p, q)
  <2> SUFFICES ASSUME NEW q \in Below(p), x = Under(to, p, q)
               PROVE  FALSE
    OBVIOUS
  <2>1. q \in Path /\ IsPrefix(p, q)
    BY DEF TreeOK, Below
  <2>2. PICK u : u = Under(to, p, q) /\ Lies(u, to, q, p)
    BY <2>1, UnderMeans
  <2>3. IsPrefix(to, x)
    BY <2>2 DEF Lies
  <2> QED
    BY <2>3, RenameRoom
<1> QED
  BY <1>1, RelocateMeans

--------------------------------------------------------------------------
(* A free name *)

\* A numbered name lies beside the name, and has its base.
LEMMA NumberedMeans ==
  ASSUME NEW p \in Path, p # Root, NEW i \in Nat
  PROVE  /\ Numbered(p, i) \in Path \ {Root} /\ Len(Numbered(p, i)) = Len(p)
         /\ Numbered(p, i)[Len(p)] = [base |-> p[Len(p)].base, nums |-> Append(p[Len(p)].nums, i)]
         /\ \A k \in 1 .. Len(p) : Numbered(p, i)[k].base = p[k].base
<1>1. PICK x : x = [Last(p) EXCEPT !.nums = Append(@, i)]
  OBVIOUS
<1>2. Len(p) \in Nat /\ Len(p) # 0 /\ \A k \in 1 .. Len(p) : p[k] \in Name
  BY PathMeans
<1>3. Last(p) \in Name /\ Last(p) = p[Len(p)]
  BY <1>2 DEF Last
<1>4. /\ x = [base |-> Last(p).base, nums |-> Append(Last(p).nums, i)]
      /\ x \in Name
  BY <1>1, <1>3, AppendProperties DEF Name
<1>5. /\ Front(p) \in Path /\ Len(Front(p)) = Len(p) - 1
      /\ \A k \in 1 .. Len(p) - 1 : Front(p)[k] = p[k]
  <2>1. Len(p) - 1 \in 0 .. Len(p)
    BY <1>2
  <2> QED
    BY <2>1, Cut DEF Front
<1>6. PICK q : q = Append(Front(p), x)
  OBVIOUS
<1>7. /\ q \in Path /\ Len(q) = Len(p) /\ q[Len(p)] = x
      /\ \A k \in 1 .. Len(p) - 1 : q[k] = p[k]
  <2>1. /\ q \in Path /\ Len(q) = Len(Front(p)) + 1 /\ q[Len(Front(p)) + 1] = x
        /\ \A k \in 1 .. Len(Front(p)) : q[k] = Front(p)[k]
    <3>1. PICK f \in Seq(Name) : f = Front(p)
      BY <1>5 DEF Path
    <3>2. /\ Append(f, x) \in Seq(Name) /\ Len(Append(f, x)) = Len(f) + 1
          /\ \A k \in 1 .. Len(f) : Append(f, x)[k] = f[k]
          /\ Append(f, x)[Len(f) + 1] = x
      BY <1>4, AppendProperties
    <3> QED
      BY <1>6, <3>1, <3>2 DEF Path
  <2> QED
    BY <1>2, <1>5, <2>1
<1>8. \A k \in 1 .. Len(p) : q[k].base = p[k].base
  <2> TAKE k \in 1 .. Len(p)
  <2>1. k = Len(p) \/ k \in 1 .. Len(p) - 1
    BY <1>2
  <2>2. x.base = p[Len(p)].base
    BY <1>3, <1>4
  <2> QED
    BY <1>7, <2>1, <2>2
<1>9. q # Root
  BY <1>2, <1>7, PathMeans
<1>10. q = Numbered(p, i)
  BY <1>1, <1>6 DEF Numbered
<1> QED
  BY <1>3, <1>4, <1>7, <1>8, <1>9, <1>10

\* Two numbers make two names.
LEMMA NumberedApart ==
  ASSUME NEW p \in Path, p # Root, NEW i \in Nat, NEW k \in Nat, Numbered(p, i) = Numbered(p, k)
  PROVE  i = k
<1>1. Len(p) \in Nat /\ Len(p) # 0 /\ p[Len(p)] \in Name
  BY PathMeans
<1>2. PICK l \in Seq(Nat) : l = p[Len(p)].nums
  BY <1>1 DEF Name
<1>3. Append(l, i) = Append(l, k)
  <2>1. /\ Numbered(p, i)[Len(p)] = [base |-> p[Len(p)].base, nums |-> Append(l, i)]
        /\ Numbered(p, k)[Len(p)] = [base |-> p[Len(p)].base, nums |-> Append(l, k)]
    BY <1>2, NumberedMeans
  <2>2. /\ Numbered(p, i)[Len(p)].nums = Append(l, i)
        /\ Numbered(p, k)[Len(p)].nums = Append(l, k)
    BY <2>1
  <2> QED
    BY <2>2
<1>4. Append(l, i)[Len(l) + 1] = i /\ Append(l, k)[Len(l) + 1] = k
  BY AppendProperties
<1> QED
  BY <1>3, <1>4

\* Every set of numbers has a least one.
LEMMA LeastOf ==
  ASSUME NEW S \in SUBSET Nat, S # {}
  PROVE  \E i \in S : \A k \in S : ~ (k < i)
<1> DEFINE R == {ss \in Nat \X Nat : ss[1] < ss[2]}
<1>1. IsWellFoundedOn(R, Nat)
  BY NatLessThanWellFounded DEF OpToRel
<1>2. PICK i \in S : \A k \in S : ~ (<<k, i>> \in R)
  <2> HIDE DEF R
  <2> QED
    BY <1>1, WFMin
<1> QED
  BY <1>2

\* uniqueLocalDest finds a name (localfs.go:387-398).
LEMMA UniqueIsFree ==
  ASSUME TreeOK(disk), NEW p \in Path, p # Root
  PROVE  /\ \E i \in Nat : UniqueLocalDest(p) = Numbered(p, i)
         /\ ~ Exists(UniqueLocalDest(p))
<1> DEFINE n == Cardinality(DOMAIN disk)
           free == {i \in 1 .. n + 1 : ~ Exists(Numbered(p, i))}
<1>1. IsFiniteSet(DOMAIN disk) /\ n \in Nat
  BY FS_CardinalityType DEF TreeOK
<1>2. free # {}
  <2> SUFFICES ASSUME free = {}
               PROVE  FALSE
    OBVIOUS
  <2> DEFINE f == [i \in 1 .. n + 1 |-> Numbered(p, i)]
  <2>1. \A i \in 1 .. n + 1 : Numbered(p, i) \in DOMAIN disk
    <3> TAKE i \in 1 .. n + 1
    <3>1. i \in Nat /\ Exists(Numbered(p, i))
      BY <1>1
    <3> QED
      BY <3>1, NumberedMeans DEF Exists
  <2>2. f \in [1 .. n + 1 -> DOMAIN disk]
    BY <2>1
  <2>3. IsFiniteSet(1 .. n + 1) /\ Cardinality(1 .. n + 1) = n + 1
    <3>1. 1 \in Int /\ n + 1 \in Int /\ ~ (1 > n + 1)
      BY <1>1
    <3>2. IsFiniteSet(1 .. n + 1) /\ Cardinality(1 .. n + 1) = (n + 1) - 1 + 1
      <4> HIDE DEF n
      <4> QED
        BY <3>1, FS_Interval
    <3> QED
      BY <1>1, <3>2
  <2>4. PICK i \in 1 .. n + 1, k \in 1 .. n + 1 : i # k /\ f[i] = f[k]
    <3>1. Cardinality(DOMAIN disk) < Cardinality(1 .. n + 1)
      BY <1>1, <2>3
    <3> HIDE DEF n, f
    <3> QED
      BY <1>1, <2>2, <2>3, <3>1, FS_PigeonHole
  <2>5. i \in Nat /\ k \in Nat /\ Numbered(p, i) = Numbered(p, k)
    BY <1>1, <2>4
  <2> QED
    BY <2>4, <2>5, NumberedApart
<1>3. PICK i \in free : \A k \in free : ~ (k < i)
  <2>1. free \in SUBSET Nat
    BY <1>1
  <2> HIDE DEF free
  <2> QED
    BY <1>2, <2>1, LeastOf
<1>4. \E j \in 1 .. n + 1 : /\ ~ Exists(Numbered(p, j))
                            /\ \A k \in 1 .. j - 1 : Exists(Numbered(p, k))
  <2>1. ASSUME NEW k \in 1 .. i - 1
        PROVE  Exists(Numbered(p, k))
    <3>1. k \in 1 .. n + 1 /\ k < i
      BY <1>1
    <3> QED
      BY <1>3, <3>1
  <2> QED
    BY <1>3, <2>1
<1>5. PICK j : /\ UniqueLocalDest(p) = Numbered(p, j) /\ j \in 1 .. n + 1
               /\ ~ Exists(Numbered(p, j))
  <2> DEFINE j == CHOOSE j \in 1 .. n + 1 : /\ ~ Exists(Numbered(p, j))
                                            /\ \A k \in 1 .. j - 1 : Exists(Numbered(p, k))
  <2>1. j \in 1 .. n + 1 /\ ~ Exists(Numbered(p, j))
    BY <1>4
  <2>2. UniqueLocalDest(p) = Numbered(p, j)
    BY DEF UniqueLocalDest
  <2> QED
    BY <2>1, <2>2
<1> QED
  BY <1>1, <1>5

--------------------------------------------------------------------------
(* What the open calls of a request may be about *)

\* Where a call of copyFile or copyDir may be.
Steps == {"file", "place", "create", "stream", "unlink", "dir", "mkdir", "list", "entries"}
\* The steps of copyFile after it has looked at the destination.
Sending == {"place", "create", "stream", "unlink"}
\* What is known of a call in progress.
Frames == [at : Steps, from : Path, to : Path, todo : SUBSET Path, data : Contents]

\* What was there at the start and no request was told to remove or to replace.
Kept(p) ==
  /\ p \in DOMAIN Disk
  /\ \A r \in Requests : /\ p \notin GivenUp(r)
                         /\ order[r].op \in {"move", "rename"} => ~ IsPrefix(order[r].from, p)

\* q lies at or below p, numbers aside.
Stands(p, q) == Len(p) <= Len(q) /\ \A i \in 1 .. Len(p) : q[i].base = p[i].base

\* A call is about an entry of the source and its place below the destination,
\* and writes where nothing is to be kept.
Suits(r, f) ==
  /\ f \in Frames /\ Stands(order[r].to, f.to)
  /\ order[r].op \in {"copy", "move", "write"}
  /\ order[r].op = "write" => f.at \in {"create", "stream"}
  /\ order[r].op # "write" => IsPrefix(order[r].from, f.from)
  /\ order[r].op # "write" /\ Policy(r) = "replace" => IsPrefix(order[r].to, f.to)
  /\ \A c \in f.todo : IsPrefix(f.from, c)
  /\ f.at \in Sending => ~ Kept(f.to)
  /\ f.at = "unlink" => order[r].op = "move"
  /\ order[r].op # "write" /\ f.at \in Sending \cup {"file"} => f.from # Root
\* The calls a request may have in progress.
Good(r) == {f \in Frames : Suits(r, f)}

\* Exactly the running requests have calls in progress, and those are good.
StackOK ==
  /\ order \in Wishes
  /\ result \in [Requests -> {"waiting", "running", "ok", "error", "died"}]
  /\ stack \in [Requests -> Seq(Frames)]
  /\ \A r \in Requests : /\ stack[r] \in Seq(Good(r))
                         /\ result[r] = "running" <=> stack[r] # <<>>

\* The disk is a tree and has all that is to be kept.
DiskOK == TreeOK(disk) /\ \A p : Kept(p) => p \in DOMAIN disk /\ disk[p] = Disk[p]

\* What the steps of one call keep.
CallsOK == StackOK /\ DiskOK
\* What was passed over are entries.
PassedOK == passed \in [Requests -> SUBSET Path]

\* The inductive invariant.
LocalIInv == StackOK /\ DiskOK /\ PassedOK

\* A request asks for what a handler may ask for.
LEMMA OrderTyped ==
  ASSUME StackOK, NEW r \in Requests
  PROVE  order[r] \in Orders
BY WishesAssumption DEF StackOK

\* What a request takes away or writes over is not to be kept.
LEMMA KeptMeans ==
  ASSUME NEW r \in Requests, NEW p, Kept(p)
  PROVE  /\ p \in DOMAIN Disk
         /\ order[r].op \in {"move", "rename", "remove", "removeAll"} => ~ IsPrefix(order[r].from, p)
         /\ order[r].op \in {"write", "rename"} => ~ IsPrefix(order[r].to, p)
         /\ order[r].op \in {"copy", "move"} /\ Policy(r) = "replace" => ~ IsPrefix(order[r].to, p)
BY DEF Kept, GivenUp, Policy

\* A stack that is not empty.
LEMMA StackMeans ==
  ASSUME NEW A, NEW s \in Seq(A), s # <<>>
  PROVE  /\ Last(s) \in A /\ Front(s) \in Seq(A) /\ Len(s) = Len(Front(s)) + 1
         /\ Len(s) = 1 <=> Front(s) = <<>>
         /\ \A f \in A : /\ Append(Front(s), f) \in Seq(A) /\ Append(Front(s), f) # <<>>
                         /\ Last(Append(Front(s), f)) = f
<1>1. Len(s) \in Nat \ {0}
  BY EmptySeq
<1>2. Last(s) \in A
  BY <1>1, ElementOfSeq DEF Last
<1>3. Front(s) \in Seq(A) /\ Len(Front(s)) = Len(s) - 1
  <2>1. PICK m \in Nat : Len(s) = m + 1 /\ Len(s) - 1 = m
    BY <1>1
  <2>2. \A i \in 1 .. m : s[i] \in A
    BY <2>1, ElementOfSeq
  <2>3. SubSeq(s, 1, m) \in Seq(A) /\ Len(SubSeq(s, 1, m)) = m
    BY <2>2, SubSeqProperties
  <2> QED
    BY <2>1, <2>3 DEF Front
<1>4. Front(s) = <<>> <=> Len(Front(s)) = 0
  BY <1>3, EmptySeq
<1>5. ASSUME NEW f \in A
      PROVE  /\ Append(Front(s), f) \in Seq(A) /\ Append(Front(s), f) # <<>>
             /\ Last(Append(Front(s), f)) = f
  <2>1. PICK t \in Seq(A) : t = Front(s)
    BY <1>3
  <2>2. /\ Append(t, f) \in Seq(A) /\ Append(t, f) # <<>> /\ Len(Append(t, f)) = Len(t) + 1
        /\ Append(t, f)[Len(t) + 1] = f
    BY AppendProperties
  <2> QED
    BY <2>1, <2>2 DEF Last
<1> QED
  BY <1>1, <1>2, <1>3, <1>4, <1>5

\* What a step of a request does to its calls, and that the disk stays as it should be.
StackStep(r) ==
  /\ order' = order
  /\ \E s \in Seq(Good(r)), v \in {"running", "ok", "error"} :
       /\ stack' = [stack EXCEPT ![r] = s] /\ result' = [result EXCEPT ![r] = v]
       /\ v = "running" <=> s # <<>>
\* The disk stays a tree with all that is to be kept.
Spared == TreeOK(disk') /\ \A p : Kept(p) => p \in DOMAIN disk' /\ disk'[p] = Disk[p]

\* What is to be kept is settled by what was asked for.
LEMMA KeptStays ==
  ASSUME order' = order
  PROVE  /\ \A p : Kept(p)' <=> Kept(p)
         /\ \A r \in Requests : Good(r)' = Good(r)
<1>1. \A p : Kept(p)' <=> Kept(p)
  BY DEF Kept, GivenUp
<1> QED
  BY <1>1 DEF Good, Suits, Policy

\* A step that keeps its calls good and the disk as it should be.
LEMMA InvariantKept ==
  ASSUME LocalIInv, NEW r \in Requests, StackStep(r), Spared
  PROVE  CallsOK'
<1>1. /\ order' = order /\ \A p : Kept(p)' <=> Kept(p)
      /\ \A o \in Requests : Good(o)' = Good(o)
  BY KeptStays DEF StackStep
<1>2. DiskOK'
  BY <1>1 DEF Spared, DiskOK, TreeOK
<1>3. StackOK'
  <2>1. PICK s \in Seq(Good(r)), v \in {"running", "ok", "error"} :
          /\ stack' = [stack EXCEPT ![r] = s] /\ result' = [result EXCEPT ![r] = v]
          /\ v = "running" <=> s # <<>>
    BY DEF StackStep
  <2>2. s \in Seq(Frames)
    BY SeqMonotonic DEF Good
  <2>3. /\ order' \in Wishes
        /\ result' \in [Requests -> {"waiting", "running", "ok", "error", "died"}]
        /\ stack' \in [Requests -> Seq(Frames)]
    BY <1>1, <2>1, <2>2 DEF LocalIInv, StackOK
  <2>4. ASSUME NEW o \in Requests
        PROVE  stack'[o] \in Seq(Good(o)) /\ (result'[o] = "running" <=> stack'[o] # <<>>)
    BY <2>1 DEF LocalIInv, StackOK
  <2> QED
    BY <1>1, <2>3, <2>4 DEF StackOK
<1> QED
  BY <1>2, <1>3 DEF CallsOK

\* The innermost call of a running request is good, and so are those below it.
LEMMA TopGood ==
  ASSUME StackOK, NEW r \in Requests, result[r] = "running"
  PROVE  /\ Top(r) \in Frames /\ Suits(r, Top(r)) /\ Front(stack[r]) \in Seq(Good(r))
         /\ Len(stack[r]) = 1 <=> Front(stack[r]) = <<>>
<1>1. stack[r] \in Seq(Good(r)) /\ stack[r] # <<>>
  BY DEF StackOK
<1>2. /\ Last(stack[r]) \in Good(r) /\ Front(stack[r]) \in Seq(Good(r))
      /\ Len(stack[r]) = 1 <=> Front(stack[r]) = <<>>
  BY <1>1, StackMeans
<1> QED
  BY <1>2 DEF Top, Good

\* A call that goes on as a good one.
LEMMA BecomeStep ==
  ASSUME StackOK, NEW r \in Requests, result[r] = "running", NEW f \in Frames, Suits(r, f),
         Become(r, f)
  PROVE  StackStep(r)
<1>1. stack[r] \in Seq(Good(r)) /\ stack[r] # <<>> /\ f \in Good(r)
  BY DEF StackOK, Good
<1>2. PICK s : s = Append(Front(stack[r]), f) /\ s \in Seq(Good(r)) /\ s # <<>>
  BY <1>1, StackMeans
<1>3. stack' = [stack EXCEPT ![r] = s] /\ UNCHANGED <<order, result>>
  BY <1>2 DEF Become
<1>4. result' = [result EXCEPT ![r] = "running"]
  BY <1>3 DEF StackOK
<1> QED
  BY <1>2, <1>3, <1>4 DEF StackStep

\* The next step of the same call.
LEMMA GotoStep ==
  ASSUME StackOK, NEW r \in Requests, result[r] = "running", NEW stage \in Steps, Goto(r, stage),
         order[r].op = "write" => stage \in {"create", "stream"},
         stage \in Sending => ~ Kept(Top(r).to),
         stage = "unlink" => order[r].op = "move",
         stage \in Sending \cup {"file"} => Top(r).at \in Sending \cup {"file"}
  PROVE  StackStep(r)
<1>1. PICK f : f = [Top(r) EXCEPT !.at = stage]
  OBVIOUS
<1>2. Top(r) \in Frames /\ Suits(r, Top(r))
  BY TopGood
<1>3. /\ f \in Frames /\ f.at = stage /\ f.from = Top(r).from /\ f.to = Top(r).to
      /\ f.todo = Top(r).todo
  BY <1>1, <1>2 DEF Frames
<1>4. Suits(r, f)
  BY <1>2, <1>3 DEF Suits
<1> QED
  BY <1>1, <1>3, <1>4, BecomeStep DEF Goto

\* A call that ends well gives way to the one that made it, or is the answer.
LEMMA ReturnStep ==
  ASSUME StackOK, NEW r \in Requests, result[r] = "running", Return(r)
  PROVE  StackStep(r)
<1>1. PICK s \in Seq(Good(r)) : /\ s = Front(stack[r])
                                /\ Len(stack[r]) = 1 <=> s = <<>>
  BY TopGood
<1>2. /\ stack' = [stack EXCEPT ![r] = s] /\ order' = order
      /\ result' = [result EXCEPT ![r] = IF s = <<>> THEN "ok" ELSE "running"]
  BY <1>1 DEF Return, StackOK
<1> QED
  BY <1>2 DEF StackStep

\* A call that ends badly ends all.
LEMMA FailStep ==
  ASSUME NEW r \in Requests, Fail(r)
  PROVE  StackStep(r)
<1>1. <<>> \in Seq(Good(r))
  BY EmptySeq
<1> QED
  BY <1>1 DEF Fail, StackStep

\* A request of one system call.
LEMMA DoneStep ==
  ASSUME StackOK, NEW r \in Requests, result[r] = "waiting", Done(r)
  PROVE  StackStep(r)
<1>1. stack[r] = <<>> /\ <<>> \in Seq(Good(r))
  BY EmptySeq DEF StackOK
<1>2. stack' = [stack EXCEPT ![r] = <<>>]
  BY <1>1 DEF Done, StackOK
<1> QED
  BY <1>1, <1>2 DEF Done, StackStep

\* A request that begins its first call.
LEMMA EnterStep ==
  ASSUME NEW r \in Requests, NEW f \in Frames, Suits(r, f), Enter(r, f)
  PROVE  StackStep(r)
<1>1. <<f>> \in Seq(Good(r)) /\ <<f>> # <<>>
  BY DEF Good
<1> QED
  BY <1>1 DEF Enter, StackStep

--------------------------------------------------------------------------
(* What the system calls spare *)

\* No change of the disk.
LEMMA NothingSpared ==
  ASSUME DiskOK, UNCHANGED disk
  PROVE  Spared
BY DEF DiskOK, Spared, TreeOK

\* A new node where nothing is to be kept.
LEMMA PutSpared ==
  ASSUME DiskOK, NEW p \in Path, p # Root, IsDir(Front(p)), NEW node \in Node,
         node.type # "dir" => ~ IsDir(p), Put(p, node), ~ Kept(p)
  PROVE  Spared
<1>1. TreeOK(disk')
  BY PutKeeps DEF DiskOK
<1>2. \A q \in DOMAIN disk : q # p => q \in DOMAIN disk' /\ disk'[q] = disk[q]
  BY DEF Put
<1> QED
  BY <1>1, <1>2 DEF DiskOK, Spared

\* Removing what is not to be kept.
LEMMA DeleteSpared ==
  ASSUME DiskOK, NEW ps, Delete(ps), TreeOK(disk'), \A p \in ps : ~ Kept(p)
  PROVE  Spared
BY DEF DiskOK, Spared, Delete

\* Renaming what is not to be kept to where nothing is to be kept.
LEMMA RelocateSpared ==
  ASSUME DiskOK, NEW p \in Path, NEW to \in Path, CanRename(p, to), Relocate(p, to),
         \A q : Kept(q) => ~ IsPrefix(p, q) /\ q # to
  PROVE  Spared
<1>1. TreeOK(disk')
  BY RelocateKeeps DEF DiskOK
<1>2. ASSUME NEW q, Kept(q)
      PROVE  q \in DOMAIN disk' /\ disk'[q] = Disk[q]
  BY <1>2, RelocateSpares DEF DiskOK
<1> QED
  BY <1>1, <1>2 DEF Spared

\* Nothing that is missing is to be kept.
LEMMA KeptIsThere ==
  ASSUME DiskOK, NEW p, ~ Exists(p)
  PROVE  ~ Kept(p)
BY DEF DiskOK, Exists

\* What mkdir and os.Create put there is a node.
LEMMA NodesTyped ==
  /\ Folder \in Node
  /\ \A data \in Contents : File(data) \in Node /\ Link(data) \in Node
  /\ Torn \in Contents /\ Sent \in Contents
BY DEF Folder, Node, File, Link, Contents

\* Writing a file where nothing is to be kept.
LEMMA WriteSpared ==
  ASSUME DiskOK, NEW p \in Path, CanCreate(p), NEW data \in Contents, WriteTo(p, data), ~ Kept(p)
  PROVE  Spared
<1>1. PICK node : /\ Put(p, node) /\ node \in Node /\ node.type # "dir"
  BY NodesTyped DEF WriteTo, File, Link
<1>2. ~ IsDir(p) /\ IsDir(Front(p)) /\ p # Root
  BY DEF CanCreate, IsDir, TypeOf
<1> QED
  BY <1>1, <1>2, PutSpared

\* What is there lies in a folder.
LEMMA ThereInFolder ==
  ASSUME TreeOK(disk), NEW p \in DOMAIN disk
  PROVE  p \in Path /\ p # Root /\ IsDir(Front(p))
<1>1. p \in Path /\ p # Root
  BY DEF TreeOK
<1>2. Front(p) \in Path /\ IsPrefix(Front(p), p) /\ Front(p) # p
  BY <1>1, FrontMeans
<1> QED
  BY <1>1, <1>2, IsDirMeans DEF TreeOK

--------------------------------------------------------------------------
(* The requests *)

\* A path stands at itself.
LEMMA StandsItself ==
  ASSUME NEW p \in Path
  PROVE  Stands(p, p)
<1>1. Len(p) \in Nat
  BY PathMeans
<1> QED
  BY <1>1 DEF Stands

\* A call that has just been made.
LEMMA FrameTyped ==
  ASSUME NEW stage \in Steps, NEW from \in Path, NEW to \in Path
  PROVE  /\ Frame(stage, from, to) \in Frames
         /\ Frame(stage, from, to).at = stage /\ Frame(stage, from, to).from = from
         /\ Frame(stage, from, to).to = to /\ Frame(stage, from, to).todo = {}
BY NodesTyped DEF Frame, Frames

\* Copy begins, or refuses (localfs.go:222-250).
LEMMA CopyStep ==
  ASSUME LocalIInv, NEW r \in Requests, Copy(r)
  PROVE  CallsOK'
<1> DEFINE o == order[r]
           stage == IF IsDir(o.from) THEN "dir" ELSE "file"
           f == Frame(stage, o.from, o.to)
<1>1. /\ o \in Orders /\ o.op \in {"copy", "move"} /\ result[r] = "waiting"
      /\ o.from \in Path /\ o.to \in Path
  BY OrderTyped DEF LocalIInv, Copy, Begins, Orders
<1>2. CASE Refuse(r)
  BY <1>2, FailStep, NothingSpared, InvariantKept DEF Refuse, LocalIInv
<1>3. CASE Enter(r, f)
  <2>1. /\ f \in Frames /\ f.at = stage /\ f.from = o.from /\ f.to = o.to /\ f.todo = {}
        /\ stage \in {"dir", "file"}
    BY <1>1, FrameTyped DEF Steps
  <2>2. stage = "file" => o.from # Root
    BY DEF IsDir, TypeOf
  <2>3. Suits(r, f)
    BY <1>1, <2>1, <2>2, StandsItself, PrefixItself DEF Suits, Sending
  <2>4. UNCHANGED disk
    BY <1>3 DEF Enter
  <2> HIDE DEF f
  <2> QED
    BY <1>3, <2>1, <2>3, <2>4, EnterStep, NothingSpared, InvariantKept DEF LocalIInv
<1> QED
  BY <1>2, <1>3 DEF Copy

\* The upload to the local disk (localfs.go:203-213).
LEMMA WriteStep ==
  ASSUME LocalIInv, NEW r \in Requests, Write(r)
  PROVE  CallsOK'
<1> DEFINE o == order[r]
<1>1. /\ o \in Orders /\ o.op = "write" /\ result[r] = "waiting"
      /\ o.from \in Path /\ o.to \in Path
  BY OrderTyped DEF LocalIInv, Write, Begins, Orders
<1>2. PICK f : f = [Frame("create", o.to, o.to) EXCEPT !.data = Sent]
  OBVIOUS
<1>3. /\ f \in Frames /\ f.at = "create" /\ f.from = o.to /\ f.to = o.to /\ f.todo = {}
  BY <1>1, <1>2, NodesTyped DEF Frame, Frames, Steps
<1>4. Suits(r, f)
  <2>1. ~ Kept(o.to)
    BY <1>1, KeptMeans, PrefixItself
  <2> QED
    BY <1>1, <1>3, <2>1, StandsItself DEF Suits
<1>5. Enter(r, f)
  BY <1>2 DEF Write
<1>6. UNCHANGED disk
  BY <1>5 DEF Enter
<1> QED
  BY <1>3, <1>4, <1>5, <1>6, EnterStep, NothingSpared, InvariantKept DEF LocalIInv

\* Remove, Rename and Mkdir.
LEMMA SimpleStep ==
  ASSUME LocalIInv, NEW r \in Requests, Simple(r)
  PROVE  CallsOK'
<1> DEFINE o == order[r]
<1>1. /\ o \in Orders /\ o.op \in {"remove", "removeAll", "rename", "mkdir"}
      /\ result[r] = "waiting" /\ o.from \in Path /\ o.to \in Path
  BY OrderTyped DEF LocalIInv, Simple, Begins, Orders
<1>2. TreeOK(disk) /\ DiskOK /\ StackOK
  BY DEF LocalIInv, DiskOK
<1>3. CASE Refuse(r)
  BY <1>3, FailStep, NothingSpared, InvariantKept DEF Refuse, LocalIInv
<1>4. ASSUME Done(r), Spared
      PROVE  CallsOK'
  BY <1>1, <1>2, <1>4, DoneStep, InvariantKept
<1>5. CASE o.op = "remove" /\ CanRemove(o.from) /\ Delete({o.from}) /\ Done(r)
  <2>1. TreeOK(disk')
    BY <1>1, <1>2, <1>5, RemoveKeeps
  <2>2. ~ Kept(o.from)
    BY <1>1, <1>5, KeptMeans, PrefixItself
  <2> QED
    BY <1>2, <1>4, <1>5, <2>1, <2>2, DeleteSpared
<1>6. CASE o.op = "removeAll" /\ Delete(Below(o.from)) /\ Done(r)
  <2>1. TreeOK(disk')
    BY <1>1, <1>2, <1>6, RemoveAllKeeps
  <2>2. \A p \in Below(o.from) : ~ Kept(p)
    BY <1>1, <1>6, KeptMeans DEF Below
  <2> QED
    BY <1>2, <1>4, <1>6, <2>1, <2>2, DeleteSpared
<1>7. CASE o.op = "rename" /\ CanRename(o.from, o.to) /\ Relocate(o.from, o.to) /\ Done(r)
  <2>1. \A q : Kept(q) => ~ IsPrefix(o.from, q) /\ q # o.to
    BY <1>1, <1>7, KeptMeans, PrefixItself
  <2> QED
    BY <1>1, <1>2, <1>4, <1>7, <2>1, RelocateSpared
<1>8. CASE o.op = "mkdir" /\ CanMkdir(o.to) /\ Put(o.to, Folder) /\ Done(r)
  <2>1. /\ IsDir(Front(o.to)) /\ ~ Exists(o.to) /\ o.to # Root
    BY <1>8 DEF CanMkdir, Exists
  <2>2. ~ Kept(o.to) /\ Folder.type = "dir"
    BY <1>2, <2>1, KeptIsThere DEF Folder
  <2>3. Spared
    BY <1>1, <1>2, <1>8, <2>1, <2>2, NodesTyped, PutSpared
  <2> QED
    BY <1>4, <1>8, <2>3
<1> QED
  BY <1>3, <1>5, <1>6, <1>7, <1>8 DEF Simple

--------------------------------------------------------------------------
(* copyFile *)

\* What is known of the innermost call.
LEMMA RunningTop ==
  ASSUME LocalIInv, NEW r \in Requests, NEW stage, At(r, stage)
  PROVE  /\ StackOK /\ DiskOK /\ TreeOK(disk) /\ result[r] = "running" /\ Top(r).at = stage
         /\ Top(r) \in Frames /\ Suits(r, Top(r)) /\ Top(r).to \in Path /\ Top(r).from \in Path
         /\ order[r] \in Orders /\ order[r].from \in Path /\ order[r].to \in Path
         /\ order[r].op \in {"copy", "move", "write"}
         /\ stage \notin {"create", "stream"} => order[r].op \in {"copy", "move"}
         /\ stage \in Sending => ~ Kept(Top(r).to)
         /\ stage \in {"file", "place", "unlink"} => Top(r).from # Root
<1>1. StackOK /\ DiskOK /\ TreeOK(disk) /\ result[r] = "running" /\ Top(r).at = stage
  BY DEF LocalIInv, DiskOK, At
<1>2. Top(r) \in Frames /\ Suits(r, Top(r)) /\ order[r] \in Orders
  BY <1>1, TopGood, OrderTyped
<1>3. Top(r).to \in Path /\ Top(r).from \in Path /\ order[r].from \in Path /\ order[r].to \in Path
  BY <1>2 DEF Frames, Orders
<1> QED
  BY <1>1, <1>2, <1>3 DEF Suits, Sending

\* The place beside a destination that is taken.
LEMMA BesideStep ==
  ASSUME LocalIInv, NEW r \in Requests, NEW stage \in Steps \ {"create", "stream"},
         At(r, stage), NEW next \in Steps \ {"unlink"},
         next \in Sending \cup {"file"} => stage \in Sending \cup {"file"},
         Top(r).to # Root, Policy(r) = "rename",
         Become(r, [Top(r) EXCEPT !.to = UniqueLocalDest(Top(r).to), !.at = next])
  PROVE  StackStep(r)
<1> DEFINE to == Top(r).to
<1>1. /\ StackOK /\ DiskOK /\ TreeOK(disk) /\ result[r] = "running" /\ to \in Path
      /\ Top(r).at = stage
      /\ Top(r) \in Frames /\ Suits(r, Top(r)) /\ order[r].op \in {"copy", "move"}
      /\ order[r].to \in Path
  BY RunningTop
<1>2. PICK i \in Nat : UniqueLocalDest(to) = Numbered(to, i) /\ ~ Exists(UniqueLocalDest(to))
  BY <1>1, UniqueIsFree
<1>3. PICK new \in Path : /\ new = UniqueLocalDest(to) /\ Len(new) = Len(to) /\ ~ Kept(new)
                          /\ \A k \in 1 .. Len(to) : new[k].base = to[k].base
  <2>1. ~ Kept(UniqueLocalDest(to))
    BY <1>1, <1>2, KeptIsThere
  <2>2. /\ Numbered(to, i) \in Path /\ Len(Numbered(to, i)) = Len(to)
        /\ \A k \in 1 .. Len(to) : Numbered(to, i)[k].base = to[k].base
    BY <1>1, NumberedMeans
  <2> QED
    BY <1>2, <2>1, <2>2
<1>4. PICK f : f = [Top(r) EXCEPT !.to = new, !.at = next]
  OBVIOUS
<1>5. /\ f \in Frames /\ f.at = next /\ f.from = Top(r).from /\ f.to = new /\ f.todo = Top(r).todo
  BY <1>1, <1>4 DEF Frames
<1>6. Stands(order[r].to, new)
  <2>1. Len(order[r].to) \in Nat /\ Len(to) \in Nat
    BY <1>1, PathMeans
  <2>2. /\ Len(order[r].to) <= Len(to)
        /\ \A k \in 1 .. Len(order[r].to) : to[k].base = order[r].to[k].base
    BY <1>1 DEF Suits, Stands
  <2>3. \A k \in 1 .. Len(order[r].to) : new[k].base = to[k].base
    BY <1>3, <2>1, <2>2
  <2> QED
    BY <1>3, <2>2, <2>3 DEF Stands
<1>7. Suits(r, f)
  BY <1>1, <1>3, <1>5, <1>6 DEF Suits
<1> QED
  BY <1>1, <1>3, <1>4, <1>5, <1>7, BecomeStep

\* copyFile looks at its destination and goes by the policy.
LEMMA CopyFileStep ==
  ASSUME LocalIInv, NEW r \in Requests, CopyFile(r)
  PROVE  CallsOK'
<1> DEFINE to == Top(r).to
<1>1. /\ At(r, "file") /\ UNCHANGED disk /\ "place" \in Steps /\ "file" \in Steps
  BY DEF CopyFile, Steps
<1>2. /\ StackOK /\ DiskOK /\ result[r] = "running" /\ to \in Path /\ order[r].to \in Path
      /\ Suits(r, Top(r)) /\ order[r].op \in {"copy", "move"} /\ Top(r).at = "file"
  BY <1>1, RunningTop
<1>3. CASE ~ Exists(to) /\ Goto(r, "place")
  BY <1>1, <1>2, <1>3, KeptIsThere, GotoStep, NothingSpared, InvariantKept
<1>4. CASE Return(r)
  BY <1>1, <1>2, <1>4, ReturnStep, NothingSpared, InvariantKept
<1>5. CASE Fail(r)
  BY <1>1, <1>2, <1>5, FailStep, NothingSpared, InvariantKept
<1>6. CASE Policy(r) = "replace" /\ Goto(r, "place")
  <2>1. IsPrefix(order[r].to, to)
    BY <1>2, <1>6 DEF Suits
  <2>2. ~ Kept(to)
    BY <1>2, <1>6, <2>1, KeptMeans
  <2> QED
    BY <1>1, <1>2, <1>6, <2>2, GotoStep, NothingSpared, InvariantKept
<1>7. CASE /\ ~ IsDir(to) /\ Policy(r) = "rename"
           /\ Become(r, [Top(r) EXCEPT !.to = UniqueLocalDest(to), !.at = "place"])
  <2>1. to # Root
    BY <1>7 DEF IsDir, TypeOf
  <2> QED
    <3>1. StackStep(r)
      BY <1>1, <1>7, <2>1, BesideStep DEF Steps
    <3> QED
      BY <1>1, <1>2, <3>1, NothingSpared, InvariantKept
<1> QED
  BY <1>3, <1>4, <1>5, <1>6, <1>7 DEF CopyFile

\* os.Rename of a file that moves on one file system.
LEMMA MoveFileStep ==
  ASSUME LocalIInv, NEW r \in Requests, MoveFile(r)
  PROVE  CallsOK'
<1> DEFINE f == Top(r)
<1>1. At(r, "place") /\ order[r].op = "move"
  BY DEF MoveFile, Moving
<1>2. /\ StackOK /\ DiskOK /\ result[r] = "running" /\ f.to \in Path /\ f.from \in Path
      /\ TreeOK(disk) /\ ~ Kept(f.to) /\ order[r].from \in Path /\ Suits(r, f)
  BY <1>1, RunningTop DEF Sending
<1>3. CASE CanRename(f.from, f.to) /\ Relocate(f.from, f.to) /\ Return(r)
  <2>1. ASSUME NEW q, Kept(q)
        PROVE  ~ IsPrefix(f.from, q) \/ q \notin Path
    <3>1. ~ IsPrefix(order[r].from, q)
      BY <1>1, <2>1, KeptMeans
    <3>2. IsPrefix(order[r].from, f.from)
      BY <1>1, <1>2 DEF Suits
    <3> QED
      BY <1>2, <3>1, <3>2, PrefixPrefix
  <2>2. \A q : Kept(q) => q \in Path
    BY DEF Kept, DiskOK, LocalIInv, TreeOK
  <2> HIDE DEF f
  <2>3. Spared
    BY <1>2, <1>3, <2>1, <2>2, RelocateSpared
  <2> QED
    BY <1>2, <1>3, <2>3, ReturnStep, InvariantKept
<1>4. CASE Refuse(r)
  BY <1>2, <1>4, FailStep, NothingSpared, InvariantKept DEF Refuse
<1> QED
  BY <1>3, <1>4 DEF MoveFile

\* os.Open of the source.
LEMMA OpenSourceStep ==
  ASSUME LocalIInv, NEW r \in Requests, OpenSource(r)
  PROVE  CallsOK'
<1>1. At(r, "place") /\ UNCHANGED disk
  BY DEF OpenSource
<1>2. /\ StackOK /\ DiskOK /\ result[r] = "running" /\ TreeOK(disk) /\ Top(r) \in Frames
      /\ ~ Kept(Top(r).to) /\ Suits(r, Top(r)) /\ order[r].op \in {"copy", "move"}
      /\ Top(r).from # Root
  BY <1>1, RunningTop DEF Sending
<1>3. CASE /\ Exists(Top(r).from)
           /\ Become(r, [Top(r) EXCEPT !.at = "create", !.data = disk[Top(r).from].data])
  <2>1. disk[Top(r).from].data \in Contents
    BY <1>2, <1>3 DEF Exists, TreeOK, Node
  <2>2. PICK f : f = [Top(r) EXCEPT !.at = "create", !.data = disk[Top(r).from].data]
    OBVIOUS
  <2>3. /\ f \in Frames /\ f.at = "create" /\ f.from = Top(r).from /\ f.to = Top(r).to
        /\ f.todo = Top(r).todo
    BY <1>2, <2>1, <2>2 DEF Frames, Steps
  <2>4. Suits(r, f)
    BY <1>2, <2>3 DEF Suits
  <2> QED
    BY <1>1, <1>2, <1>3, <2>2, <2>3, <2>4, BecomeStep, NothingSpared, InvariantKept
<1>4. CASE Fail(r)
  BY <1>1, <1>2, <1>4, FailStep, NothingSpared, InvariantKept
<1> QED
  BY <1>3, <1>4 DEF OpenSource

\* os.Create of the destination.
LEMMA CreateStep ==
  ASSUME LocalIInv, NEW r \in Requests, Create(r)
  PROVE  CallsOK'
<1> DEFINE f == Top(r)
<1>1. At(r, "create") /\ {"create", "stream"} \subseteq Steps \cap Sending
  BY DEF Create, Steps, Sending
<1>2. /\ StackOK /\ DiskOK /\ result[r] = "running" /\ f.to \in Path /\ ~ Kept(f.to)
      /\ f.at = "create"
  BY <1>1, RunningTop
<1>3. CASE CanCreate(f.to) /\ WriteTo(f.to, Torn) /\ Goto(r, "stream")
  <2>1. Spared
    BY <1>2, <1>3, NodesTyped, WriteSpared
  <2> QED
    BY <1>1, <1>2, <1>3, <2>1, GotoStep, InvariantKept
<1>4. CASE Refuse(r)
  BY <1>2, <1>4, FailStep, NothingSpared, InvariantKept DEF Refuse
<1> QED
  BY <1>3, <1>4 DEF Create

\* The data goes over, or what is there is removed.
LEMMA StreamStep ==
  ASSUME LocalIInv, NEW r \in Requests, Stream(r)
  PROVE  CallsOK'
<1> DEFINE f == Top(r)
<1>1. At(r, "stream") /\ {"stream", "unlink"} \subseteq Steps \cap Sending
  BY DEF Stream, Steps, Sending
<1>2. /\ StackOK /\ DiskOK /\ TreeOK(disk) /\ result[r] = "running" /\ f.to \in Path
      /\ ~ Kept(f.to) /\ f.at = "stream" /\ f.data \in Contents
  BY <1>1, RunningTop DEF Frames
<1>3. CASE Filled(r)
  <2>1. Spared
    <3>1. CASE TypeOf(f.to) \in {"file", "link"} /\ WriteTo(f.to, f.data)
      <4>1. f.to \in DOMAIN disk /\ ~ IsDir(f.to)
        BY <3>1 DEF TypeOf, IsDir, Exists
      <4>2. CanCreate(f.to)
        BY <1>2, <4>1, ThereInFolder DEF CanCreate
      <4> QED
        BY <1>2, <3>1, <4>2, WriteSpared
    <3>2. CASE UNCHANGED disk
      BY <1>2, <3>2, NothingSpared
    <3> QED
      BY <1>3, <3>1, <3>2 DEF Filled
  <2>2. CASE Moving(r) /\ Goto(r, "unlink")
    BY <1>1, <1>2, <2>1, <2>2, GotoStep, InvariantKept DEF Moving
  <2>3. CASE Return(r)
    BY <1>2, <2>1, <2>3, ReturnStep, InvariantKept
  <2> QED
    BY <1>3, <2>2, <2>3 DEF Filled
<1>4. CASE (IF CanRemove(f.to) THEN Delete({f.to}) ELSE UNCHANGED disk) /\ Fail(r)
  <2>1. Spared
    <3>1. CASE CanRemove(f.to) /\ Delete({f.to})
      BY <1>2, <3>1, RemoveKeeps, DeleteSpared
    <3>2. CASE UNCHANGED disk
      BY <1>2, <3>2, NothingSpared
    <3> QED
      BY <1>4, <3>1, <3>2
  <2> QED
    BY <1>4, <2>1, FailStep, InvariantKept
<1> QED
  BY <1>3, <1>4 DEF Stream

\* The source of a move between file systems goes.
LEMMA UnlinkStep ==
  ASSUME LocalIInv, NEW r \in Requests, Unlink(r)
  PROVE  CallsOK'
<1> DEFINE from == Top(r).from
<1>1. At(r, "unlink")
  BY DEF Unlink
<1>2. /\ StackOK /\ DiskOK /\ TreeOK(disk) /\ result[r] = "running" /\ from \in Path
      /\ Suits(r, Top(r)) /\ order[r].op \in {"copy", "move"} /\ order[r].from \in Path
      /\ Top(r).at = "unlink"
  BY <1>1, RunningTop
<1>3. CASE CanRemove(from) /\ Delete({from}) /\ Return(r)
  <2>1. ~ Kept(from)
    <3>1. IsPrefix(order[r].from, from) /\ order[r].op = "move"
      BY <1>2 DEF Suits
    <3> QED
      BY <3>1, KeptMeans
  <2> QED
    BY <1>2, <1>3, <2>1, RemoveKeeps, DeleteSpared, ReturnStep, InvariantKept
<1>4. CASE Refuse(r)
  BY <1>2, <1>4, FailStep, NothingSpared, InvariantKept DEF Refuse
<1> QED
  BY <1>3, <1>4 DEF Unlink

--------------------------------------------------------------------------
(* copyDir *)

\* copyDir looks at its destination and goes by the policy.
LEMMA CopyDirStep ==
  ASSUME LocalIInv, NEW r \in Requests, CopyDir(r)
  PROVE  CallsOK'
<1> DEFINE to == Top(r).to
<1>1. /\ At(r, "dir") /\ UNCHANGED disk /\ {"dir", "list", "mkdir"} \subseteq Steps
      /\ {"dir", "list", "mkdir"} \cap (Sending \cup {"file"}) = {}
  BY DEF CopyDir, Steps, Sending
<1>2. /\ StackOK /\ DiskOK /\ result[r] = "running" /\ to \in Path
      /\ Suits(r, Top(r)) /\ order[r].op \in {"copy", "move"}
  BY <1>1, RunningTop
<1>3. ASSUME NEW stage \in {"list", "mkdir"}, Goto(r, stage)
      PROVE  CallsOK'
  BY <1>1, <1>2, <1>3, GotoStep, NothingSpared, InvariantKept
<1>4. CASE Return(r)
  BY <1>1, <1>2, <1>4, ReturnStep, NothingSpared, InvariantKept
<1>5. CASE Fail(r)
  BY <1>1, <1>2, <1>5, FailStep, NothingSpared, InvariantKept
<1>6. CASE /\ ~ IsDir(to) /\ Policy(r) = "rename"
           /\ Become(r, [Top(r) EXCEPT !.to = UniqueLocalDest(to), !.at = "mkdir"])
  <2>1. to # Root
    BY <1>6 DEF IsDir, TypeOf
  <2> QED
    BY <1>1, <1>2, <1>6, <2>1, BesideStep, NothingSpared, InvariantKept
<1> QED
  BY <1>3, <1>4, <1>5, <1>6 DEF CopyDir

\* os.Mkdir of the destination.
LEMMA MakeDirStep ==
  ASSUME LocalIInv, NEW r \in Requests, MakeDir(r)
  PROVE  CallsOK'
<1> DEFINE to == Top(r).to
<1>1. /\ At(r, "mkdir") /\ {"list", "mkdir"} \subseteq Steps
      /\ {"list", "mkdir"} \cap (Sending \cup {"file"}) = {}
  BY DEF MakeDir, Steps, Sending
<1>2. /\ StackOK /\ DiskOK /\ result[r] = "running" /\ to \in Path
      /\ order[r].op \in {"copy", "move"}
  BY <1>1, RunningTop
<1>3. CASE CanMkdir(to) /\ Put(to, Folder) /\ Goto(r, "list")
  <2>1. IsDir(Front(to)) /\ ~ Exists(to) /\ to # Root
    BY <1>3 DEF CanMkdir, Exists
  <2>2. ~ Kept(to) /\ Folder.type = "dir"
    BY <1>2, <2>1, KeptIsThere DEF Folder
  <2>3. Spared
    BY <1>2, <1>3, <2>1, <2>2, NodesTyped, PutSpared
  <2> QED
    BY <1>1, <1>2, <1>3, <2>3, GotoStep, InvariantKept
<1>4. CASE Refuse(r)
  BY <1>2, <1>4, FailStep, NothingSpared, InvariantKept DEF Refuse
<1> QED
  BY <1>3, <1>4 DEF MakeDir

\* os.ReadDir of the source.
LEMMA ReadDirStep ==
  ASSUME LocalIInv, NEW r \in Requests, ReadDir(r)
  PROVE  CallsOK'
<1>1. At(r, "list") /\ UNCHANGED disk
  BY DEF ReadDir
<1>2. /\ StackOK /\ DiskOK /\ TreeOK(disk) /\ result[r] = "running" /\ Top(r) \in Frames
      /\ Suits(r, Top(r)) /\ order[r].op \in {"copy", "move"}
  BY <1>1, RunningTop
<1>3. CASE Become(r, [Top(r) EXCEPT !.at = "entries", !.todo = Children(Top(r).from)])
  <2>1. /\ Children(Top(r).from) \in SUBSET Path
        /\ \A c \in Children(Top(r).from) : IsPrefix(Top(r).from, c)
    BY <1>2 DEF Children, Below, TreeOK
  <2>2. PICK f : f = [Top(r) EXCEPT !.at = "entries", !.todo = Children(Top(r).from)]
    OBVIOUS
  <2>3. /\ f \in Frames /\ f.at = "entries" /\ f.from = Top(r).from /\ f.to = Top(r).to
        /\ f.todo = Children(Top(r).from)
    BY <1>2, <2>1, <2>2 DEF Frames, Steps
  <2>4. Suits(r, f)
    BY <1>2, <2>1, <2>3 DEF Suits, Sending
  <2> QED
    BY <1>1, <1>2, <1>3, <2>2, <2>3, <2>4, BecomeStep, NothingSpared, InvariantKept
<1>4. CASE Fail(r)
  BY <1>1, <1>2, <1>4, FailStep, NothingSpared, InvariantKept
<1> QED
  BY <1>3, <1>4 DEF ReadDir

\* The place of an entry of a folder.
LEMMA EntryPlace ==
  ASSUME LocalIInv, NEW r \in Requests, At(r, "entries"), NEW c \in Top(r).todo
  PROVE  LET to == Under(Top(r).to, Top(r).from, c)
         IN  /\ c \in Path /\ to \in Path /\ IsPrefix(order[r].from, c) /\ Stands(order[r].to, to)
             /\ Policy(r) = "replace" => IsPrefix(order[r].to, to)
<1> DEFINE f == Top(r)
<1>1. /\ f \in Frames /\ Suits(r, f) /\ f.to \in Path /\ f.from \in Path
      /\ order[r].from \in Path /\ order[r].to \in Path /\ order[r].op # "write"
  BY RunningTop
<1>2. c \in Path /\ IsPrefix(f.from, c)
  BY <1>1 DEF Frames, Suits
<1>3. IsPrefix(order[r].from, c)
  BY <1>1, <1>2, PrefixPrefix DEF Suits
<1>4. PICK to : to = Under(f.to, f.from, c) /\ Lies(to, f.to, c, f.from)
  BY <1>1, <1>2, UnderMeans
<1>5. to \in Path /\ IsPrefix(f.to, to)
  BY <1>4 DEF Lies
<1>6. Stands(order[r].to, to)
  <2>1. Len(order[r].to) \in Nat /\ Len(f.to) \in Nat /\ Len(to) \in Nat
    BY <1>1, <1>5, PathMeans
  <2>2. /\ Len(order[r].to) <= Len(f.to)
        /\ \A i \in 1 .. Len(order[r].to) : f.to[i].base = order[r].to[i].base
    BY <1>1 DEF Suits, Stands
  <2>3. Len(f.to) <= Len(to) /\ \A i \in 1 .. Len(f.to) : f.to[i] = to[i]
    BY <1>1, <1>5, PrefixMeans
  <2>4. \A i \in 1 .. Len(order[r].to) : to[i].base = order[r].to[i].base
    <3> TAKE i \in 1 .. Len(order[r].to)
    <3>1. i \in 1 .. Len(f.to)
      BY <2>1, <2>2
    <3>2. f.to[i] = to[i] /\ f.to[i].base = order[r].to[i].base
      BY <2>2, <2>3, <3>1
    <3> QED
      BY <3>2
  <2> QED
    BY <2>1, <2>2, <2>3, <2>4 DEF Stands
<1>7. Policy(r) = "replace" => IsPrefix(order[r].to, to)
  BY <1>1, <1>5, PrefixPrefix DEF Suits
<1> QED
  BY <1>2, <1>3, <1>4, <1>5, <1>6, <1>7

\* copyDir calls itself or copyFile for an entry, or passes it over.
LEMMA EntryStep ==
  ASSUME LocalIInv, NEW r \in Requests, Entry(r)
  PROVE  CallsOK'
<1>1. At(r, "entries") /\ UNCHANGED disk
  BY DEF Entry
<1>2. /\ StackOK /\ DiskOK /\ TreeOK(disk) /\ result[r] = "running" /\ Top(r) \in Frames
      /\ Suits(r, Top(r)) /\ order[r].op \in {"copy", "move"} /\ Top(r).at = "entries"
  BY <1>1, RunningTop
<1>3. PICK c, rest, to :
        /\ c \in Top(r).todo
        /\ rest = [Top(r) EXCEPT !.todo = @ \ {c}] /\ to = Under(Top(r).to, Top(r).from, c)
        /\ \/ Become(r, rest)
           \/ \E stage \in {"dir", "file"} :
                /\ stage = "file" => TypeOf(c) = "file"
                /\ stack' = [stack EXCEPT ![r] = Append(Append(Front(@), rest), Frame(stage, c, to))]
                /\ UNCHANGED <<order, result>>
  BY DEF Entry
<1>4. /\ rest \in Frames /\ rest.at = "entries" /\ rest.from = Top(r).from /\ rest.to = Top(r).to
      /\ rest.todo = Top(r).todo \ {c}
  BY <1>2, <1>3 DEF Frames
<1>5. Suits(r, rest)
  BY <1>2, <1>4 DEF Suits
<1>6. CASE Become(r, rest)
  BY <1>1, <1>2, <1>4, <1>5, <1>6, BecomeStep, NothingSpared, InvariantKept
<1>7. ASSUME NEW stage \in {"dir", "file"}, stage = "file" => TypeOf(c) = "file",
             stack' = [stack EXCEPT ![r] = Append(Append(Front(@), rest), Frame(stage, c, to))],
             UNCHANGED <<order, result>>
      PROVE  CallsOK'
  <2>1. /\ c \in Path /\ to \in Path /\ IsPrefix(order[r].from, c) /\ Stands(order[r].to, to)
        /\ Policy(r) = "replace" => IsPrefix(order[r].to, to)
    BY <1>1, <1>3, EntryPlace
  <2>2. PICK f : f = Frame(stage, c, to)
    OBVIOUS
  <2>3. f \in Frames /\ f.at = stage /\ f.from = c /\ f.to = to /\ f.todo = {}
    BY <2>1, <2>2, FrameTyped DEF Steps
  <2>4. stage = "file" => c # Root
    BY <1>7 DEF TypeOf
  <2>5. Suits(r, f)
    BY <1>2, <2>1, <2>3, <2>4 DEF Suits, Sending
  <2>6. PICK s : s = Append(Front(stack[r]), rest) /\ s \in Seq(Good(r))
    <3>1. stack[r] \in Seq(Good(r)) /\ stack[r] # <<>> /\ rest \in Good(r)
      BY <1>2, <1>4, <1>5 DEF StackOK, Good
    <3> QED
      BY <3>1, StackMeans
  <2>7. PICK t : t = Append(s, f) /\ t \in Seq(Good(r)) /\ t # <<>>
    <3>1. f \in Good(r)
      BY <2>3, <2>5 DEF Good
    <3> QED
      BY <2>6, <3>1, AppendProperties
  <2>8. stack' = [stack EXCEPT ![r] = t] /\ order' = order
    BY <1>7, <2>2, <2>6, <2>7
  <2>9. result' = [result EXCEPT ![r] = "running"]
    BY <1>2, <1>7 DEF StackOK
  <2>10. StackStep(r)
    BY <2>7, <2>8, <2>9 DEF StackStep
  <2> QED
    BY <1>1, <1>2, <2>10, NothingSpared, InvariantKept
<1> QED
  BY <1>3, <1>6, <1>7

\* A folder whose entries are done; a moved one is removed.
LEMMA EndDirStep ==
  ASSUME LocalIInv, NEW r \in Requests, EndDir(r)
  PROVE  CallsOK'
<1> DEFINE from == Top(r).from
<1>1. At(r, "entries")
  BY DEF EndDir
<1>2. /\ StackOK /\ DiskOK /\ TreeOK(disk) /\ result[r] = "running" /\ from \in Path
      /\ Suits(r, Top(r)) /\ order[r].op \in {"copy", "move"} /\ order[r].from \in Path
  BY <1>1, RunningTop
<1>3. CASE Return(r) /\ UNCHANGED disk
  BY <1>2, <1>3, ReturnStep, NothingSpared, InvariantKept
<1>4. CASE Moving(r) /\ Delete(Below(from)) /\ Return(r)
  <2>1. \A p \in Below(from) : ~ Kept(p)
    <3> TAKE p \in Below(from)
    <3>1. p \in Path /\ IsPrefix(from, p)
      BY <1>2 DEF Below, TreeOK
    <3>2. IsPrefix(order[r].from, p)
      BY <1>2, <3>1, PrefixPrefix DEF Suits
    <3> QED
      BY <1>4, <3>2, KeptMeans DEF Moving
  <2> QED
    BY <1>2, <1>4, <2>1, RemoveAllKeeps, DeleteSpared, ReturnStep, InvariantKept
<1>5. CASE Refuse(r)
  BY <1>2, <1>5, FailStep, NothingSpared, InvariantKept DEF Refuse
<1> QED
  BY <1>3, <1>4, <1>5 DEF EndDir

--------------------------------------------------------------------------
(* The results *)

\* The requests are answered no more once the process has ended.
LEMMA DieStep ==
  ASSUME LocalIInv, Die
  PROVE  CallsOK'
<1>1. /\ order' = order /\ disk' = disk /\ \A p : Kept(p)' <=> Kept(p)
  BY KeptStays DEF Die
<1>2. DiskOK'
  BY <1>1 DEF LocalIInv, DiskOK, TreeOK
<1>3. ASSUME NEW r \in Requests
      PROVE  stack'[r] = <<>> /\ result'[r] # "running" /\ stack'[r] \in Seq(Good(r)')
  BY EmptySeq DEF Die
<1>4. /\ order' \in Wishes /\ stack' \in [Requests -> Seq(Frames)]
      /\ result' \in [Requests -> {"waiting", "running", "ok", "error", "died"}]
  BY EmptySeq DEF Die, LocalIInv, StackOK
<1> QED
  BY <1>2, <1>3, <1>4 DEF CallsOK, StackOK

\* The disk is a tree to begin with.
LEMMA DiskIsTree == TreeOK(Disk)
<1>1. /\ IsFiniteSet(DOMAIN Disk) /\ DOMAIN Disk \subseteq Path \ {Root}
      /\ Disk \in [DOMAIN Disk -> Node]
  BY DiskAssumption DEF Node, Contents
<1>2. ASSUME NEW p \in DOMAIN Disk, NEW q \in Path, IsPrefix(q, p), q # p
      PROVE  FolderIn(Disk, q)
  <2>1. /\ p \in Path /\ Len(q) \in Nat /\ Len(p) \in Nat /\ Len(q) <= Len(p)
        /\ \A i \in 1 .. Len(q) : q[i] = p[i]
    BY <1>1, <1>2, PathMeans, PrefixMeans
  <2>2. Len(q) # Len(p)
    BY <1>2, <2>1, SamePath
  <2>3. CASE Len(q) = 0
    BY <2>3, PathMeans DEF FolderIn
  <2>4. CASE Len(q) # 0
    <3>1. Len(q) \in 1 .. Len(p) - 1 /\ Len(q) \in 0 .. Len(p)
      BY <2>1, <2>2, <2>4
    <3>2. SubSeq(p, 1, Len(q)) = q
      BY <1>2, SubSeqFull DEF IsPrefix, Path
    <3> QED
      BY <3>1, <3>2, DiskAssumption DEF FolderIn
  <2> QED
    BY <2>3, <2>4
<1> QED
  BY <1>1, <1>2 DEF TreeOK

\* Before the first request the disk is as it was.
LEMMA LocalInitially == LocalInit => LocalIInv
<1> SUFFICES ASSUME LocalInit
             PROVE  LocalIInv
  OBVIOUS
<1>1. StackOK
  BY EmptySeq DEF LocalInit, StackOK
<1>2. TreeOK(Disk)
  BY DiskIsTree
<1>3. DiskOK
  BY <1>2 DEF LocalInit, DiskOK, Kept
<1>4. PassedOK
  BY DEF LocalInit, PassedOK
<1> QED
  BY <1>1, <1>3, <1>4 DEF LocalIInv

\* What is passed over is an entry of a folder, and what was passed over stays so.
LEMMA PassedStep ==
  ASSUME LocalIInv, [LocalNext]_localVars
  PROVE  PassedOK' /\ \A r \in Requests : passed[r] \subseteq passed'[r]
<1>1. CASE UNCHANGED passed
  BY <1>1 DEF LocalIInv, PassedOK
<1>2. ASSUME NEW r \in Requests, Entry(r)
      PROVE  PassedOK' /\ \A o \in Requests : passed[o] \subseteq passed'[o]
  <2>1. Top(r) \in Frames
    BY <1>2, RunningTop DEF Entry
  <2>2. PICK c \in Top(r).todo : \/ UNCHANGED passed
                                 \/ passed' = [passed EXCEPT ![r] = @ \cup {c}]
    BY <1>2 DEF Entry
  <2>3. c \in Path
    BY <2>1 DEF Frames
  <2> QED
    BY <2>2, <2>3 DEF LocalIInv, PassedOK
<1> QED
  BY <1>1, <1>2 DEF LocalNext, localVars

\* Every step keeps the invariant.
LEMMA LocalStep == LocalIInv /\ [LocalNext]_localVars => LocalIInv'
<1> SUFFICES ASSUME LocalIInv, [LocalNext]_localVars
             PROVE  LocalIInv'
  OBVIOUS
<1>1. ASSUME NEW r \in Requests,
             \/ Copy(r) \/ Write(r) \/ Simple(r)
             \/ CopyFile(r) \/ MoveFile(r) \/ OpenSource(r) \/ Create(r) \/ Stream(r) \/ Unlink(r)
             \/ CopyDir(r) \/ MakeDir(r) \/ ReadDir(r) \/ Entry(r) \/ EndDir(r)
      PROVE  CallsOK'
  BY <1>1, CopyStep, WriteStep, SimpleStep, CopyFileStep, MoveFileStep, OpenSourceStep, CreateStep,
     StreamStep, UnlinkStep, CopyDirStep, MakeDirStep, ReadDirStep, EntryStep, EndDirStep
<1>2. ASSUME UNCHANGED localVars
      PROVE  CallsOK'
  <2>1. /\ UNCHANGED <<disk, order, result, stack>> /\ \A p : Kept(p)' <=> Kept(p)
        /\ \A r \in Requests : Good(r)' = Good(r)
    BY <1>2, KeptStays DEF localVars
  <2> QED
    BY <2>1 DEF LocalIInv, CallsOK, StackOK, DiskOK, TreeOK
<1>3. CallsOK'
  BY <1>1, <1>2, DieStep DEF LocalNext
<1> QED
  BY <1>3, PassedStep DEF LocalIInv, CallsOK

\* What the disk, the answers and the open calls can be.
THEOREM LocalInvariant == LocalSpec => []LocalIInv
BY LocalInitially, LocalStep, PTL DEF LocalSpec

\* Everything on the disk lies in a folder, and exactly the running requests
\* have calls in progress.
THEOREM LocalTypes == LocalSpec => []LocalTypeOK
<1>1. LocalIInv => LocalTypeOK
  BY ThereInFolder DEF LocalIInv, StackOK, DiskOK, PassedOK, LocalTypeOK
<1> QED
  BY <1>1, LocalInvariant, PTL

\* Whatever runs side by side, fails or ends: what was there at the start and no
\* request was told to remove, move or replace is there, as it was.
THEOREM KeptIsKept == LocalSpec => []NothingOverwritten
<1>1. LocalIInv => NothingOverwritten
  BY DEF LocalIInv, DiskOK, NothingOverwritten, Kept, Exists
<1> QED
  BY <1>1, LocalInvariant, PTL

--------------------------------------------------------------------------
(* No half-written file                                                    *)

\* Paths that agree as far as both go, numbers aside.
Meets(p, q) == \A i \in 1 .. Len(p) : i \in 1 .. Len(q) => p[i].base = q[i].base

\* What one request writes, no other reads or moves at the same time.
ApartWishes ==
  \A wish \in Wishes : \A r, o \in Requests :
    /\ r # o /\ r \notin wish[o].after /\ o \notin wish[r].after
    /\ wish[r].op \in {"copy", "move", "write"} /\ wish[o].op \in {"copy", "move", "rename"}
    => ~ Meets(wish[r].to, wish[o].from)

\* The files and links that hold a part of their data.
HalfWritten(d) == {p \in DOMAIN d : d[p].type # "dir" /\ d[p].data = Torn}
\* A call that creates or streams has whole data to send.
Clean(f) == f.at \in {"create", "stream"} => f.data # Torn
\* The clean calls.
CleanFrames == {f \in Frames : Clean(f)}

\* Requests that follow others began when those were answered, and none goes on
\* when the process has ended.
TurnsOK ==
  /\ \A r \in Requests : \A a \in order[r].after :
       result[r] \in {"running", "ok", "error"} => result[a] \in {"ok", "error"}
  /\ (\E r \in Requests : result[r] = "died") =>
       \A r \in Requests : result[r] \in {"ok", "error", "died"}

\* Whoever writes a file is at it, and what is copied is whole.
TornIInv ==
  /\ LocalIInv /\ TurnsOK
  /\ \A r \in Requests : stack[r] \in Seq(CleanFrames)
  /\ \A p \in DOMAIN disk : disk[p].type = "dir" => disk[p].data # Torn
  /\ (\A r \in Requests : result[r] # "died") =>
       \A p \in HalfWritten(disk) : \E r \in Requests : At(r, "stream") /\ Top(r).to = p

\* Every step but the end of the process.
Acts(r) ==
  \/ (\/ Copy(r) \/ Write(r) \/ Simple(r)
      \/ CopyFile(r) \/ MoveFile(r) \/ OpenSource(r) \/ Create(r) \/ Stream(r) \/ Unlink(r)
      \/ CopyDir(r) \/ MakeDir(r) \/ ReadDir(r) \/ EndDir(r)) /\ UNCHANGED passed
  \/ Entry(r)

\* A step of one request leaves the calls of the others alone.
Turn(r) ==
  /\ order' = order
  /\ \A o \in Requests \ {r} : stack'[o] = stack[o] /\ result'[o] = result[o]
  /\ result[r] \in {"waiting", "running"} /\ result'[r] \in {"running", "ok", "error"}
  /\ result[r] = "waiting" => \A a \in order[r].after : result[a] \in {"ok", "error"}

\* A step of a call of r is a turn of r.
LEMMA FramesTurn ==
  ASSUME StackOK, NEW r \in Requests, result[r] = "running",
         \/ \E f : Become(r, f)
         \/ Return(r) \/ Fail(r)
  PROVE  Turn(r)
BY DEF StackOK, Turn, Become, Return, Fail

\* The first step of r is a turn of r.
LEMMA RequestTurn ==
  ASSUME StackOK, NEW r \in Requests, NEW ops, Begins(r, ops),
         \/ \E f : Enter(r, f)
         \/ Done(r) \/ Fail(r)
  PROVE  Turn(r)
BY DEF StackOK, Turn, Begins, Enter, Done, Fail

\* Every step but the end of the process is the turn of one request.
LEMMA ActsTurn ==
  ASSUME StackOK, NEW r \in Requests, Acts(r)
  PROVE  Turn(r)
<1>1. CASE Copy(r)
  BY <1>1, RequestTurn DEF Copy, Refuse
<1>2. CASE Write(r)
  BY <1>2, RequestTurn DEF Write
<1>3. CASE Simple(r)
  BY <1>3, RequestTurn DEF Simple, Refuse
<1>4. CASE CopyFile(r)
  BY <1>4, FramesTurn DEF CopyFile, At, Goto
<1>5. CASE MoveFile(r)
  BY <1>5, FramesTurn DEF MoveFile, At, Refuse
<1>6. CASE OpenSource(r)
  BY <1>6, FramesTurn DEF OpenSource, At
<1>7. CASE Create(r)
  BY <1>7, FramesTurn DEF Create, At, Goto, Refuse
<1>8. CASE Stream(r)
  BY <1>8, FramesTurn DEF Stream, Filled, At, Goto
<1>9. CASE Unlink(r)
  BY <1>9, FramesTurn DEF Unlink, At, Refuse
<1>10. CASE CopyDir(r)
  BY <1>10, FramesTurn DEF CopyDir, At, Goto
<1>11. CASE MakeDir(r)
  BY <1>11, FramesTurn DEF MakeDir, At, Goto, Refuse
<1>12. CASE ReadDir(r)
  BY <1>12, FramesTurn DEF ReadDir, At
<1>13. CASE Entry(r)
  <2>1. result[r] = "running" /\ order' = order /\ result' = result
    BY <1>13 DEF Entry, At, Become
  <2>2. \A o \in Requests \ {r} : stack'[o] = stack[o]
    BY <1>13 DEF Entry, At, Become, StackOK
  <2> QED
    BY <2>1, <2>2 DEF Turn
<1>14. CASE EndDir(r)
  BY <1>14, FramesTurn DEF EndDir, At, Refuse
<1> QED
  BY <1>1, <1>2, <1>3, <1>4, <1>5, <1>6, <1>7, <1>8, <1>9, <1>10, <1>11, <1>12, <1>13, <1>14
  DEF Acts

\* A turn keeps the order of the requests.
LEMMA TurnsKept ==
  ASSUME StackOK, TurnsOK, NEW r \in Requests, Turn(r)
  PROVE  TurnsOK'
<1>1. ASSUME NEW q \in Requests, NEW a \in order[q].after,
             result'[q] \in {"running", "ok", "error"}
      PROVE  result'[a] \in {"ok", "error"}
  <2>1. result[a] \in {"ok", "error"} /\ a \in Requests
    <3>1. a \in Requests
      BY OrderTyped DEF Orders
    <3>2. CASE q = r
      BY <3>1, <3>2 DEF Turn, TurnsOK
    <3>3. CASE q # r
      BY <1>1, <3>1, <3>3 DEF Turn, TurnsOK
    <3> QED
      BY <3>1, <3>2, <3>3
  <2>2. a # r
    BY <2>1 DEF Turn
  <2> QED
    BY <2>1, <2>2 DEF Turn
<1>2. \A q \in Requests : result'[q] # "died"
  BY DEF Turn, TurnsOK
<1> QED
  BY <1>1, <1>2 DEF TurnsOK, Turn

\* What is read or moved is not being written.
LEMMA NotBeingWritten ==
  ASSUME TornIInv, ApartWishes, NEW r \in Requests, Acts(r), ~ At(r, "stream"),
         order[r].op \in {"copy", "move", "rename"},
         NEW p \in HalfWritten(disk), IsPrefix(order[r].from, p)
  PROVE  FALSE
<1>1. /\ StackOK /\ Turn(r) /\ TreeOK(disk) /\ order[r] \in Orders /\ order \in Wishes
  BY ActsTurn, OrderTyped DEF TornIInv, LocalIInv, DiskOK, StackOK
<1>2. \A q \in Requests : result[q] # "died"
  BY <1>1 DEF TornIInv, TurnsOK, Turn
<1>3. PICK o \in Requests : At(o, "stream") /\ Top(o).to = p
  BY <1>2 DEF TornIInv
<1>4. o # r /\ result[o] = "running"
  BY <1>3 DEF At
<1>5. o \notin order[r].after /\ r \notin order[o].after
  BY <1>1, <1>4 DEF TornIInv, TurnsOK, Turn
<1>6. order[o].op \in {"copy", "move", "write"} /\ Stands(order[o].to, p) /\ order[o].to \in Path
  BY <1>3, RunningTop DEF TornIInv, Suits
<1>7. ~ Meets(order[o].to, order[r].from)
  BY <1>1, <1>4, <1>5, <1>6 DEF ApartWishes
<1>8. p \in Path /\ order[r].from \in Path
  BY <1>1 DEF HalfWritten, TreeOK, Orders
<1>9. \A i \in 1 .. Len(order[r].from) : order[r].from[i] = p[i]
  BY <1>8, PrefixMeans
<1>10. \A i \in 1 .. Len(order[o].to) : p[i].base = order[o].to[i].base
  BY <1>6 DEF Stands
<1> QED
  BY <1>7, <1>9, <1>10 DEF Meets

\* What a step of a request does to its calls keeps them clean.
LEMMA CleanKept ==
  ASSUME StackOK, NEW r \in Requests, stack[r] \in Seq(CleanFrames),
         \/ /\ result[r] = "running"
            /\ \/ \E f \in CleanFrames : Become(r, f)
               \/ Return(r)
         \/ Fail(r)
         \/ Done(r)
         \/ \E f \in CleanFrames : Enter(r, f)
  PROVE  stack'[r] \in Seq(CleanFrames)
<1>1. ASSUME result[r] = "running"
      PROVE  stack[r] # <<>>
  BY <1>1 DEF StackOK
<1>2. ASSUME NEW f \in CleanFrames, result[r] = "running", Become(r, f)
      PROVE  stack'[r] \in Seq(CleanFrames)
  <2>1. Append(Front(stack[r]), f) \in Seq(CleanFrames)
    BY <1>1, <1>2, StackMeans
  <2>2. stack'[r] = Append(Front(stack[r]), f)
    BY <1>2 DEF Become, StackOK
  <2> QED
    BY <2>1, <2>2
<1>3. CASE result[r] = "running" /\ Return(r)
  <2>1. Front(stack[r]) \in Seq(CleanFrames)
    BY <1>1, <1>3, StackMeans
  <2>2. stack'[r] = Front(stack[r])
    BY <1>3 DEF Return, StackOK
  <2> QED
    BY <2>1, <2>2
<1>4. CASE Fail(r)
  <2>1. stack'[r] = <<>>
    BY <1>4 DEF Fail, StackOK
  <2> QED
    BY <2>1, EmptySeq
<1>5. CASE Done(r)
  BY <1>5 DEF Done
<1>6. ASSUME NEW f \in CleanFrames, Enter(r, f)
      PROVE  stack'[r] \in Seq(CleanFrames)
  <2>1. <<f>> \in Seq(CleanFrames)
    OBVIOUS
  <2>2. stack'[r] = <<f>>
    BY <1>6 DEF Enter, StackOK
  <2> QED
    BY <2>1, <2>2
<1> QED
  BY <1>2, <1>3, <1>4, <1>5, <1>6

\* The innermost call is clean.
LEMMA TopClean ==
  ASSUME TornIInv, NEW r \in Requests, result[r] = "running"
  PROVE  Top(r) \in CleanFrames
<1>1. stack[r] \in Seq(CleanFrames) /\ stack[r] # <<>>
  BY DEF TornIInv, LocalIInv, StackOK
<1> QED
  BY <1>1, StackMeans DEF Top

\* On with the same call, which streams only what it was created for.
LEMMA CleanGoto ==
  ASSUME TornIInv, NEW r \in Requests, result[r] = "running", NEW stage \in Steps, Goto(r, stage),
         stage = "create" => FALSE,
         stage = "stream" => Top(r).at = "create"
  PROVE  stack'[r] \in Seq(CleanFrames)
<1>1. PICK f : f = [Top(r) EXCEPT !.at = stage]
  OBVIOUS
<1>2. Top(r) \in Frames /\ Clean(Top(r))
  BY TopClean DEF CleanFrames
<1>3. f \in Frames /\ f.at = stage /\ f.data = Top(r).data
  BY <1>1, <1>2 DEF Frames
<1>4. f \in CleanFrames
  BY <1>2, <1>3 DEF CleanFrames, Clean
<1> QED
  BY <1>1, <1>4, CleanKept DEF Goto, TornIInv, LocalIInv

\* A call that neither creates nor streams.
LEMMA CleanElse ==
  ASSUME NEW f \in Frames, f.at \notin {"create", "stream"}
  PROVE  f \in CleanFrames
BY DEF CleanFrames, Clean

\* Every step of a request keeps its calls clean.
LEMMA ActsClean ==
  ASSUME TornIInv, ApartWishes, NEW r \in Requests, Acts(r)
  PROVE  stack'[r] \in Seq(CleanFrames)
<1>0. /\ StackOK /\ LocalIInv /\ stack[r] \in Seq(CleanFrames) /\ order[r] \in Orders
      /\ {"place", "stream", "unlink", "list", "mkdir"} \subseteq Steps
  BY OrderTyped DEF TornIInv, LocalIInv, Steps
<1>1. CASE \/ Fail(r)
           \/ Done(r)
  BY <1>0, <1>1, CleanKept
<1>2. CASE result[r] = "running" /\ Return(r)
  BY <1>0, <1>2, CleanKept
<1>3. CASE Copy(r)
  <2>1. ASSUME NEW stage \in {"dir", "file"}, Enter(r, Frame(stage, order[r].from, order[r].to))
        PROVE  stack'[r] \in Seq(CleanFrames)
    <3>1. PICK f : f = Frame(stage, order[r].from, order[r].to)
      OBVIOUS
    <3>2. f \in Frames /\ f.at = stage
      BY <1>0, <3>1, FrameTyped DEF Steps, Orders
    <3> QED
      BY <1>0, <2>1, <3>1, <3>2, CleanElse, CleanKept
  <2> QED
    BY <1>1, <1>3, <2>1 DEF Copy, Refuse
<1>4. CASE Write(r)
  <2>1. PICK f : f = [Frame("create", order[r].to, order[r].to) EXCEPT !.data = Sent]
    OBVIOUS
  <2>2. f \in Frames /\ f.data = Sent
    BY <1>0, <2>1, NodesTyped DEF Frame, Frames, Steps, Orders
  <2>3. f \in CleanFrames
    BY <2>2, DataAssumption DEF CleanFrames, Clean
  <2> QED
    BY <1>0, <1>4, <2>1, <2>3, CleanKept DEF Write
<1>5. CASE Simple(r)
  BY <1>1, <1>5 DEF Simple, Refuse
<1>6. ASSUME NEW stage, At(r, stage)
      PROVE  result[r] = "running" /\ Top(r) \in Frames /\ Top(r).at = stage
  BY <1>0, <1>6, RunningTop
<1>7. CASE CopyFile(r) \/ CopyDir(r)
  <2>1. result[r] = "running" /\ Top(r) \in Frames /\ Top(r).to \in Path
    BY <1>6, <1>7 DEF CopyFile, CopyDir, Frames
  <2>2. ASSUME NEW stage \in {"place", "mkdir"}, Top(r).to # Root,
               Become(r, [Top(r) EXCEPT !.to = UniqueLocalDest(Top(r).to), !.at = stage])
        PROVE  stack'[r] \in Seq(CleanFrames)
    <3>1. PICK i \in Nat : UniqueLocalDest(Top(r).to) = Numbered(Top(r).to, i)
      BY <1>0, <2>1, <2>2, UniqueIsFree DEF LocalIInv, DiskOK
    <3>2. PICK f : f = [Top(r) EXCEPT !.to = UniqueLocalDest(Top(r).to), !.at = stage]
      OBVIOUS
    <3>3. UniqueLocalDest(Top(r).to) \in Path
      BY <2>1, <2>2, <3>1, NumberedMeans
    <3>4. f \in Frames /\ f.at = stage
      BY <1>0, <2>1, <3>2, <3>3 DEF Frames
    <3> QED
      BY <1>0, <2>1, <2>2, <3>2, <3>4, CleanElse, CleanKept
  <2>3. ~ IsDir(Top(r).to) => Top(r).to # Root
    BY DEF IsDir, TypeOf
  <2>4. ASSUME NEW stage \in {"place", "list", "mkdir"}, Goto(r, stage)
        PROVE  stack'[r] \in Seq(CleanFrames)
    BY <1>0, <2>1, <2>4, CleanGoto
  <2>5. CASE CopyFile(r)
    BY <1>1, <1>2, <2>1, <2>2, <2>3, <2>4, <2>5 DEF CopyFile
  <2>6. CASE CopyDir(r)
    BY <1>1, <1>2, <2>1, <2>2, <2>3, <2>4, <2>6 DEF CopyDir
  <2> QED
    BY <1>7, <2>5, <2>6
<1>8. CASE MoveFile(r)
  BY <1>1, <1>2, <1>6, <1>8 DEF MoveFile, Refuse
<1>9. CASE OpenSource(r)
  <2>1. /\ At(r, "place") /\ Top(r) \in Frames /\ result[r] = "running" /\ ~ At(r, "stream")
        /\ order[r].op \in {"copy", "move"} /\ Top(r).from \in Path /\ Top(r).from # Root
        /\ IsPrefix(order[r].from, Top(r).from) /\ TreeOK(disk)
    BY <1>0, <1>9, RunningTop DEF OpenSource, At, Suits
  <2>2. CASE /\ Exists(Top(r).from)
             /\ Become(r, [Top(r) EXCEPT !.at = "create", !.data = disk[Top(r).from].data])
    <3>1. Top(r).from \in DOMAIN disk
      BY <2>1, <2>2 DEF Exists
    <3>2. disk[Top(r).from].data # Torn
      <4>1. Top(r).from \notin HalfWritten(disk)
        BY <1>9, <2>1, NotBeingWritten DEF Acts
      <4> QED
        BY <3>1, <4>1 DEF HalfWritten, TornIInv
    <3>3. PICK f : f = [Top(r) EXCEPT !.at = "create", !.data = disk[Top(r).from].data]
      OBVIOUS
    <3>4. f \in Frames /\ f.data # Torn
      BY <2>1, <3>1, <3>2, <3>3 DEF Frames, Steps, TreeOK, Node
    <3>5. f \in CleanFrames
      BY <3>4 DEF CleanFrames, Clean
    <3> QED
      BY <1>0, <2>1, <2>2, <3>3, <3>5, CleanKept
  <2> QED
    BY <1>1, <1>9, <2>2 DEF OpenSource
<1>10. CASE Create(r)
  <2>1. At(r, "create") /\ result[r] = "running" /\ Top(r).at = "create"
    BY <1>6, <1>10 DEF Create
  <2> QED
    BY <1>0, <1>1, <1>10, <2>1, CleanGoto DEF Create, Refuse
<1>11. CASE Stream(r)
  <2>1. result[r] = "running"
    BY <1>6, <1>11 DEF Stream
  <2> QED
    BY <1>0, <1>1, <1>2, <1>11, <2>1, CleanGoto DEF Stream, Filled
<1>12. CASE Unlink(r)
  BY <1>1, <1>2, <1>6, <1>12 DEF Unlink, Refuse
<1>13. CASE MakeDir(r)
  <2>1. result[r] = "running"
    BY <1>6, <1>13 DEF MakeDir
  <2> QED
    BY <1>0, <1>1, <1>13, <2>1, CleanGoto DEF MakeDir, Refuse
<1>14. CASE ReadDir(r)
  <2>1. result[r] = "running" /\ Top(r) \in Frames /\ TreeOK(disk)
    BY <1>0, <1>6, <1>14 DEF ReadDir, LocalIInv, DiskOK
  <2>2. CASE Become(r, [Top(r) EXCEPT !.at = "entries", !.todo = Children(Top(r).from)])
    <3>1. PICK f : f = [Top(r) EXCEPT !.at = "entries", !.todo = Children(Top(r).from)]
      OBVIOUS
    <3>2. Children(Top(r).from) \in SUBSET Path
      BY <2>1 DEF Children, Below, TreeOK
    <3>3. f \in Frames /\ f.at = "entries"
      BY <2>1, <3>1, <3>2 DEF Frames, Steps
    <3> QED
      BY <1>0, <2>1, <2>2, <3>1, <3>3, CleanElse, CleanKept
  <2> QED
    BY <1>1, <1>14, <2>2 DEF ReadDir
<1>15. CASE Entry(r)
  <2>1. /\ At(r, "entries") /\ result[r] = "running" /\ Top(r) \in Frames /\ Top(r).at = "entries"
    BY <1>6, <1>15 DEF Entry
  <2>2. PICK c, rest, to :
          /\ c \in Top(r).todo
          /\ rest = [Top(r) EXCEPT !.todo = @ \ {c}] /\ to = Under(Top(r).to, Top(r).from, c)
          /\ \/ Become(r, rest)
             \/ \E stage \in {"dir", "file"} :
                  /\ stack' = [stack EXCEPT ![r] = Append(Append(Front(@), rest), Frame(stage, c, to))]
                  /\ UNCHANGED <<order, result>>
    BY <1>15 DEF Entry
  <2>3. rest \in CleanFrames
    <3>1. rest \in Frames /\ rest.at = "entries"
      BY <2>1, <2>2 DEF Frames
    <3> QED
      BY <3>1, CleanElse
  <2>4. ASSUME NEW stage \in {"dir", "file"},
               stack' = [stack EXCEPT ![r] = Append(Append(Front(@), rest), Frame(stage, c, to))]
        PROVE  stack'[r] \in Seq(CleanFrames)
    <3>1. c \in Path /\ to \in Path
      BY <1>0, <2>1, <2>2, EntryPlace
    <3>2. PICK f : f = Frame(stage, c, to)
      OBVIOUS
    <3>3. f \in Frames /\ f.at = stage
      BY <3>1, <3>2, FrameTyped DEF Steps
    <3>4. f \in CleanFrames
      BY <3>3, CleanElse
    <3>5. PICK s : s = Append(Front(stack[r]), rest) /\ s \in Seq(CleanFrames)
      <4>1. stack[r] # <<>>
        BY <1>0, <2>1 DEF StackOK
      <4> QED
        BY <1>0, <2>3, <4>1, StackMeans
    <3>6. stack'[r] = Append(s, f)
      BY <1>0, <2>4, <3>2, <3>5 DEF StackOK
    <3> QED
      BY <3>4, <3>5, <3>6, AppendProperties
  <2> QED
    BY <1>0, <2>1, <2>2, <2>3, <2>4, CleanKept
<1>16. CASE EndDir(r)
  BY <1>1, <1>2, <1>6, <1>16 DEF EndDir, Refuse
<1> QED
  BY <1>3, <1>4, <1>5, <1>7, <1>8, <1>9, <1>10, <1>11, <1>12, <1>13, <1>14, <1>15, <1>16
  DEF Acts

--------------------------------------------------------------------------
(* What the steps leave half-written *)

\* The paths with data that is not whole.
Torns(d) == {p \in DOMAIN d : d[p].data = Torn}
\* Nothing is half-written that was not, and folders never are.
NoneTorn(ps) ==
  /\ Torns(disk') \subseteq Torns(disk) \ ps
  /\ \A p \in Torns(disk') : disk'[p] = disk[p]

\* No change of the disk.
LEMMA NoneTornUnchanged ==
  ASSUME UNCHANGED disk
  PROVE  NoneTorn({})
BY DEF NoneTorn, Torns

\* Removing.
LEMMA NoneTornDelete ==
  ASSUME NEW ps, Delete(ps)
  PROVE  NoneTorn({}) /\ NoneTorn(ps)
BY DEF NoneTorn, Torns, Delete

\* A node that is whole.
LEMMA NoneTornPut ==
  ASSUME NEW p, NEW node, node.data # Torn, Put(p, node)
  PROVE  NoneTorn({}) /\ NoneTorn({p})
BY DEF NoneTorn, Torns, Put

\* A file written with whole data.
LEMMA NoneTornWrite ==
  ASSUME NEW p, NEW data, data # Torn, WriteTo(p, data)
  PROVE  NoneTorn({p})
<1>1. Link(data).data # Torn /\ File(data).data # Torn
  BY DEF Link, File
<1> QED
  BY <1>1, NoneTornPut DEF WriteTo

\* What is half-written is known to be whole where a rename takes it along.
LEMMA RelocateTorn ==
  ASSUME TreeOK(disk), NEW p \in Path, NEW to \in Path, Relocate(p, to),
         \A q \in Torns(disk) : ~ IsPrefix(p, q)
  PROVE  NoneTorn({})
<1>1. \A q \in Below(p) : q \in DOMAIN disk /\ disk[q].data # Torn
  BY DEF Below, Torns
<1>2. ASSUME NEW y \in DOMAIN disk', disk'[y].data = Torn
      PROVE  y \in DOMAIN disk /\ disk'[y] = disk[y]
  BY <1>1, <1>2, RelocateMeans
<1> QED
  BY <1>2 DEF NoneTorn, Torns

\* Only the file that is created becomes half-written, and one that is streamed
\* is so no more.
HalfStep(r) ==
  \/ ~ At(r, "stream") /\ NoneTorn({})
  \/ At(r, "stream") /\ NoneTorn({Top(r).to})
  \/ /\ At(r, "create") /\ Goto(r, "stream")
     /\ CanCreate(Top(r).to) /\ WriteTo(Top(r).to, Torn)

\* Every step of a request leaves half-written no more than it may.
LEMMA ActsHalf ==
  ASSUME TornIInv, ApartWishes, NEW r \in Requests, Acts(r)
  PROVE  HalfStep(r)
<1>1. /\ LocalIInv /\ TreeOK(disk) /\ StackOK /\ order[r] \in Orders
      /\ Torns(disk) = HalfWritten(disk)
  BY OrderTyped DEF TornIInv, LocalIInv, DiskOK, Torns, HalfWritten
<1>2. ASSUME ~ At(r, "stream"), order[r].op \in {"copy", "move", "rename"}, NEW from \in Path,
             IsPrefix(order[r].from, from), NEW q \in Torns(disk), IsPrefix(from, q)
      PROVE  FALSE
  <2>1. order[r].from \in Path /\ q \in Path
    BY <1>1 DEF Orders, Torns, TreeOK
  <2>2. IsPrefix(order[r].from, q)
    BY <1>2, <2>1, PrefixPrefix
  <2> QED
    BY <1>1, <1>2, <2>2, NotBeingWritten
<1>3. ASSUME NEW stage, At(r, stage), stage # "stream"
      PROVE  ~ At(r, "stream")
  BY <1>3 DEF At
<1>4. \A ops : Begins(r, ops) => ~ At(r, "stream")
  BY DEF Begins, At
<1>5. ASSUME ~ At(r, "stream"), UNCHANGED disk
      PROVE  HalfStep(r)
  BY <1>5, NoneTornUnchanged DEF HalfStep
<1>6. Folder.data # Torn
  BY DataAssumption DEF Folder
<1>7. CASE Copy(r) \/ Write(r)
  BY <1>4, <1>5, <1>7 DEF Copy, Write, Refuse, Enter
<1>8. CASE Simple(r)
  <2>1. ~ At(r, "stream")
    BY <1>4, <1>8 DEF Simple
  <2>2. CASE order[r].op = "rename" /\ Relocate(order[r].from, order[r].to)
    <3>1. order[r].from \in Path /\ order[r].to \in Path /\ IsPrefix(order[r].from, order[r].from)
      BY <1>1, PrefixItself DEF Orders
    <3>2. \A q \in Torns(disk) : ~ IsPrefix(order[r].from, q)
      BY <1>2, <2>1, <2>2, <3>1
    <3> QED
      BY <1>1, <2>1, <2>2, <3>1, <3>2, RelocateTorn DEF HalfStep
  <2>3. CASE Put(order[r].to, Folder)
    BY <1>6, <2>1, <2>3, NoneTornPut DEF HalfStep
  <2>4. ASSUME NEW ps, Delete(ps)
        PROVE  HalfStep(r)
    BY <2>1, <2>4, NoneTornDelete DEF HalfStep
  <2> QED
    BY <1>5, <1>8, <2>1, <2>2, <2>3, <2>4 DEF Simple, Refuse
<1>9. CASE CopyFile(r) \/ OpenSource(r) \/ CopyDir(r) \/ ReadDir(r) \/ Entry(r)
  BY <1>3, <1>5, <1>9 DEF CopyFile, OpenSource, CopyDir, ReadDir, Entry
<1>10. CASE MoveFile(r)
  <2>1. At(r, "place") /\ ~ At(r, "stream")
    BY <1>3, <1>10 DEF MoveFile
  <2>2. CASE Relocate(Top(r).from, Top(r).to)
    <3>1. /\ Top(r).from \in Path /\ Top(r).to \in Path /\ order[r].op \in {"copy", "move"}
          /\ IsPrefix(order[r].from, Top(r).from)
      BY <1>1, <2>1, RunningTop DEF Suits
    <3>2. \A q \in Torns(disk) : ~ IsPrefix(Top(r).from, q)
      BY <1>2, <2>1, <3>1
    <3> QED
      BY <1>1, <2>1, <2>2, <3>1, <3>2, RelocateTorn DEF HalfStep
  <2> QED
    BY <1>5, <1>10, <2>1, <2>2 DEF MoveFile, Refuse
<1>11. CASE Create(r)
  BY <1>3, <1>5, <1>11 DEF Create, Refuse, HalfStep
<1>12. CASE Stream(r)
  <2>1. At(r, "stream") /\ result[r] = "running" /\ Top(r).to \in Path /\ Top(r).at = "stream"
    BY <1>1, <1>12, RunningTop DEF Stream
  <2>2. Top(r).data # Torn
    BY <2>1, TopClean DEF CleanFrames, Clean
\* A half-written file is a file that can be written and removed.
  <2>3. ASSUME Top(r).to \in Torns(disk)
        PROVE  TypeOf(Top(r).to) \in {"file", "link"} /\ CanRemove(Top(r).to)
    <3>1. Top(r).to \in DOMAIN disk /\ disk[Top(r).to].type \in {"file", "link"} /\ Top(r).to # Root
      BY <1>1, <2>3 DEF HalfWritten, TreeOK, Node
    <3>2. ~ IsDir(Top(r).to)
      BY <3>1 DEF IsDir, TypeOf, Exists
    <3>3. \A x \in DOMAIN disk : IsPrefix(Top(r).to, x) => x = Top(r).to
      BY <1>1, <2>1, <3>2, EntryBelow
    <3>4. Len(Top(r).to) \in Nat
      BY <2>1, PathMeans
    <3>5. Children(Top(r).to) = {}
      BY <3>3, <3>4 DEF Children, Below
    <3> QED
      BY <3>1, <3>5 DEF TypeOf, Exists, CanRemove
  <2>4. ASSUME UNCHANGED disk, Top(r).to \notin Torns(disk)
        PROVE  HalfStep(r)
    BY <2>1, <2>4, NoneTornUnchanged DEF HalfStep, NoneTorn
  <2>5. CASE WriteTo(Top(r).to, Top(r).data)
    BY <2>1, <2>2, <2>5, NoneTornWrite DEF HalfStep
  <2>6. CASE Delete({Top(r).to})
    BY <2>1, <2>6, NoneTornDelete DEF HalfStep
  <2> QED
    BY <1>12, <2>3, <2>4, <2>5, <2>6 DEF Stream, Filled
<1>13. CASE Unlink(r) \/ EndDir(r)
  <2>1. ~ At(r, "stream")
    BY <1>3, <1>13 DEF Unlink, EndDir
  <2>2. ASSUME NEW ps, Delete(ps)
        PROVE  HalfStep(r)
    BY <2>1, <2>2, NoneTornDelete DEF HalfStep
  <2> QED
    BY <1>5, <1>13, <2>1, <2>2 DEF Unlink, EndDir, Refuse
<1>14. CASE MakeDir(r)
  <2>1. ~ At(r, "stream")
    BY <1>3, <1>14 DEF MakeDir
  <2>2. CASE Put(Top(r).to, Folder)
    BY <1>6, <2>1, <2>2, NoneTornPut DEF HalfStep
  <2> QED
    BY <1>5, <1>14, <2>1, <2>2 DEF MakeDir, Refuse
<1> QED
  BY <1>7, <1>8, <1>9, <1>10, <1>11, <1>12, <1>13, <1>14 DEF Acts

\* A step of a request.
LEMMA TornActs ==
  ASSUME TornIInv, ApartWishes, NEW r \in Requests, Acts(r)
  PROVE  TornIInv'
<1>1. LocalIInv /\ StackOK /\ TurnsOK /\ Turn(r)
  BY ActsTurn DEF TornIInv, LocalIInv
<1>2. LocalIInv' /\ TurnsOK'
  BY <1>1, LocalStep, TurnsKept DEF LocalNext, Acts
<1>3. ASSUME NEW o \in Requests
      PROVE  stack'[o] \in Seq(CleanFrames)
  BY <1>1, ActsClean DEF Turn, TornIInv
<1>4. ASSUME NEW p \in DOMAIN disk', disk'[p].data = Torn
      PROVE  /\ disk'[p].type # "dir"
             /\ \E o \in Requests : At(o, "stream")' /\ Top(o)'.to = p
  <2>1. \A q \in Requests : result[q] # "died"
    BY <1>1 DEF TurnsOK, Turn
  <2>2. ASSUME p \in Torns(disk), disk'[p] = disk[p], At(r, "stream") => p # Top(r).to
        PROVE  /\ disk'[p].type # "dir"
               /\ \E o \in Requests : At(o, "stream")' /\ Top(o)'.to = p
    <3>1. disk[p].type # "dir" /\ p \in HalfWritten(disk)
      BY <2>2 DEF Torns, TornIInv, HalfWritten
    <3>2. PICK o \in Requests : At(o, "stream") /\ Top(o).to = p
      BY <2>1, <3>1 DEF TornIInv
    <3>3. o # r
      BY <2>2, <3>2
    <3>4. stack'[o] = stack[o] /\ result'[o] = result[o]
      BY <1>1, <3>3 DEF Turn
    <3> QED
      BY <2>2, <3>1, <3>2, <3>4 DEF At, Top
  <2>3. CASE /\ At(r, "create") /\ Goto(r, "stream")
             /\ CanCreate(Top(r).to) /\ WriteTo(Top(r).to, Torn)
    <3>1. /\ Top(r) \in Frames /\ result[r] = "running" /\ stack[r] # <<>>
          /\ stack[r] \in Seq(CleanFrames)
      BY <1>1, <2>3, RunningTop DEF StackOK, TornIInv
    <3>2. CASE p = Top(r).to
      <4>1. disk'[p] \in {Link(Torn), File(Torn)}
        BY <2>3, <3>2 DEF WriteTo, Put
      <4>2. disk'[p].type # "dir"
        BY <4>1 DEF Link, File
      <4>3. PICK f : f = [Top(r) EXCEPT !.at = "stream"]
        OBVIOUS
      <4>4. f \in Frames /\ f.at = "stream" /\ f.to = p
        BY <3>1, <3>2, <4>3 DEF Frames, Steps
      <4>5. Last(Append(Front(stack[r]), f)) = f
        <5>1. stack[r] \in Seq(Frames)
          BY <1>1 DEF StackOK
        <5> QED
          BY <3>1, <4>4, <5>1, StackMeans
      <4>6. stack'[r] = Append(Front(stack[r]), f) /\ result'[r] = "running"
        BY <1>1, <2>3, <3>1, <4>3 DEF Goto, Become, StackOK
      <4> QED
        BY <4>2, <4>4, <4>5, <4>6 DEF At, Top
    <3>3. CASE p # Top(r).to
      <4>1. p \in Torns(disk) /\ disk'[p] = disk[p]
        BY <1>4, <2>3, <3>3 DEF WriteTo, Put, Torns
      <4> QED
        BY <2>2, <3>3, <4>1
    <3> QED
      BY <3>2, <3>3
  <2>4. p \in Torns(disk')
    BY <1>4 DEF Torns
  <2>5. HalfStep(r)
    BY ActsHalf
  <2>6. CASE ~ At(r, "stream") /\ NoneTorn({})
    BY <2>2, <2>4, <2>6 DEF NoneTorn
  <2>7. CASE At(r, "stream") /\ NoneTorn({Top(r).to})
    BY <2>2, <2>4, <2>7 DEF NoneTorn
  <2> QED
    BY <2>3, <2>5, <2>6, <2>7 DEF HalfStep
<1> QED
  BY <1>2, <1>3, <1>4 DEF TornIInv, HalfWritten

\* What waited or ran when the process ended goes on no more.
LEMMA TurnsEnd ==
  ASSUME LocalIInv, TurnsOK, Die
  PROVE  TurnsOK'
<1>1. ASSUME NEW r \in Requests, NEW a \in order[r].after,
             result'[r] \in {"running", "ok", "error"}
      PROVE  result'[a] \in {"ok", "error"}
  <2>1. result[r] \in {"ok", "error"} /\ a \in Requests
    BY <1>1, OrderTyped DEF Die, Orders, LocalIInv
  <2>2. result[a] \in {"ok", "error"}
    BY <1>1, <2>1 DEF TurnsOK
  <2> QED
    BY <2>1, <2>2 DEF Die
<1>2. \A r \in Requests : result'[r] \in {"ok", "error", "died"}
  BY DEF Die
<1>3. order' = order
  BY DEF Die
<1> QED
  BY <1>1, <1>2, <1>3 DEF TurnsOK

\* Whoever was writing when the process ended writes no more.
LEMMA TornDies ==
  ASSUME TornIInv, Die, UNCHANGED passed
  PROVE  TornIInv'
<1>1. LocalIInv' /\ order' = order /\ disk' = disk
  BY LocalStep DEF Die, TornIInv, LocalNext
<1>2. \E r \in Requests : result'[r] = "died"
  BY DEF Die
<1>3. TurnsOK'
  BY TurnsEnd DEF TornIInv
<1>4. \A r \in Requests : stack'[r] \in Seq(CleanFrames)
  BY EmptySeq DEF Die
<1> QED
  BY <1>1, <1>2, <1>3, <1>4 DEF TornIInv

\* Nothing is half-written at first.
LEMMA TornInitially == LocalInit => TornIInv
<1> SUFFICES ASSUME LocalInit
             PROVE  TornIInv
  OBVIOUS
<1>1. LocalIInv
  BY LocalInitially
<1>2. TurnsOK
  BY DEF LocalInit, TurnsOK
<1>3. \A r \in Requests : stack[r] \in Seq(CleanFrames)
  BY EmptySeq DEF LocalInit
<1>4. \A p \in DOMAIN disk : disk[p].data # Torn
  BY DiskAssumption DEF LocalInit
<1> QED
  BY <1>1, <1>2, <1>3, <1>4 DEF TornIInv, HalfWritten

\* Every step keeps the invariant, the end of the process among them.
LEMMA TornStep == ApartWishes /\ TornIInv /\ [LocalNext]_localVars => TornIInv'
<1> SUFFICES ASSUME ApartWishes, TornIInv, [LocalNext]_localVars
             PROVE  TornIInv'
  OBVIOUS
<1>1. CASE LocalNext
  BY <1>1, TornActs, TornDies DEF LocalNext, Acts
<1>2. CASE UNCHANGED localVars
  <2>1. UNCHANGED <<disk, order, result, stack>> /\ LocalIInv'
    BY <1>2, LocalStep DEF localVars, TornIInv
  <2> QED
    BY <2>1 DEF TornIInv, TurnsOK, HalfWritten, At, Top
<1> QED
  BY <1>1, <1>2

\* Where no request reads or moves what another one is writing, no answer leaves a
\* half-written file behind.
THEOREM NoneHalfWritten ==
  ASSUME ApartWishes
  PROVE  LocalSpec => []NoTornFile
<1>1. LocalInit => TornIInv
  BY TornInitially
<1>2. TornIInv /\ [LocalNext]_localVars => TornIInv'
  BY TornStep
<1>3. TornIInv => NoTornFile
  <2> SUFFICES ASSUME TornIInv, Torn \in DataOn(disk, {"file", "link"}),
                      \A q \in Requests : result[q] \in {"waiting", "ok", "error"}
               PROVE  FALSE
    BY DEF NoTornFile
  <2>1. PICK p \in DOMAIN disk : disk[p].type # "dir" /\ disk[p].data = Torn
    BY DEF DataOn
  <2>2. \E o \in Requests : At(o, "stream")
    BY <2>1 DEF TornIInv, HalfWritten
  <2> QED
    BY <2>2 DEF At
<1> QED
  BY <1>1, <1>2, <1>3, PTL DEF LocalSpec

--------------------------------------------------------------------------
(* Nothing is lost *)

\* What takes away what is there, and what puts something there.
Taking == {"move", "rename", "remove", "removeAll"}
Writing == {"copy", "move", "write", "rename", "mkdir"}

\* No request writes where another one writes or takes away; no move skips, or
\* goes above or below its source.
LosslessWishes ==
  \A wish \in Wishes : \A r, o \in Requests :
    /\ wish[r].op = "move" => wish[r].policy # "skip" /\ ~ Meets(wish[r].to, wish[r].from)
    /\ r # o /\ wish[r].op \in Writing =>
         /\ wish[o].op \in Taking => ~ Meets(wish[r].to, wish[o].from)
         /\ wish[o].op \in Writing => ~ Meets(wish[r].to, wish[o].to)

\* The files whose data nobody gave up, and no move passed over because Info failed.
Claimed == {p \in DOMAIN Disk \ LeftBehind :
              Disk[p].type = "file" /\ \A r \in Requests : p \notin GivenUp(r)}
\* What was passed over stays so.
Grows == \A r \in Requests : passed[r] \subseteq passed'[r]

\* The steps of copyFile at which the source is still to be read.
Early == {"file", "place", "create", "stream"}
\* r is about to read p and has not written it whole.
AtRisk(r, p) == result[r] = "running" /\ Top(r).at \in Early /\ Top(r).from = p
\* What lies at q, a folder aside, has the data.
Holds(q, data) == q \in DOMAIN disk /\ disk[q].type # "dir" /\ disk[q].data = data

\* r has put the data of p somewhere, and does not write there again.
LandedAt(r, p, q) ==
  /\ Holds(q, Disk[p].data) /\ Stands(order[r].to, q)
  /\ order[r].op = "move" /\ Policy(r) = "replace" => q = Under(order[r].to, order[r].from, p)
Landed(r, p) ==
  /\ order[r].op \in {"move", "rename"} /\ IsPrefix(order[r].from, p)
  /\ order[r].op = "rename" => result[r] # "waiting"
  /\ ~ AtRisk(r, p)
  /\ \E q \in DOMAIN disk : LandedAt(r, p, q)

\* A claimed file is where it was, or has landed.
Found(p) ==
  /\ p \in DOMAIN disk => disk[p] = Disk[p]
  /\ p \notin DOMAIN disk => \E r \in Requests : Landed(r, p)

\* Each open folder but the innermost waits at an entry; what is still there of a
\* listed folder is still to be moved, by a call for an entry of the list or by the
\* call that is under way.
WalkAt(r, s, i) ==
  LET f == s[i] IN
  /\ i < Len(s) => f.at = "entries"
  /\ Policy(r) = "replace" => f.to = Under(order[r].to, order[r].from, f.from)
  /\ f.at = "entries" =>
       \A p \in Claimed \cap DOMAIN disk : IsPrefix(f.from, p) =>
         \/ \E c \in f.todo : IsPrefix(c, p)
         \/ i < Len(s) /\ IsPrefix(s[i + 1].from, p)
\* Every open folder of r accounts for what is left of it.
WalkOK(r) == \A i \in 1 .. Len(stack[r]) : WalkAt(r, stack[r], i)

\* What the innermost call knows.
Knows(r, f) ==
  /\ f.at \in {"place", "create"} /\ Policy(r) # "replace" => ~ Exists(f.to)
  /\ f.at \in {"create", "stream", "unlink"} => f.from \in DOMAIN Disk /\ f.data = Disk[f.from].data
  /\ f.at = "stream" => Holds(f.to, Torn)
  /\ f.at = "unlink" => Holds(f.to, f.data)

\* The source of a move only shrinks.
Shrinks(r) ==
  \A p \in DOMAIN disk : IsPrefix(order[r].from, p) => p \in DOMAIN Disk /\ disk[p] = Disk[p]

\* What is known of a move and its source.
MoveOK(r) == WalkOK(r) /\ (result[r] = "running" => Knows(r, Top(r))) /\ Shrinks(r)

\* The inductive invariant.
LostIInv ==
  /\ LocalIInv
  /\ \A p \in Claimed : Found(p)
  /\ \A r \in Requests : order[r].op = "move" => MoveOK(r)

\* What stands below two places, or below one and under the other, makes them meet.
LEMMA MeetHere ==
  ASSUME NEW a \in Path, NEW b \in Path, NEW q \in Path, Stands(a, q),
         Stands(b, q) \/ IsPrefix(b, q)
  PROVE  Meets(a, b)
<1>1. /\ Len(a) \in Nat /\ Len(b) \in Nat /\ Len(q) \in Nat
      /\ \A i \in 1 .. Len(a) : q[i].base = a[i].base
  BY PathMeans DEF Stands
<1>2. \A i \in 1 .. Len(b) : q[i].base = b[i].base
  <2>1. CASE Stands(b, q)
    BY <2>1 DEF Stands
  <2>2. CASE IsPrefix(b, q)
    BY <2>2, PrefixMeans
  <2> QED
    BY <2>1, <2>2
<1> QED
  BY <1>1, <1>2 DEF Meets

\* What lies below what stands at a place stands there.
LEMMA StandsBelow ==
  ASSUME NEW a \in Path, NEW p \in Path, NEW q \in Path, Stands(a, p), IsPrefix(p, q)
  PROVE  Stands(a, q)
<1>1. Len(a) \in Nat /\ Len(p) \in Nat /\ Len(q) \in Nat
  BY PathMeans
<1>2. Len(a) <= Len(p) /\ \A i \in 1 .. Len(a) : p[i].base = a[i].base
  BY DEF Stands
<1>3. Len(p) <= Len(q) /\ \A i \in 1 .. Len(p) : p[i] = q[i]
  BY PrefixMeans
<1>4. \A i \in 1 .. Len(a) : q[i].base = a[i].base
  <2> TAKE i \in 1 .. Len(a)
  <2>1. i \in 1 .. Len(p)
    BY <1>1, <1>2
  <2> QED
    BY <1>2, <1>3, <2>1
<1> QED
  BY <1>1, <1>2, <1>3, <1>4 DEF Stands

\* Below what is below.
LEMMA UnderUnder ==
  ASSUME NEW to \in Path, NEW p \in Path, NEW y \in Path, NEW x \in Path,
         IsPrefix(p, y), IsPrefix(y, x)
  PROVE  Under(Under(to, p, y), y, x) = Under(to, p, x)
<1>1. IsPrefix(p, x)
  BY PrefixPrefix
<1>2. PICK u : u = Under(to, p, y) /\ Lies(u, to, y, p)
  BY UnderMeans
<1>3. PICK v : v = Under(to, p, x) /\ Lies(v, to, x, p)
  BY <1>1, UnderMeans
<1>4. u \in Path /\ v \in Path
  BY <1>2, <1>3 DEF Lies
<1>5. PICK w : w = Under(u, y, x) /\ Lies(w, u, x, y)
  BY <1>4, UnderMeans
<1>6. /\ Len(p) \in Nat /\ Len(y) \in Nat /\ Len(x) \in Nat /\ Len(to) \in Nat
      /\ Len(p) <= Len(y) /\ Len(y) <= Len(x) /\ \A i \in 1 .. Len(y) : y[i] = x[i]
  BY PathMeans, PrefixMeans
<1>7. /\ w \in Path /\ Len(u) = Len(to) + Len(y) - Len(p) /\ \A i \in 1 .. Len(to) : u[i] = to[i]
      /\ \A i \in 1 .. Len(y) - Len(p) : u[Len(to) + i] = y[Len(p) + i]
      /\ Len(v) = Len(to) + Len(x) - Len(p) /\ \A i \in 1 .. Len(to) : v[i] = to[i]
      /\ \A i \in 1 .. Len(x) - Len(p) : v[Len(to) + i] = x[Len(p) + i]
      /\ Len(w) = Len(u) + Len(x) - Len(y) /\ \A i \in 1 .. Len(u) : w[i] = u[i]
      /\ \A i \in 1 .. Len(x) - Len(y) : w[Len(u) + i] = x[Len(y) + i]
  BY <1>2, <1>3, <1>5 DEF Lies
<1>8. \A i \in 1 .. Len(y) : y[i] = x[i]
  BY <1>6
<1>9. /\ Len(w) = Len(v) /\ Len(u) \in Nat /\ Len(v) \in Nat /\ Len(to) <= Len(u)
      /\ Len(u) = Len(to) + Len(y) - Len(p) /\ Len(v) = Len(to) + Len(x) - Len(p)
      /\ Len(p) \in Nat /\ Len(y) \in Nat /\ Len(x) \in Nat /\ Len(to) \in Nat
      /\ Len(p) <= Len(y) /\ Len(y) <= Len(x)
  BY <1>6, <1>7
<1>10. /\ Len(u) \in Nat /\ Len(v) \in Nat /\ Len(to) \in Nat
  BY <1>9
<1>11. \A i \in 1 .. Len(v) : w[i] = v[i]
  <2> TAKE i \in 1 .. Len(v)
  <2>1. CASE i <= Len(to)
    <3>1. i \in 1 .. Len(to) /\ i \in 1 .. Len(u)
      BY <1>6, <1>9, <2>1
    <3> QED
      BY <1>7, <3>1
  <2>2. CASE Len(to) < i /\ i <= Len(u)
    <3>1. PICK k \in Nat : i = Len(to) + k
      BY <1>10, <2>2
    <3>2. k \in 1 .. Len(y) - Len(p) /\ k \in 1 .. Len(x) - Len(p) /\ Len(p) + k \in 1 .. Len(y)
      BY <1>9, <2>2, <3>1
    <3>3. i \in 1 .. Len(u)
      BY <1>9, <2>2
    <3>4. w[i] = u[i] /\ u[Len(to) + k] = y[Len(p) + k] /\ v[Len(to) + k] = x[Len(p) + k]
      BY <1>7, <3>2, <3>3
    <3>5. y[Len(p) + k] = x[Len(p) + k]
      BY <1>8, <3>2
    <3> QED
      BY <3>1, <3>4, <3>5
  <2>3. CASE Len(u) < i
    <3>1. PICK k \in Nat : i = Len(u) + k
      BY <1>10, <2>3
    <3>2. k \in 1 .. Len(x) - Len(y)
      BY <1>9, <2>3, <3>1
    <3>3. PICK l \in Nat : l = Len(y) - Len(p) + k
      <4>1. Len(y) \in Nat /\ Len(p) \in Nat /\ Len(p) <= Len(y)
        BY <1>6
      <4>2. PICK m \in Nat : m = Len(y) - Len(p)
        BY <4>1
      <4>3. m + k \in Nat
        BY <4>2
      <4> QED
        BY <4>2, <4>3
    <3>4. l \in 1 .. Len(x) - Len(p) /\ i = Len(to) + l /\ Len(p) + l = Len(y) + k
      BY <1>9, <3>1, <3>2, <3>3
    <3>5. w[Len(u) + k] = x[Len(y) + k]
      BY <1>7, <3>2
    <3>6. v[Len(to) + l] = x[Len(p) + l]
      BY <1>7, <3>4
    <3> QED
      BY <3>1, <3>4, <3>5, <3>6
  <2> QED
    BY <1>9, <2>1, <2>2, <2>3
<1> QED
  BY <1>2, <1>3, <1>4, <1>5, <1>7, <1>9, <1>11, SamePath

\* What is below itself is where it is.
LEMMA UnderSelf ==
  ASSUME NEW to \in Path, NEW p \in Path
  PROVE  Under(to, p, p) = to
<1>1. PICK u : u = Under(to, p, p) /\ Lies(u, to, p, p)
  BY PrefixItself, UnderMeans
<1>2. Len(to) \in Nat /\ Len(p) \in Nat
  BY PathMeans
<1>3. u \in Path /\ Len(u) = Len(to) /\ \A i \in 1 .. Len(to) : u[i] = to[i]
  BY <1>1, <1>2 DEF Lies
<1> QED
  BY <1>1, <1>3, SamePath

\* What lies below another place of its own.
LEMMA UnderApart ==
  ASSUME NEW to \in Path, NEW p \in Path, NEW y \in Path, NEW x \in Path,
         IsPrefix(p, y), IsPrefix(p, x), Under(to, p, y) = Under(to, p, x)
  PROVE  y = x
BY UnderBack

\* The calls of a request, by their place.
LEMMA StackPlaces ==
  ASSUME NEW A, NEW s \in Seq(A), s # <<>>, NEW f \in A
  PROVE  /\ Len(s) \in Nat \ {0} /\ Last(s) = s[Len(s)]
         /\ Len(Front(s)) = Len(s) - 1 /\ \A i \in 1 .. Len(s) - 1 : Front(s)[i] = s[i]
         /\ Len(Append(Front(s), f)) = Len(s) /\ Append(Front(s), f)[Len(s)] = f
         /\ \A i \in 1 .. Len(s) - 1 : Append(Front(s), f)[i] = s[i]
<1>1. Len(s) \in Nat \ {0} /\ Last(s) = s[Len(s)]
  BY EmptySeq DEF Last
<1>2. PICK m \in Nat : m = Len(s) - 1 /\ Len(s) = m + 1
  BY <1>1
<1>3. PICK t : t = Front(s) /\ t \in Seq(A) /\ Len(t) = m /\ \A i \in 1 .. m : t[i] = s[i]
  <2>1. \A i \in 1 .. m : s[i] \in A
    BY <1>2, ElementOfSeq
  <2>2. /\ SubSeq(s, 1, m) \in Seq(A) /\ Len(SubSeq(s, 1, m)) = m
        /\ \A i \in 1 .. m : SubSeq(s, 1, m)[i] = s[i]
    BY <1>2, <2>1, SubSeqProperties
  <2> QED
    BY <1>2, <2>2 DEF Front
<1>4. /\ Len(Append(t, f)) = m + 1 /\ Append(t, f)[m + 1] = f
      /\ \A i \in 1 .. m : Append(t, f)[i] = t[i]
  BY <1>3, AppendProperties
<1> QED
  BY <1>1, <1>2, <1>3, <1>4

\* Where a request writes.
Mine(r, q) ==
  /\ order[r].op \in Writing /\ Stands(order[r].to, q)
  /\ order[r].op = "rename" => IsPrefix(order[r].to, q)

\* A request touches only its source, if it takes that away, and its destination, and
\* forgets nothing that was passed over.
Contract(r) ==
  /\ Grows
  /\ \A q \in DOMAIN disk' : Mine(r, q) \/ (q \in DOMAIN disk /\ disk'[q] = disk[q])
  /\ \A q \in DOMAIN disk :
       \/ q \in DOMAIN disk' \/ Mine(r, q)
       \/ order[r].op \in Taking /\ IsPrefix(order[r].from, q)

\* No change of the disk.
LEMMA ContractUnchanged ==
  ASSUME Grows, NEW r, UNCHANGED disk
  PROVE  Contract(r)
BY DEF Contract

\* A node where the request writes.
LEMMA ContractPut ==
  ASSUME Grows, NEW r, NEW p, NEW node, Put(p, node), Mine(r, p)
  PROVE  Contract(r)
BY DEF Contract, Put

\* Removing where the request writes or takes away.
LEMMA ContractDelete ==
  ASSUME Grows, NEW r, NEW ps, Delete(ps),
         \A q \in ps \cap DOMAIN disk :
           Mine(r, q) \/ (order[r].op \in Taking /\ IsPrefix(order[r].from, q))
  PROVE  Contract(r)
BY DEF Contract, Delete

\* A rename of what the request takes away to where it writes.
LEMMA ContractRelocate ==
  ASSUME Grows, TreeOK(disk), NEW r, NEW p \in Path, NEW to \in Path, Relocate(p, to),
         order[r].op \in Taking, \A q \in Below(p) : IsPrefix(order[r].from, q),
         \A q \in Path : IsPrefix(to, q) => Mine(r, q)
  PROVE  Contract(r)
<1>1. \A q \in Below(p) : Mine(r, Under(to, p, q))
  <2> TAKE q \in Below(p)
  <2>1. q \in Path /\ IsPrefix(p, q)
    BY DEF Below, TreeOK
  <2>2. PICK u : u = Under(to, p, q) /\ Lies(u, to, q, p)
    BY <2>1, UnderMeans
  <2> QED
    BY <2>2 DEF Lies
<1>2. \A y \in DOMAIN disk' : Mine(r, y) \/ (y \in DOMAIN disk /\ disk'[y] = disk[y])
  BY <1>1, RelocateMeans
<1>3. ASSUME NEW y \in DOMAIN disk
      PROVE  \/ y \in DOMAIN disk' \/ Mine(r, y)
             \/ order[r].op \in Taking /\ IsPrefix(order[r].from, y)
  <2>1. CASE IsPrefix(p, y)
    BY <2>1 DEF Below
  <2>2. CASE \E q \in Below(p) : y = Under(to, p, q)
    BY <1>1, <2>2
  <2>3. CASE ~ IsPrefix(p, y) /\ \A q \in Below(p) : y # Under(to, p, q)
    BY <2>3, RelocateMeans
  <2> QED
    BY <2>1, <2>2, <2>3
<1> QED
  BY <1>2, <1>3 DEF Contract

\* The destination of a call, and what lies below.
LEMMA TopMine ==
  ASSUME LocalIInv, NEW r \in Requests, NEW stage, At(r, stage)
  PROVE  /\ Mine(r, Top(r).to)
         /\ \A q \in Path : IsPrefix(Top(r).to, q) => Mine(r, q)
<1>1. /\ Suits(r, Top(r)) /\ Top(r).to \in Path /\ order[r].to \in Path
      /\ order[r].op \in {"copy", "move", "write"}
  BY RunningTop
<1>2. Stands(order[r].to, Top(r).to)
  BY <1>1 DEF Suits
<1> QED
  BY <1>1, <1>2, StandsBelow DEF Mine, Writing

\* Every step of a request keeps to its source and its destination.
LEMMA ActsContract ==
  ASSUME LocalIInv, NEW r \in Requests, Acts(r)
  PROVE  Contract(r)
<1>0. Grows
  BY PassedStep DEF Acts, LocalNext, Grows
<1>1. /\ TreeOK(disk) /\ StackOK /\ order[r] \in Orders
      /\ order[r].from \in Path /\ order[r].to \in Path
  BY OrderTyped DEF LocalIInv, DiskOK, Orders
<1>2. ASSUME UNCHANGED disk
      PROVE  Contract(r)
  BY <1>0, <1>2, ContractUnchanged
<1>3. ASSUME NEW stage, At(r, stage)
      PROVE  /\ Mine(r, Top(r).to) /\ \A q \in Path : IsPrefix(Top(r).to, q) => Mine(r, q)
             /\ Top(r).from \in Path /\ Top(r).to \in Path
             /\ order[r].op = "move" =>
                  \A q \in Path : IsPrefix(Top(r).from, q) => IsPrefix(order[r].from, q)
  <2>1. Top(r).from \in Path /\ Top(r).to \in Path /\ Suits(r, Top(r))
    BY <1>3, RunningTop
  <2>2. order[r].op = "move" => IsPrefix(order[r].from, Top(r).from)
    BY <2>1 DEF Suits
  <2> QED
    BY <1>1, <1>3, <2>1, <2>2, TopMine, PrefixPrefix
<1>4. CASE Copy(r) \/ Write(r)
  BY <1>2, <1>4 DEF Copy, Write, Refuse, Enter
<1>5. CASE Simple(r)
  <2>1. CASE order[r].op = "remove" /\ Delete({order[r].from})
    BY <1>0, <1>1, <2>1, PrefixItself, ContractDelete DEF Taking
  <2>2. CASE order[r].op = "removeAll" /\ Delete(Below(order[r].from))
    BY <1>0, <2>2, ContractDelete DEF Taking, Below
  <2>3. CASE order[r].op = "rename" /\ Relocate(order[r].from, order[r].to)
    <3>1. \A q \in Path : IsPrefix(order[r].to, q) => Mine(r, q)
      BY <1>1, <2>3, StandsItself, StandsBelow DEF Mine, Writing
    <3>2. \A q \in Below(order[r].from) : IsPrefix(order[r].from, q)
      BY DEF Below
    <3> QED
      BY <1>0, <1>1, <2>3, <3>1, <3>2, ContractRelocate DEF Taking
  <2>4. CASE order[r].op = "mkdir" /\ Put(order[r].to, Folder)
    <3>1. Mine(r, order[r].to)
      BY <1>1, <2>4, StandsItself DEF Mine, Writing
    <3> QED
      BY <1>0, <2>4, <3>1, ContractPut
  <2> QED
    BY <1>2, <1>5, <2>1, <2>2, <2>3, <2>4 DEF Simple, Refuse
<1>6. CASE CopyFile(r) \/ OpenSource(r) \/ CopyDir(r) \/ ReadDir(r) \/ Entry(r)
  BY <1>2, <1>6 DEF CopyFile, OpenSource, CopyDir, ReadDir, Entry
<1>7. CASE MoveFile(r)
  <2>1. At(r, "place") /\ order[r].op = "move"
    BY <1>7 DEF MoveFile, Moving
  <2>2. CASE Relocate(Top(r).from, Top(r).to)
    <3>1. \A q \in Below(Top(r).from) : IsPrefix(order[r].from, q)
      BY <1>1, <1>3, <2>1 DEF Below, TreeOK
    <3> QED
      BY <1>0, <1>1, <1>3, <2>1, <2>2, <3>1, ContractRelocate DEF Taking
  <2> QED
    BY <1>2, <1>7, <2>2 DEF MoveFile, Refuse
<1>8. CASE Create(r)
  <2>1. Mine(r, Top(r).to)
    BY <1>3, <1>8 DEF Create
  <2> QED
    BY <1>0, <1>2, <1>8, <2>1, ContractPut DEF Create, Refuse, WriteTo
<1>9. CASE Stream(r)
  <2>1. Mine(r, Top(r).to)
    BY <1>3, <1>9 DEF Stream
  <2>2. CASE Delete({Top(r).to})
    BY <1>0, <2>1, <2>2, ContractDelete
  <2>3. CASE WriteTo(Top(r).to, Top(r).data)
    BY <1>0, <2>1, <2>3, ContractPut DEF WriteTo
  <2> QED
    BY <1>2, <1>9, <2>2, <2>3 DEF Stream, Filled
<1>10. CASE Unlink(r)
  <2>1. At(r, "unlink")
    BY <1>10 DEF Unlink
  <2>2. order[r].op = "move"
    BY <2>1, RunningTop DEF Suits
  <2>3. IsPrefix(order[r].from, Top(r).from)
    BY <1>3, <2>1, <2>2, PrefixItself
  <2>4. CASE Delete({Top(r).from})
    BY <1>0, <2>2, <2>3, <2>4, ContractDelete DEF Taking
  <2> QED
    BY <1>2, <1>10, <2>4 DEF Unlink, Refuse
<1>11. CASE MakeDir(r)
  <2>1. Mine(r, Top(r).to)
    BY <1>3, <1>11 DEF MakeDir
  <2> QED
    BY <1>0, <1>2, <1>11, <2>1, ContractPut DEF MakeDir, Refuse
<1>12. CASE EndDir(r)
  <2>1. At(r, "entries")
    BY <1>12 DEF EndDir
  <2>2. CASE Moving(r) /\ Delete(Below(Top(r).from))
    <3>1. \A q \in Below(Top(r).from) : IsPrefix(order[r].from, q)
      BY <1>1, <1>3, <2>1, <2>2 DEF Below, TreeOK, Moving
    <3> QED
      BY <1>0, <2>2, <3>1, ContractDelete DEF Taking, Moving
  <2> QED
    BY <1>2, <1>12, <2>2 DEF EndDir, Refuse
<1> QED
  BY <1>4, <1>5, <1>6, <1>7, <1>8, <1>9, <1>10, <1>11, <1>12 DEF Acts

--------------------------------------------------------------------------
(* What the requests leave to each other *)

\* What LosslessWishes says of the orders at hand.
Lossless ==
  \A r, o \in Requests :
    /\ order[r].op = "move" => Policy(r) # "skip" /\ ~ Meets(order[r].to, order[r].from)
    /\ r # o /\ order[r].op \in Writing =>
         /\ order[o].op \in Taking => ~ Meets(order[r].to, order[o].from)
         /\ order[o].op \in Writing => ~ Meets(order[r].to, order[o].to)

\* The orders are one of the wishes.
LEMMA NowLossless ==
  ASSUME StackOK, LosslessWishes
  PROVE  Lossless
BY DEF StackOK, LosslessWishes, Lossless, Policy

\* Where one request writes, no other takes away or writes, and a move does not
\* write into its source.
LEMMA MineAlone ==
  ASSUME LocalIInv, Lossless, NEW r \in Requests, NEW o \in Requests, NEW q \in Path, Mine(r, q)
  PROVE  /\ r # o /\ order[o].op \in Taking => ~ IsPrefix(order[o].from, q)
         /\ r # o /\ order[o].op \in Writing => ~ Stands(order[o].to, q)
         /\ order[r].op = "move" => ~ IsPrefix(order[r].from, q)
<1>1. order[r].to \in Path /\ order[o].to \in Path /\ order[o].from \in Path /\ order[r].from \in Path
  BY OrderTyped DEF LocalIInv, Orders
<1>2. order[r].op \in Writing /\ Stands(order[r].to, q)
  BY DEF Mine
<1>3. ASSUME r # o, order[o].op \in Taking, IsPrefix(order[o].from, q)
      PROVE  FALSE
  BY <1>1, <1>2, <1>3, MeetHere DEF Lossless
<1>4. ASSUME r # o, order[o].op \in Writing, Stands(order[o].to, q)
      PROVE  FALSE
  BY <1>1, <1>2, <1>4, MeetHere DEF Lossless
<1>5. ASSUME order[r].op = "move", IsPrefix(order[r].from, q)
      PROVE  FALSE
  BY <1>1, <1>2, <1>5, MeetHere DEF Lossless
<1> QED
  BY <1>3, <1>4, <1>5

\* A claimed file where somebody writes is one that nobody takes away either.
LEMMA MineKept ==
  ASSUME LocalIInv, Lossless, NEW r \in Requests, NEW p \in Claimed, Mine(r, p)
  PROVE  Kept(p)
<1>1. p \in DOMAIN Disk /\ p \in Path /\ \A o \in Requests : p \notin GivenUp(o)
  BY DiskAssumption DEF Claimed
<1>2. ASSUME NEW o \in Requests, order[o].op \in {"move", "rename"}, IsPrefix(order[o].from, p)
      PROVE  FALSE
  <2>1. o = r
    BY <1>1, <1>2, MineAlone DEF Taking
  <2>2. order[r].op = "rename"
    BY <1>1, <1>2, <2>1, MineAlone
  <2>3. IsPrefix(order[r].to, p)
    BY <2>2 DEF Mine
  <2>4. p \in GivenUp(r)
    BY <1>1, <2>2, <2>3 DEF GivenUp
  <2> QED
    BY <1>1, <2>4
<1> QED
  BY <1>1, <1>2 DEF Kept

\* What was passed over stays so, and what moves passed over as well.
LEMMA PassedStays ==
  ASSUME order' = order, Grows
  PROVE  /\ \A r \in Requests : PassedOver(r) \subseteq PassedOver(r)'
         /\ LeftBehind \subseteq LeftBehind'
<1>1. \A r \in Requests : PassedOver(r) \subseteq PassedOver(r)'
  BY DEF PassedOver, Grows
<1> QED
  BY <1>1 DEF LeftBehind, Moving

\* What is claimed is settled by what was asked for and what moves passed over.
LEMMA SameClaims ==
  ASSUME order' = order, Grows
  PROVE  Claimed' \subseteq Claimed
BY PassedStays DEF Claimed, GivenUp

\* A claimed file stays as it was, unless its move or rename takes it away.
LEMMA ClaimStays ==
  ASSUME LostIInv, Lossless, LocalIInv', NEW r \in Requests, order' = order, Contract(r),
         NEW p \in Claimed
  PROVE  /\ p \in DOMAIN disk' => disk'[p] = Disk[p]
         /\ p \in DOMAIN disk /\ p \notin DOMAIN disk' =>
              order[r].op \in {"move", "rename"} /\ IsPrefix(order[r].from, p)
<1>1. LocalIInv /\ Found(p)
  BY DEF LostIInv
<1>2. ASSUME Kept(p)
      PROVE  p \in DOMAIN disk' /\ disk'[p] = Disk[p]
  BY <1>2, KeptStays DEF LocalIInv, DiskOK
<1>3. ASSUME p \in DOMAIN disk', ~ Mine(r, p)
      PROVE  disk'[p] = Disk[p]
  BY <1>1, <1>3 DEF Contract, Found
<1>4. ASSUME p \in DOMAIN disk, p \notin DOMAIN disk'
      PROVE  order[r].op \in {"move", "rename"} /\ IsPrefix(order[r].from, p)
  <2>1. order[r].op \in Taking /\ IsPrefix(order[r].from, p)
    BY <1>1, <1>2, <1>4, MineKept DEF Contract
  <2>2. p \in DOMAIN Disk /\ p \notin GivenUp(r)
    BY DEF Claimed
  <2>3. order[r].op \notin {"remove", "removeAll"}
    BY <2>1, <2>2 DEF GivenUp
  <2> QED
    BY <2>1, <2>3 DEF Taking
<1> QED
  BY <1>1, <1>2, <1>3, <1>4, MineKept

\* What a request neither writes nor takes away.
LEMMA NotTouched ==
  ASSUME NEW r, Contract(r), NEW q \in DOMAIN disk, ~ Mine(r, q),
         order[r].op \in Taking => ~ IsPrefix(order[r].from, q)
  PROVE  q \in DOMAIN disk' /\ disk'[q] = disk[q]
BY DEF Contract

\* What one request has written, and how far it is, no other one touches.
LEMMA OthersStay ==
  ASSUME LostIInv, Lossless, LocalIInv', NEW r \in Requests, NEW o \in Requests, o # r, Turn(r),
         Contract(r)
  PROVE  /\ \A p \in Claimed : Landed(o, p) => Landed(o, p)'
         /\ order[o].op = "move" => MoveOK(o)'
<1>1. /\ LocalIInv /\ StackOK /\ TreeOK(disk) /\ order' = order
      /\ stack'[o] = stack[o] /\ result'[o] = result[o] /\ Top(o)' = Top(o) /\ Claimed' \subseteq Claimed
  BY SameClaims DEF LostIInv, LocalIInv, DiskOK, Turn, Top, Contract
<1>2. order[o].from \in Path /\ order[o].to \in Path /\ order[r].from \in Path /\ order[r].to \in Path
  BY <1>1, OrderTyped DEF Orders
\* Where o writes.
<1>3. ASSUME order[o].op \in Writing, NEW q \in Path, Stands(order[o].to, q)
      PROVE  /\ ~ Mine(r, q)
             /\ order[r].op \in Taking => ~ IsPrefix(order[r].from, q)
             /\ q \in DOMAIN disk => q \in DOMAIN disk' /\ disk'[q] = disk[q]
             /\ q \notin DOMAIN disk => q \notin DOMAIN disk'
  <2>1. ~ Mine(r, q)
    BY <1>1, <1>3, MineAlone
  <2>2. ASSUME order[r].op \in Taking, IsPrefix(order[r].from, q)
        PROVE  FALSE
    BY <1>2, <1>3, <2>2, MeetHere DEF Lossless
  <2> QED
    BY <2>1, <2>2, NotTouched DEF Contract
\* Where o takes away.
<1>4. ASSUME order[o].op \in Taking, NEW q \in DOMAIN disk', IsPrefix(order[o].from, q), q \in Path
      PROVE  q \in DOMAIN disk /\ disk'[q] = disk[q]
  <2>1. ~ Mine(r, q)
    BY <1>1, <1>4, MineAlone
  <2> QED
    BY <2>1 DEF Contract
<1>5. ASSUME NEW p \in Claimed, Landed(o, p)
      PROVE  Landed(o, p)'
  <2>1. PICK q \in DOMAIN disk : LandedAt(o, p, q)
    BY <1>5 DEF Landed
  <2>2. q \in Path /\ order[o].op \in Writing
    BY <1>1, <1>5 DEF TreeOK, Landed, Writing
  <2>3. q \in DOMAIN disk' /\ disk'[q] = disk[q]
    BY <1>3, <2>1, <2>2 DEF LandedAt
  <2>4. LandedAt(o, p, q)' /\ (AtRisk(o, p)' <=> AtRisk(o, p))
    BY <1>1, <2>1, <2>3 DEF Policy, AtRisk, LandedAt, Holds
  <2> QED
    BY <1>1, <1>5, <2>3, <2>4 DEF Landed
<1>6. ASSUME order[o].op = "move"
      PROVE  MoveOK(o)'
  <2>1. order[o].op \in Writing \cap Taking /\ MoveOK(o) /\ Policy(o)' = Policy(o)
    BY <1>1, <1>6 DEF Writing, Taking, LostIInv, Policy
  <2>2. \A q \in DOMAIN disk' : q \in Path
    BY DEF LocalIInv, DiskOK, TreeOK
  <2>3. Shrinks(o)'
    BY <1>1, <1>4, <2>1, <2>2 DEF MoveOK, Shrinks
  <2>4. ASSUME NEW i \in 1 .. Len(stack[o])
        PROVE  WalkAt(o, stack[o], i)'
    <3>1. PICK f : f = stack[o][i] /\ f \in Good(o)
      BY <1>1, ElementOfSeq DEF StackOK
    <3>2. f.from \in Path /\ IsPrefix(order[o].from, f.from)
      BY <1>6, <3>1 DEF Good, Suits, Frames
    <3>3. ASSUME NEW p \in Claimed \cap DOMAIN disk', IsPrefix(f.from, p)
          PROVE  p \in DOMAIN disk
      <4>1. p \in Path /\ IsPrefix(order[o].from, p)
        BY <1>2, <2>2, <3>2, <3>3, PrefixPrefix
      <4> QED
        BY <1>4, <2>1, <3>3, <4>1
    <3>4. WalkAt(o, stack[o], i)
      BY <2>1 DEF MoveOK, WalkOK
    <3> QED
      BY <1>1, <2>1, <3>1, <3>3, <3>4 DEF WalkAt
  <2>5. WalkOK(o)'
    BY <1>1, <2>4 DEF WalkOK
  <2>6. ASSUME result[o] = "running"
        PROVE  Knows(o, Top(o))'
    <3>1. Knows(o, Top(o)) /\ Top(o).to \in Path /\ Stands(order[o].to, Top(o).to)
      BY <1>1, <2>1, <2>6, TopGood DEF MoveOK, Suits, Frames
    <3>2. /\ Top(o).to \in DOMAIN disk => Top(o).to \in DOMAIN disk' /\ disk'[Top(o).to] = disk[Top(o).to]
          /\ Top(o).to \notin DOMAIN disk => Top(o).to \notin DOMAIN disk'
      BY <1>3, <2>1, <3>1
    <3> QED
      BY <1>1, <2>1, <3>1, <3>2 DEF Knows, Holds, Exists
  <2> QED
    BY <1>1, <2>3, <2>5, <2>6 DEF MoveOK
<1> QED
  BY <1>5, <1>6

\* What is in the source of a move was there before.
LEMMA SourceShrinks ==
  ASSUME LostIInv, Lossless, LocalIInv', NEW r \in Requests, order[r].op = "move", Contract(r),
         NEW q \in DOMAIN disk', IsPrefix(order[r].from, q)
  PROVE  q \in DOMAIN disk /\ disk'[q] = disk[q]
<1>1. q \in Path
  BY DEF LocalIInv, DiskOK, TreeOK
<1>2. ~ Mine(r, q)
  BY <1>1, MineAlone DEF LostIInv
<1> QED
  BY <1>2 DEF Contract

\* What is known of the innermost call of a move.
LEMMA MoveTop ==
  ASSUME LostIInv, Lossless, NEW r \in Requests, order[r].op = "move", NEW stage, At(r, stage)
  PROVE  /\ LocalIInv /\ StackOK /\ TreeOK(disk) /\ result[r] = "running" /\ Policy(r) # "skip"
         /\ Top(r) \in Frames /\ Top(r).at = stage /\ Top(r).from \in Path /\ Top(r).to \in Path
         /\ order[r].from \in Path /\ order[r].to \in Path
         /\ IsPrefix(order[r].from, Top(r).from) /\ Stands(order[r].to, Top(r).to)
         /\ Knows(r, Top(r)) /\ Shrinks(r) /\ WalkOK(r)
         /\ Policy(r) = "replace" => Top(r).to = Under(order[r].to, order[r].from, Top(r).from)
         /\ stage = "entries" => \A p \in Claimed \cap DOMAIN disk : IsPrefix(Top(r).from, p) =>
                                  \E c \in Top(r).todo : IsPrefix(c, p)
         /\ \A q \in Path : Stands(order[r].to, q) => ~ IsPrefix(order[r].from, q)
         /\ \A c \in Top(r).todo : IsPrefix(Top(r).from, c)
<1>1. /\ LocalIInv /\ StackOK /\ TreeOK(disk) /\ result[r] = "running" /\ Policy(r) # "skip"
      /\ Top(r) \in Frames /\ Top(r).at = stage /\ Top(r).from \in Path /\ Top(r).to \in Path
      /\ order[r].from \in Path /\ order[r].to \in Path /\ Suits(r, Top(r))
  BY RunningTop DEF LostIInv, Lossless
<1>2. /\ IsPrefix(order[r].from, Top(r).from) /\ Stands(order[r].to, Top(r).to)
      /\ \A c \in Top(r).todo : IsPrefix(Top(r).from, c)
  BY <1>1 DEF Suits
<1>3. Knows(r, Top(r)) /\ Shrinks(r) /\ WalkOK(r)
  BY <1>1 DEF LostIInv, MoveOK
<1>4. /\ Policy(r) = "replace" => Top(r).to = Under(order[r].to, order[r].from, Top(r).from)
      /\ stage = "entries" => \A p \in Claimed \cap DOMAIN disk : IsPrefix(Top(r).from, p) =>
                               \E c \in Top(r).todo : IsPrefix(c, p)
  <2>1. stack[r] \in Seq(Frames) /\ stack[r] # <<>>
    BY <1>1 DEF StackOK
  <2>2. Len(stack[r]) \in Nat \ {0} /\ Top(r) = stack[r][Len(stack[r])]
    BY <1>1, <2>1, StackPlaces DEF Top
  <2>3. WalkAt(r, stack[r], Len(stack[r]))
    BY <1>3, <2>2 DEF WalkOK
  <2> QED
    BY <1>1, <2>2, <2>3 DEF WalkAt
<1>5. \A q \in Path : Stands(order[r].to, q) => ~ IsPrefix(order[r].from, q)
  BY <1>1, MeetHere DEF Lossless
<1> QED
  BY <1>1, <1>2, <1>3, <1>4, <1>5

\* A step of a move keeps what its calls know; it sets out only with what is there.
Calls(r) ==
  /\ WalkOK(r)' /\ (result'[r] = "running" => Knows(r, Top(r))')
  /\ \A p : p \notin DOMAIN disk /\ ~ AtRisk(r, p) => ~ AtRisk(r, p)'

\* The innermost call of a move goes on.
LEMMA BecomeCalls ==
  ASSUME LostIInv, Lossless, LocalIInv', NEW r \in Requests, order[r].op = "move", Contract(r),
         NEW stage, At(r, stage), NEW f \in Frames, Become(r, f), f.from = Top(r).from,
         Policy(r) = "replace" => f.to = Under(order[r].to, order[r].from, f.from),
         f.at = "entries" => \A p \in Claimed' \cap DOMAIN disk : IsPrefix(f.from, p) =>
                               \E c \in f.todo : IsPrefix(c, p),
         Knows(r, f)', f.at \in Early => stage \in Early
  PROVE  Calls(r)
<1>1. /\ StackOK /\ result[r] = "running" /\ Top(r).at = stage /\ WalkOK(r)
      /\ stack[r] \in Seq(Frames) /\ stack[r] # <<>> /\ order[r].from \in Path
  BY MoveTop DEF StackOK
<1>2. PICK t : t = Append(Front(stack[r]), f)
  OBVIOUS
<1>3. PICK s : s = stack[r]
  OBVIOUS
<1>4. /\ Len(s) \in Nat \ {0} /\ Len(t) = Len(s) /\ t[Len(s)] = f /\ Top(r) = s[Len(s)]
      /\ \A i \in 1 .. Len(s) - 1 : t[i] = s[i]
  BY <1>1, <1>2, <1>3, StackPlaces DEF Top
<1>5. /\ stack'[r] = t /\ order' = order /\ result' = result /\ Top(r)' = f
      /\ Claimed' \subseteq Claimed /\ Policy(r)' = Policy(r)
  <2>1. stack'[r] = t /\ order' = order /\ result' = result
    BY <1>1, <1>2 DEF Become, StackOK
  <2>2. Last(t) = f
    BY <1>1, <1>2, StackMeans
  <2>3. Top(r)' = f
    BY <2>1, <2>2 DEF Top
  <2> QED
    BY <2>1, <2>3, SameClaims DEF Policy, Contract
<1>6. ASSUME NEW i \in 1 .. Len(s)
      PROVE  WalkAt(r, t, i)'
  <2>1. \A p \in Claimed \cap DOMAIN disk' : IsPrefix(order[r].from, p) => p \in DOMAIN disk
    BY SourceShrinks
  <2>2. \A p \in Claimed : p \in Path
    BY DiskAssumption DEF Claimed
  <2>3. s[i] \in Good(r)
    BY <1>1, <1>3, ElementOfSeq DEF StackOK
  <2>4. s[i].from \in Path /\ IsPrefix(order[r].from, s[i].from)
    BY <2>3 DEF Good, Suits, Frames
  <2>5. ASSUME NEW p \in Claimed \cap DOMAIN disk', IsPrefix(s[i].from, p)
        PROVE  p \in DOMAIN disk
    BY <1>1, <2>1, <2>2, <2>4, <2>5, PrefixPrefix
  <2>6. CASE i = Len(s)
    <3>1. f.from = s[i].from
      BY <1>4, <2>6
    <3> QED
      BY <1>4, <1>5, <2>5, <2>6, <3>1 DEF WalkAt
  <2>7. CASE i # Len(s)
    <3>1. WalkAt(r, s, i)
      BY <1>1, <1>3 DEF WalkOK
    <3>2. i \in 1 .. Len(s) - 1 /\ i < Len(s) /\ i < Len(t) /\ i + 1 \in 1 .. Len(s)
      BY <1>4, <2>7
    <3>3. t[i] = s[i] /\ t[i + 1].from = s[i + 1].from
      BY <1>4, <3>2
    <3> QED
      BY <1>5, <2>5, <3>1, <3>2, <3>3 DEF WalkAt
  <2> QED
    BY <2>6, <2>7
<1>7. WalkOK(r)'
  BY <1>4, <1>5, <1>6 DEF WalkOK
<1>8. \A p : p \notin DOMAIN disk /\ ~ AtRisk(r, p) => ~ AtRisk(r, p)'
  BY <1>1, <1>5 DEF AtRisk
<1> QED
  BY <1>5, <1>7, <1>8 DEF Calls

\* The innermost call of a move returns and leaves nothing claimed in its source.
LEMMA ReturnCalls ==
  ASSUME LostIInv, Lossless, LocalIInv', NEW r \in Requests, order[r].op = "move", Contract(r),
         NEW stage, At(r, stage), Return(r),
         \A p \in Claimed \cap DOMAIN disk' : ~ IsPrefix(Top(r).from, p)
  PROVE  Calls(r) /\ \A p : ~ AtRisk(r, p)'
<1>1. /\ StackOK /\ result[r] = "running" /\ WalkOK(r)
      /\ stack[r] \in Seq(Frames) /\ stack[r] # <<>> /\ order[r].from \in Path /\ Top(r) \in Frames
  BY MoveTop DEF StackOK
<1>2. PICK s : s = stack[r]
  OBVIOUS
<1>3. PICK t : t = Front(s)
  OBVIOUS
<1>4. /\ Len(s) \in Nat \ {0} /\ Len(t) = Len(s) - 1 /\ Top(r) = s[Len(s)]
      /\ \A i \in 1 .. Len(s) - 1 : t[i] = s[i]
      /\ t \in Seq(Frames)
  BY <1>1, <1>2, <1>3, StackPlaces, StackMeans DEF Top
<1>5. /\ stack'[r] = t /\ order' = order /\ Claimed' \subseteq Claimed /\ Policy(r)' = Policy(r)
      /\ result'[r] = IF Len(s) = 1 THEN "ok" ELSE "running"
  <2>1. stack'[r] = t /\ order' = order /\ result'[r] = IF Len(s) = 1 THEN "ok" ELSE "running"
    BY <1>1, <1>2, <1>3 DEF Return, StackOK
  <2> QED
    BY <2>1, SameClaims DEF Policy, Contract
<1>6. ASSUME NEW i \in 1 .. Len(t)
      PROVE  WalkAt(r, t, i)' /\ t[i].at = "entries"
  <2>1. \A p \in Claimed \cap DOMAIN disk' : IsPrefix(order[r].from, p) => p \in DOMAIN disk
    BY SourceShrinks
  <2>2. \A p \in Claimed : p \in Path
    BY DiskAssumption DEF Claimed
  <2>3. i \in 1 .. Len(s) - 1 /\ i \in 1 .. Len(s) /\ i < Len(s) /\ i + 1 \in 1 .. Len(s)
    BY <1>4
  <2>4. s[i] \in Good(r)
    BY <1>1, <1>2, <2>3, ElementOfSeq DEF StackOK
  <2>5. s[i].from \in Path /\ IsPrefix(order[r].from, s[i].from)
    BY <2>4 DEF Good, Suits, Frames
  <2>6. ASSUME NEW p \in Claimed \cap DOMAIN disk', IsPrefix(s[i].from, p)
        PROVE  p \in DOMAIN disk
    BY <1>1, <2>1, <2>2, <2>5, <2>6, PrefixPrefix
  <2>7. WalkAt(r, s, i) /\ t[i] = s[i]
    BY <1>1, <1>2, <1>4, <2>3 DEF WalkOK
  <2>8. t[i].at = "entries"
    BY <2>3, <2>7 DEF WalkAt
  <2>9. CASE i < Len(t)
    <3>1. t[i + 1] = s[i + 1]
      BY <1>4, <2>3, <2>9
    <3> QED
      BY <1>5, <2>3, <2>6, <2>7, <2>8, <2>9, <3>1 DEF WalkAt
  <2>10. CASE ~ (i < Len(t))
    <3>1. i + 1 = Len(s)
      BY <1>4, <2>3, <2>10
    <3>2. s[i + 1] = Top(r)
      BY <1>4, <3>1
    <3> QED
      BY <1>5, <2>3, <2>6, <2>7, <2>8, <2>10, <3>2 DEF WalkAt
  <2> QED
    BY <2>8, <2>9, <2>10
<1>7. WalkOK(r)'
  BY <1>5, <1>6 DEF WalkOK
<1>8. ASSUME result'[r] = "running"
      PROVE  Top(r)'.at = "entries"
  <2>1. Len(t) \in 1 .. Len(t)
    BY <1>4, <1>5, <1>8
  <2>2. Top(r)' = t[Len(t)]
    BY <1>5 DEF Top, Last
  <2> QED
    BY <1>6, <2>1, <2>2
<1>9. result'[r] = "running" => Knows(r, Top(r))'
  BY <1>8 DEF Knows
<1>10. \A p : ~ AtRisk(r, p)'
  BY <1>8 DEF AtRisk, Early
<1> QED
  BY <1>7, <1>9, <1>10 DEF Calls

\* A call that ends badly leaves no calls.
LEMMA FailCalls ==
  ASSUME StackOK, NEW r \in Requests, Fail(r)
  PROVE  Calls(r)
<1>1. stack'[r] = <<>> /\ result'[r] = "error"
  BY DEF Fail, StackOK
<1>2. WalkOK(r)'
  BY <1>1, EmptySeq DEF WalkOK
<1> QED
  BY <1>1, <1>2 DEF Calls, AtRisk

\* What a step of a move takes out of its source it has put at the destination, and
\* what it has put there stays.
Files(r) ==
  /\ \A p \in Claimed \cap DOMAIN disk : p \notin DOMAIN disk' => Landed(r, p)'
  /\ \A p \in Claimed \ DOMAIN disk, q \in DOMAIN disk :
       LandedAt(r, p, q) /\ IsPrefix(order[r].from, p) /\ ~ AtRisk(r, p) =>
         q \in DOMAIN disk' /\ disk'[q] = disk[q]
\* A step of a move keeps what its calls know and loses no file.
Own(r) == Calls(r) /\ Files(r)

\* No change of the disk.
LEMMA FilesUnchanged ==
  ASSUME NEW r \in Requests, UNCHANGED disk
  PROVE  Files(r)
BY DEF Files

\* A call that ends badly and changes nothing.
LEMMA RefuseOwn ==
  ASSUME StackOK, NEW r \in Requests, Fail(r), UNCHANGED disk
  PROVE  Own(r)
BY FailCalls, FilesUnchanged DEF Own

\* A move begins (localfs.go:222-250).
LEMMA CopyOwn ==
  ASSUME LostIInv, NEW r \in Requests, order[r].op = "move", Copy(r)
  PROVE  Own(r)
<1> DEFINE o == order[r]
           stage == IF IsDir(o.from) THEN "dir" ELSE "file"
<1>1. StackOK /\ o.from \in Path /\ o.to \in Path /\ result[r] = "waiting"
  BY OrderTyped DEF LostIInv, LocalIInv, Orders, Copy, Begins
<1>2. CASE Refuse(r)
  BY <1>1, <1>2, RefuseOwn DEF Refuse
<1>3. CASE Enter(r, Frame(stage, o.from, o.to)) /\ Exists(o.from)
  <2>1. PICK f : f = Frame(stage, o.from, o.to)
    OBVIOUS
  <2>2. /\ f \in Frames /\ f.at = stage /\ f.from = o.from /\ f.to = o.to /\ stage \in {"dir", "file"}
    BY <1>1, <2>1, FrameTyped DEF Steps
  <2>3. /\ stack'[r] = <<f>> /\ result'[r] = "running" /\ order' = order /\ UNCHANGED disk
        /\ Top(r)' = f
    BY <1>1, <1>3, <2>1 DEF Enter, StackOK, Top, Last
  <2>4. f.to = Under(o.to, o.from, f.from)
    BY <1>1, <2>2, UnderSelf
  <2>5. Len(<<f>>) = 1 /\ <<f>>[1] = f
    OBVIOUS
  <2>6. WalkOK(r)'
    BY <2>2, <2>3, <2>4, <2>5 DEF WalkOK, WalkAt
  <2>7. Knows(r, Top(r))'
    BY <2>2, <2>3 DEF Knows
  <2>8. \A p : p \notin DOMAIN disk => ~ AtRisk(r, p)'
    <3> SUFFICES ASSUME NEW p, p \notin DOMAIN disk, AtRisk(r, p)'
                 PROVE  FALSE
      OBVIOUS
    <3>1. p = o.from /\ stage = "file"
      BY <2>2, <2>3 DEF AtRisk, Early
    <3> QED
      BY <1>3, <3>1 DEF Exists, IsDir, TypeOf
  <2> QED
    BY <2>3, <2>6, <2>7, <2>8, FilesUnchanged DEF Own, Calls
<1> QED
  BY <1>2, <1>3 DEF Copy

\* On with the same call, which knows what the step needs.
LEMMA GotoCalls ==
  ASSUME LostIInv, Lossless, LocalIInv', NEW r \in Requests, order[r].op = "move", Contract(r),
         NEW stage, At(r, stage), NEW next \in Steps \ {"entries"}, Goto(r, next),
         NEW f, f = [Top(r) EXCEPT !.at = next], Knows(r, f)', next \in Early => stage \in Early
  PROVE  Calls(r)
<1>1. /\ Top(r) \in Frames
      /\ Policy(r) = "replace" => Top(r).to = Under(order[r].to, order[r].from, Top(r).from)
  BY MoveTop
<1>2. f \in Frames /\ f.at = next /\ f.from = Top(r).from /\ f.to = Top(r).to
  BY <1>1 DEF Frames
<1> QED
  BY <1>1, <1>2, BecomeCalls DEF Goto

\* Beside what is in the way.
LEMMA BesideCalls ==
  ASSUME LostIInv, Lossless, LocalIInv', NEW r \in Requests, order[r].op = "move", Contract(r),
         NEW stage, At(r, stage), NEW next \in {"place", "mkdir"}, next \in Early => stage \in Early,
         ~ IsDir(Top(r).to), Policy(r) = "rename", UNCHANGED disk,
         Become(r, [Top(r) EXCEPT !.to = UniqueLocalDest(Top(r).to), !.at = next])
  PROVE  Calls(r)
<1>1. /\ Top(r) \in Frames /\ Top(r).to \in Path /\ TreeOK(disk) /\ Top(r).to # Root
      /\ "place" \in Steps /\ "mkdir" \in Steps
  BY MoveTop DEF IsDir, TypeOf, Steps
<1>2. PICK i \in Nat : UniqueLocalDest(Top(r).to) = Numbered(Top(r).to, i)
  BY <1>1, UniqueIsFree
<1>3. UniqueLocalDest(Top(r).to) \in Path /\ ~ Exists(UniqueLocalDest(Top(r).to))
  BY <1>1, <1>2, UniqueIsFree, NumberedMeans
<1>4. PICK f : f = [Top(r) EXCEPT !.to = UniqueLocalDest(Top(r).to), !.at = next]
  OBVIOUS
<1>5. /\ f \in Frames /\ f.at = next /\ f.from = Top(r).from
      /\ f.to = UniqueLocalDest(Top(r).to)
  BY <1>1, <1>3, <1>4 DEF Frames
<1>6. ~ (f.to \in DOMAIN disk' \cup {Root})
  BY <1>3, <1>5 DEF Exists
<1>7. Knows(r, f)'
  BY <1>5, <1>6 DEF Knows, Exists
<1> QED
  BY <1>4, <1>5, <1>7, BecomeCalls

\* copyFile looks at its destination and goes by the policy.
LEMMA CopyFileOwn ==
  ASSUME LostIInv, Lossless, LocalIInv', NEW r \in Requests, order[r].op = "move", Contract(r),
         CopyFile(r)
  PROVE  Own(r)
<1>1. At(r, "file") /\ UNCHANGED disk /\ "file" \in Early /\ "place" \in Steps \ {"entries"}
  BY DEF CopyFile, Early, Steps
<1>2. /\ Policy(r) # "skip" /\ Top(r) \in Frames /\ StackOK
  BY <1>1, MoveTop
<1>3. Calls(r)
  <2>1. CASE Fail(r)
    BY <1>2, <2>1, FailCalls
  <2>2. CASE Goto(r, "place") /\ (Policy(r) # "replace" => ~ Exists(Top(r).to))
    <3>1. PICK f : f = [Top(r) EXCEPT !.at = "place"]
      OBVIOUS
    <3>2. f.at = "place" /\ f.to = Top(r).to
      BY <1>2, <3>1 DEF Frames
    <3>3. Policy(r)' = Policy(r)
      BY <2>2 DEF Goto, Become, Policy
    <3>4. Knows(r, f)'
      BY <1>1, <2>2, <3>2, <3>3 DEF Knows, Exists
    <3> QED
      BY <1>1, <2>2, <3>1, <3>4, GotoCalls
  <2>3. CASE /\ Policy(r) = "rename" /\ ~ IsDir(Top(r).to)
             /\ Become(r, [Top(r) EXCEPT !.to = UniqueLocalDest(Top(r).to), !.at = "place"])
    BY <1>1, <2>3, BesideCalls
  <2> QED
    BY <1>2, <2>1, <2>2, <2>3 DEF CopyFile
<1> QED
  BY <1>1, <1>3, FilesUnchanged DEF Own

\* What a move between file systems reads is what was there at first.
LEMMA OpenSourceOwn ==
  ASSUME LostIInv, Lossless, LocalIInv', NEW r \in Requests, order[r].op = "move", Contract(r),
         OpenSource(r)
  PROVE  Own(r)
<1>1. At(r, "place") /\ UNCHANGED disk /\ "place" \in Early /\ "create" \in Steps \ {"entries"}
  BY DEF OpenSource, Early, Steps
<1>2. /\ Top(r) \in Frames /\ StackOK /\ TreeOK(disk) /\ Knows(r, Top(r)) /\ Shrinks(r)
      /\ Top(r).at = "place" /\ IsPrefix(order[r].from, Top(r).from) /\ Top(r).from # Root
      /\ Policy(r) = "replace" => Top(r).to = Under(order[r].to, order[r].from, Top(r).from)
  BY <1>1, MoveTop, RunningTop
<1>3. CASE Fail(r)
  BY <1>1, <1>2, <1>3, RefuseOwn
<1>4. CASE /\ Exists(Top(r).from)
           /\ Become(r, [Top(r) EXCEPT !.at = "create", !.data = disk[Top(r).from].data])
  <2>1. PICK f : f = [Top(r) EXCEPT !.at = "create", !.data = disk[Top(r).from].data]
    OBVIOUS
  <2>2. Top(r).from \in DOMAIN disk
    BY <1>2, <1>4 DEF Exists
  <2>3. /\ f \in Frames /\ f.at = "create" /\ f.from = Top(r).from /\ f.to = Top(r).to
        /\ f.data = disk[Top(r).from].data
    BY <1>1, <1>2, <2>1, <2>2 DEF Frames, TreeOK, Node
  <2>4. f.from \in DOMAIN Disk /\ f.data = Disk[f.from].data
    BY <1>2, <2>2, <2>3 DEF Shrinks
  <2>5. Policy(r)' = Policy(r)
    BY <1>4 DEF Become, Policy
  <2>6. Knows(r, f)'
    BY <1>1, <1>2, <2>3, <2>4, <2>5 DEF Knows, Exists
  <2>7. Calls(r)
    BY <1>1, <1>2, <1>4, <2>1, <2>3, <2>6, BecomeCalls
  <2> QED
    BY <1>1, <2>7, FilesUnchanged DEF Own
<1> QED
  BY <1>3, <1>4 DEF OpenSource

\* copyDir looks at its destination and goes by the policy.
LEMMA CopyDirOwn ==
  ASSUME LostIInv, Lossless, LocalIInv', NEW r \in Requests, order[r].op = "move", Contract(r),
         CopyDir(r)
  PROVE  Own(r)
<1>1. At(r, "dir") /\ UNCHANGED disk /\ {"list", "mkdir"} \subseteq Steps \ (Early \cup {"entries"})
  BY DEF CopyDir, Early, Steps
<1>2. /\ Policy(r) # "skip" /\ Top(r) \in Frames /\ StackOK
  BY <1>1, MoveTop
<1>3. CASE Fail(r)
  BY <1>1, <1>2, <1>3, RefuseOwn
<1>4. ASSUME NEW next \in {"list", "mkdir"}, Goto(r, next)
      PROVE  Own(r)
  <2>1. PICK f : f = [Top(r) EXCEPT !.at = next]
    OBVIOUS
  <2>2. f.at = next
    BY <1>2, <2>1 DEF Frames
  <2>3. Knows(r, f)'
    BY <2>2 DEF Knows
  <2>4. Calls(r)
    BY <1>1, <1>4, <2>1, <2>3, GotoCalls
  <2> QED
    BY <1>1, <2>4, FilesUnchanged DEF Own
<1>5. CASE /\ Policy(r) = "rename" /\ ~ IsDir(Top(r).to)
           /\ Become(r, [Top(r) EXCEPT !.to = UniqueLocalDest(Top(r).to), !.at = "mkdir"])
  <2>1. Calls(r)
    BY <1>1, <1>5, BesideCalls
  <2> QED
    BY <1>1, <2>1, FilesUnchanged DEF Own
<1> QED
  BY <1>2, <1>3, <1>4, <1>5 DEF CopyDir

\* The list of a folder leads to all that is below.
LEMMA ReadDirOwn ==
  ASSUME LostIInv, Lossless, LocalIInv', NEW r \in Requests, order[r].op = "move", Contract(r),
         ReadDir(r)
  PROVE  Own(r)
<1>1. At(r, "list") /\ UNCHANGED disk /\ "entries" \in Steps \ Early
  BY DEF ReadDir, Early, Steps
<1>2. /\ Top(r) \in Frames /\ StackOK /\ TreeOK(disk) /\ Top(r).from \in Path
      /\ Policy(r) = "replace" => Top(r).to = Under(order[r].to, order[r].from, Top(r).from)
  BY <1>1, MoveTop
<1>3. CASE Fail(r)
  BY <1>1, <1>2, <1>3, RefuseOwn
<1>4. CASE /\ IsDir(Top(r).from)
           /\ Become(r, [Top(r) EXCEPT !.at = "entries", !.todo = Children(Top(r).from)])
  <2>1. PICK f : f = [Top(r) EXCEPT !.at = "entries", !.todo = Children(Top(r).from)]
    OBVIOUS
  <2>2. /\ f \in Frames /\ f.at = "entries" /\ f.from = Top(r).from /\ f.to = Top(r).to
        /\ f.todo = Children(Top(r).from)
    <3>1. Children(Top(r).from) \in SUBSET Path
      BY <1>2 DEF Children, Below, TreeOK
    <3> QED
      BY <1>1, <1>2, <2>1, <3>1 DEF Frames
  <2>3. ASSUME NEW p \in Claimed \cap DOMAIN disk, IsPrefix(f.from, p)
        PROVE  \E c \in f.todo : IsPrefix(c, p)
    <3>1. p \in Path /\ disk[p].type = "file" /\ p # Root
      BY <1>2 DEF LostIInv, Found, Claimed, TreeOK
    <3>2. p # f.from
      BY <1>4, <2>2, <3>1 DEF IsDir, TypeOf, Exists
    <3>3. PICK c \in Path : IsPrefix(f.from, c) /\ Len(c) = Len(f.from) + 1 /\ IsPrefix(c, p) /\ c # Root
      BY <1>2, <2>2, <2>3, <3>1, <3>2, EntryTowards
    <3>4. c \in DOMAIN disk
      BY <1>2, <3>3 DEF TreeOK, FolderIn
    <3> QED
      BY <2>2, <3>3, <3>4 DEF Children, Below
  <2>4. Knows(r, f)'
    BY <2>2 DEF Knows
  <2>5. Claimed' \subseteq Claimed
    BY <1>4, SameClaims DEF Become, Contract
  <2>6. \A p \in Claimed' \cap DOMAIN disk : IsPrefix(f.from, p) =>
          \E c \in f.todo : IsPrefix(c, p)
    BY <2>3, <2>5
  <2>7. Calls(r)
    BY <1>1, <1>2, <1>4, <2>1, <2>2, <2>4, <2>6, BecomeCalls
  <2> QED
    BY <1>1, <2>7, FilesUnchanged DEF Own
<1> QED
  BY <1>3, <1>4 DEF ReadDir

\* Outside its source and its place a call touches nothing that has landed.
LEMMA NotOnLanded ==
  ASSUME LostIInv, Lossless, NEW r \in Requests, order[r].op = "move", NEW stage, At(r, stage),
         NEW p \in Claimed, NEW q \in DOMAIN disk, LandedAt(r, p, q), IsPrefix(order[r].from, p),
         ~ AtRisk(r, p)
  PROVE  /\ ~ IsPrefix(order[r].from, q) /\ ~ IsPrefix(Top(r).from, q)
         /\ stage \in {"place", "create", "stream"} => q # Top(r).to
<1>1. /\ TreeOK(disk) /\ result[r] = "running" /\ Top(r).at = stage /\ q \in Path /\ p \in Path
      /\ order[r].from \in Path /\ order[r].to \in Path /\ Top(r).from \in Path
      /\ IsPrefix(order[r].from, Top(r).from)
      /\ Knows(r, Top(r)) /\ p \in DOMAIN Disk
      /\ Policy(r) = "replace" => Top(r).to = Under(order[r].to, order[r].from, Top(r).from)
  BY MoveTop, DiskAssumption DEF Claimed, TreeOK
<1>2. ~ IsPrefix(order[r].from, q)
  BY <1>1, MoveTop DEF LandedAt
<1>3. ~ IsPrefix(Top(r).from, q)
  BY <1>1, <1>2, PrefixPrefix
<1>4. ASSUME stage \in {"place", "create"}, q = Top(r).to
      PROVE  FALSE
  <2>1. CASE Policy(r) # "replace"
    BY <1>1, <1>4, <2>1 DEF Knows, Exists
  <2>2. CASE Policy(r) = "replace"
    <3>1. Under(order[r].to, order[r].from, p) = Under(order[r].to, order[r].from, Top(r).from)
      BY <1>1, <1>4, <2>2 DEF LandedAt
    <3>2. p = Top(r).from
      BY <1>1, <3>1, UnderApart
    <3> QED
      BY <1>1, <1>4, <3>2 DEF AtRisk, Early
  <2> QED
    BY <2>1, <2>2
<1>5. ASSUME stage = "stream", q = Top(r).to
      PROVE  FALSE
  <2>1. disk[q].data = Torn
    BY <1>1, <1>5 DEF Knows, Holds
  <2>2. disk[q].data = Disk[p].data
    BY DEF LandedAt, Holds
  <2>3. Disk[p].data # Torn
    BY <1>1, DiskAssumption
  <2> QED
    BY <2>1, <2>2, <2>3
<1> QED
  BY <1>2, <1>3, <1>4, <1>5

\* An entry is passed over that leads to nothing claimed, or becomes the call.
LEMMA EntryOwn ==
  ASSUME LostIInv, Lossless, LocalIInv', NEW r \in Requests, order[r].op = "move", Contract(r),
         Entry(r)
  PROVE  Own(r)
<1>1. At(r, "entries") /\ UNCHANGED disk
  BY DEF Entry
<1>2. /\ Top(r) \in Frames /\ LocalIInv /\ StackOK /\ TreeOK(disk) /\ Top(r).from \in Path
      /\ Top(r).to \in Path /\ Top(r).at = "entries" /\ result[r] = "running"
      /\ order[r].from \in Path /\ order[r].to \in Path /\ WalkOK(r)
      /\ IsPrefix(order[r].from, Top(r).from)
      /\ Policy(r) = "replace" => Top(r).to = Under(order[r].to, order[r].from, Top(r).from)
      /\ \A p \in Claimed \cap DOMAIN disk : IsPrefix(Top(r).from, p) =>
           \E c \in Top(r).todo : IsPrefix(c, p)
      /\ \A c \in Top(r).todo : IsPrefix(Top(r).from, c)
  BY <1>1, MoveTop
<1>3. PICK c, rest, to :
        /\ c \in Top(r).todo
        /\ rest = [Top(r) EXCEPT !.todo = @ \ {c}] /\ to = Under(Top(r).to, Top(r).from, c)
        /\ \/ TypeOf(c) \in {"none", "link"} /\ Become(r, rest)
           \/ Become(r, rest) /\ passed' = [passed EXCEPT ![r] = @ \cup {c}]
           \/ \E stage \in {"dir", "file"} :
                /\ TypeOf(c) = stage
                /\ stack' = [stack EXCEPT ![r] = Append(Append(Front(@), rest), Frame(stage, c, to))]
                /\ UNCHANGED <<order, result>>
  BY DEF Entry
<1>4. /\ rest \in Frames /\ rest.at = "entries" /\ rest.from = Top(r).from /\ rest.to = Top(r).to
      /\ rest.todo = Top(r).todo \ {c} /\ c \in Path
  BY <1>2, <1>3 DEF Frames
\* What the list still leads to, but for what lies at or below c.
<1>5. ASSUME NEW p \in Claimed \cap DOMAIN disk, IsPrefix(Top(r).from, p), ~ IsPrefix(c, p)
      PROVE  \E x \in rest.todo : IsPrefix(x, p)
  BY <1>2, <1>4, <1>5
\* An entry that is passed over leads to nothing claimed.
<1>6. ASSUME Become(r, rest), \A p \in Claimed' \cap DOMAIN disk : ~ IsPrefix(c, p)
      PROVE  Own(r)
  <2>1. Knows(r, rest)'
    BY <1>4 DEF Knows
  <2>2. Claimed' \subseteq Claimed
    BY <1>6, SameClaims DEF Become, Contract
  <2>3. \A p \in Claimed' \cap DOMAIN disk : IsPrefix(rest.from, p) =>
          \E x \in rest.todo : IsPrefix(x, p)
    BY <1>4, <1>5, <1>6, <2>2
  <2>4. Calls(r)
    BY <1>1, <1>2, <1>4, <1>6, <2>1, <2>3, BecomeCalls DEF Early
  <2> QED
    BY <1>1, <2>4, FilesUnchanged DEF Own
<1>7. CASE TypeOf(c) \in {"none", "link"} /\ Become(r, rest)
  <2>1. ASSUME NEW p \in Claimed \cap DOMAIN disk
        PROVE  ~ IsPrefix(c, p)
    <3> SUFFICES ASSUME IsPrefix(c, p)
                 PROVE  FALSE
      OBVIOUS
    <3>1. p \in Path /\ disk[p].type = "file" /\ p # Root
      BY <1>2 DEF LostIInv, Found, Claimed, TreeOK
    <3>2. CASE c = p
      BY <1>7, <3>1, <3>2 DEF TypeOf, Exists
    <3>3. CASE c # p
      <4>1. FolderIn(disk, c)
        BY <1>2, <1>4, <3>3 DEF TreeOK
      <4> QED
        BY <1>7, <4>1 DEF FolderIn, TypeOf, Exists
    <3> QED
      BY <3>2, <3>3
  <2>2. Claimed' \subseteq Claimed
    BY <1>7, SameClaims DEF Become, Contract
  <2> QED
    BY <1>6, <1>7, <2>1, <2>2
<1>8. CASE Become(r, rest) /\ passed' = [passed EXCEPT ![r] = @ \cup {c}]
  <2>1. c \in passed'[r] /\ order' = order
    BY <1>2, <1>8 DEF LocalIInv, PassedOK, Become
  <2>2. \A p \in Claimed' : ~ IsPrefix(c, p)
    BY <2>1 DEF Claimed, LeftBehind, PassedOver, Moving
  <2> QED
    BY <1>6, <1>8, <2>2
<1>9. ASSUME NEW stage \in {"dir", "file"}, TypeOf(c) = stage,
             stack' = [stack EXCEPT ![r] = Append(Append(Front(@), rest), Frame(stage, c, to))],
             UNCHANGED <<order, result>>
      PROVE  Own(r)
  <2>1. to \in Path
    BY <1>1, <1>2, <1>3, EntryPlace
  <2>2. PICK f : f = Frame(stage, c, to)
    OBVIOUS
  <2>3. f \in Frames /\ f.at = stage /\ f.from = c /\ f.to = to
    BY <1>4, <2>1, <2>2, FrameTyped DEF Steps
  <2>4. PICK s : s = stack[r] /\ s \in Seq(Frames) /\ s # <<>>
    BY <1>2 DEF StackOK
  <2>5. PICK t : t = Append(Front(s), rest)
    OBVIOUS
  <2>6. /\ t \in Seq(Frames) /\ Len(s) \in Nat \ {0} /\ Len(t) = Len(s) /\ t[Len(s)] = rest
        /\ \A i \in 1 .. Len(s) - 1 : t[i] = s[i]
    BY <1>4, <2>4, <2>5, StackPlaces, StackMeans
  <2>7. PICK u : u = Append(t, f)
    OBVIOUS
  <2>8. /\ u \in Seq(Frames) /\ Len(u) = Len(s) + 1 /\ u[Len(s) + 1] = f
        /\ \A i \in 1 .. Len(s) : u[i] = t[i]
    BY <2>3, <2>6, <2>7, AppendProperties
  <2>9. /\ stack'[r] = u /\ result'[r] = "running" /\ Top(r)' = f /\ Claimed' \subseteq Claimed
        /\ Policy(r)' = Policy(r)
    <3>1. stack'[r] = u /\ result'[r] = "running"
      BY <1>2, <1>9, <2>2, <2>4, <2>5, <2>7 DEF StackOK
    <3>2. Top(r)' = f
      BY <2>6, <2>8, <3>1 DEF Top, Last
    <3> QED
      BY <1>9, <3>1, <3>2, SameClaims DEF Policy, Contract
  <2>10. WalkAt(r, u, Len(s) + 1)'
    <3>1. ASSUME Policy(r) = "replace"
          PROVE  f.to = Under(order[r].to, order[r].from, f.from)
      <4>1. IsPrefix(Top(r).from, c)
        BY <1>2, <1>3
      <4>2. Under(Under(order[r].to, order[r].from, Top(r).from), Top(r).from, c)
              = Under(order[r].to, order[r].from, c)
        BY <1>2, <1>4, <4>1, UnderUnder
      <4> QED
        BY <1>2, <1>3, <2>3, <3>1, <4>2
    <3> QED
      BY <1>9, <2>3, <2>6, <2>8, <2>9, <3>1 DEF WalkAt
  <2>11. ASSUME NEW i \in 1 .. Len(s)
         PROVE  WalkAt(r, u, i)'
    <3>1. WalkAt(r, s, i) /\ u[i] = t[i]
      BY <1>2, <2>4, <2>8, <2>11 DEF WalkOK
    <3>2. CASE i = Len(s)
      <4>1. u[i] = rest /\ u[i + 1] = f
        BY <2>6, <2>8, <3>1, <3>2
      <4>2. \A p \in Claimed \cap DOMAIN disk : IsPrefix(rest.from, p) =>
              (\E x \in rest.todo : IsPrefix(x, p)) \/ IsPrefix(f.from, p)
        BY <1>4, <1>5, <2>3
      <4>3. i < Len(u)
        BY <2>6, <2>8, <3>2
      <4> QED
        BY <1>1, <1>2, <1>4, <1>9, <2>9, <4>1, <4>2, <4>3 DEF WalkAt
    <3>3. CASE i # Len(s)
      <4>1. /\ i \in 1 .. Len(s) - 1 /\ i < Len(s) /\ i < Len(u) /\ i + 1 \in 1 .. Len(s)
        BY <2>6, <2>8, <3>3
      <4>2. u[i] = s[i] /\ u[i + 1].from = s[i + 1].from
        <5>1. CASE i + 1 = Len(s)
          <6>1. s[i + 1] = Top(r)
            BY <2>4, <5>1 DEF Top, Last
          <6>2. u[i + 1] = rest
            BY <2>6, <2>8, <4>1, <5>1
          <6> QED
            BY <1>4, <2>6, <3>1, <4>1, <6>1, <6>2
        <5>2. CASE i + 1 # Len(s)
          <6>1. i + 1 \in 1 .. Len(s) - 1
            BY <2>6, <4>1, <5>2
          <6> QED
            BY <2>6, <2>8, <4>1, <6>1
        <5> QED
          BY <5>1, <5>2
      <4> QED
        BY <1>1, <1>9, <2>9, <3>1, <4>1, <4>2 DEF WalkAt
    <3> QED
      BY <3>2, <3>3
  <2>12. WalkOK(r)'
    <3>1. \A i \in 1 .. Len(u) : i \in 1 .. Len(s) \/ i = Len(s) + 1
      BY <2>6, <2>8
    <3> QED
      BY <2>9, <2>10, <2>11, <3>1 DEF WalkOK
  <2>13. Knows(r, Top(r))'
    BY <2>3, <2>9 DEF Knows
  <2>14. ASSUME NEW p, p \notin DOMAIN disk
         PROVE  ~ AtRisk(r, p)'
    <3> SUFFICES ASSUME AtRisk(r, p)'
                 PROVE  FALSE
      OBVIOUS
    <3>1. p = c /\ stage = "file"
      BY <2>3, <2>9 DEF AtRisk, Early
    <3> QED
      BY <1>9, <2>14, <3>1 DEF TypeOf, Exists
  <2> QED
    BY <1>1, <2>12, <2>13, <2>14, FilesUnchanged DEF Own, Calls
<1> QED
  BY <1>3, <1>7, <1>8, <1>9

\* A new folder is no file that was there.
LEMMA MakeDirOwn ==
  ASSUME LostIInv, Lossless, LocalIInv', NEW r \in Requests, order[r].op = "move", Contract(r),
         MakeDir(r)
  PROVE  Own(r)
<1>1. At(r, "mkdir") /\ "list" \in Steps \ (Early \cup {"entries"})
  BY DEF MakeDir, Early, Steps
<1>2. /\ Top(r) \in Frames /\ StackOK
  BY <1>1, MoveTop
<1>3. CASE Refuse(r)
  BY <1>2, <1>3, RefuseOwn DEF Refuse
<1>4. CASE CanMkdir(Top(r).to) /\ Put(Top(r).to, Folder) /\ Goto(r, "list")
  <2>1. PICK f : f = [Top(r) EXCEPT !.at = "list"]
    OBVIOUS
  <2>2. f.at = "list"
    BY <1>2, <2>1 DEF Frames
  <2>3. Knows(r, f)'
    BY <2>2 DEF Knows
  <2>4. Calls(r)
    BY <1>1, <1>4, <2>1, <2>3, GotoCalls
  <2>5. \A q \in DOMAIN disk : q \in DOMAIN disk' /\ disk'[q] = disk[q]
    BY <1>4 DEF CanMkdir, Exists, Put
  <2> QED
    BY <2>4, <2>5 DEF Own, Files
<1> QED
  BY <1>3, <1>4 DEF MakeDir

\* A folder is removed when none of its entries is left to move.
LEMMA EndDirOwn ==
  ASSUME LostIInv, Lossless, LocalIInv', NEW r \in Requests, order[r].op = "move", Contract(r),
         EndDir(r)
  PROVE  Own(r)
<1>1. At(r, "entries") /\ Top(r).todo = {} /\ Moving(r)
  BY DEF EndDir, Moving
<1>2. /\ StackOK /\ TreeOK(disk) /\ Top(r).from \in Path
      /\ \A p \in Claimed \cap DOMAIN disk : IsPrefix(Top(r).from, p) =>
           \E c \in Top(r).todo : IsPrefix(c, p)
  BY <1>1, MoveTop
<1>3. CASE Refuse(r)
  BY <1>2, <1>3, RefuseOwn DEF Refuse
<1>4. CASE Delete(Below(Top(r).from)) /\ Return(r)
  <2>1. /\ DOMAIN disk' = DOMAIN disk \ Below(Top(r).from)
        /\ \A q \in DOMAIN disk' : disk'[q] = disk[q]
    BY <1>4 DEF Delete
  <2>2. \A p \in Claimed \cap DOMAIN disk : ~ IsPrefix(Top(r).from, p)
    BY <1>1, <1>2
  <2>3. Calls(r)
    BY <1>1, <1>4, <2>1, <2>2, ReturnCalls
  <2>4. \A p \in Claimed \cap DOMAIN disk : p \in DOMAIN disk'
    BY <2>1, <2>2 DEF Below
  <2>5. ASSUME NEW p \in Claimed \ DOMAIN disk, NEW q \in DOMAIN disk,
               LandedAt(r, p, q), IsPrefix(order[r].from, p), ~ AtRisk(r, p)
        PROVE  q \in DOMAIN disk' /\ disk'[q] = disk[q]
    <3>1. ~ IsPrefix(Top(r).from, q)
      BY <1>1, <2>5, NotOnLanded
    <3> QED
      BY <2>1, <3>1 DEF Below
  <2> QED
    BY <2>3, <2>4, <2>5 DEF Own, Files
<1> QED
  BY <1>1, <1>3, <1>4 DEF EndDir

\* A rename has the file at its place.
LEMMA MoveFileOwn ==
  ASSUME LostIInv, Lossless, LocalIInv', NEW r \in Requests, order[r].op = "move", Contract(r),
         MoveFile(r)
  PROVE  Own(r)
<1> DEFINE f == Top(r)
<1>1. At(r, "place")
  BY DEF MoveFile
<1>2. /\ StackOK /\ TreeOK(disk) /\ f.from \in Path /\ f.to \in Path
      /\ order[r].from \in Path /\ order[r].to \in Path
      /\ IsPrefix(order[r].from, f.from) /\ Stands(order[r].to, f.to)
      /\ Policy(r) = "replace" => f.to = Under(order[r].to, order[r].from, f.from)
  BY <1>1, MoveTop
<1>3. CASE Refuse(r)
  BY <1>2, <1>3, RefuseOwn DEF Refuse
<1>4. CASE CanRename(f.from, f.to) /\ Relocate(f.from, f.to) /\ Return(r)
  <2>1. \A q \in Below(f.from) : /\ q \in Path /\ IsPrefix(f.from, q) /\ q \in DOMAIN disk
                                 /\ Under(f.to, f.from, q) \in Path
                                 /\ Stands(order[r].to, Under(f.to, f.from, q))
    <3> TAKE q \in Below(f.from)
    <3>1. q \in Path /\ IsPrefix(f.from, q) /\ q \in DOMAIN disk
      BY <1>2 DEF Below, TreeOK
    <3>2. PICK u : u = Under(f.to, f.from, q) /\ Lies(u, f.to, q, f.from)
      BY <1>2, <3>1, UnderMeans
    <3>3. u \in Path /\ IsPrefix(f.to, u)
      BY <3>2 DEF Lies
    <3>4. Stands(order[r].to, u)
      BY <1>2, <3>3, StandsBelow
    <3> QED
      BY <3>1, <3>2, <3>3, <3>4
  <2>2. ASSUME NEW p \in DOMAIN disk', IsPrefix(f.from, p)
        PROVE  FALSE
    <3>1. p \in Path /\ IsPrefix(order[r].from, p)
      BY <1>2, <2>2, PrefixPrefix DEF LocalIInv, DiskOK, TreeOK
    <3>2. PICK q \in Below(f.from) : p = Under(f.to, f.from, q)
      BY <1>2, <1>4, <2>2, RelocateMeans
    <3>3. Stands(order[r].to, p)
      BY <2>1, <3>2
    <3> QED
      BY <1>1, <3>1, <3>3, MoveTop
  <2>3. Calls(r) /\ \A p : ~ AtRisk(r, p)'
    BY <1>1, <1>4, <2>2, ReturnCalls
  <2>4. ASSUME NEW p \in Claimed \cap DOMAIN disk, p \notin DOMAIN disk'
        PROVE  Landed(r, p)'
    <3>1. p \in Below(f.from)
      <4>1. p \in Path /\ (IsPrefix(f.from, p) \/ p = f.to)
        BY <1>2, <1>4, <2>4, RelocateSpares DEF TreeOK
      <4>2. p # f.to
        <5>1. f.from \in Below(f.from)
          <6>1. Exists(f.from) /\ f.from # Root
            BY <1>1, <1>4, RunningTop DEF LostIInv, CanRename
          <6> QED
            BY <1>2, <6>1, PrefixItself DEF Exists, Below
        <5>2. Under(f.to, f.from, f.from) = f.to
          BY <1>2, UnderSelf
        <5>3. f.to \in DOMAIN disk'
          BY <1>2, <1>4, <5>1, <5>2, RelocateMeans
        <5> QED
          BY <2>4, <5>3
      <4> QED
        BY <4>1, <4>2 DEF Below
    <3>2. PICK q : q = Under(f.to, f.from, p)
      OBVIOUS
    <3>3. q \in DOMAIN disk' /\ disk'[q] = disk[p]
      BY <1>2, <1>4, <3>1, <3>2, RelocateMeans
    <3>4. disk[p] = Disk[p] /\ Disk[p].type = "file" /\ p \in Path /\ IsPrefix(order[r].from, p)
      <4>1. p \in Path /\ IsPrefix(f.from, p)
        BY <2>1, <3>1
      <4> QED
        BY <1>2, <2>4, <4>1, PrefixPrefix DEF LostIInv, Found, Claimed
    <3>5. Stands(order[r].to, q)
      BY <2>1, <3>1, <3>2
    <3>6. Policy(r) = "replace" => q = Under(order[r].to, order[r].from, p)
      BY <1>2, <2>1, <3>1, <3>2, UnderUnder
    <3>7. order' = order
      BY <1>4 DEF Return
    <3>8. LandedAt(r, p, q)'
      BY <3>3, <3>4, <3>5, <3>6, <3>7 DEF LandedAt, Holds, Policy
    <3> QED
      BY <2>3, <3>3, <3>4, <3>7, <3>8 DEF Landed
  <2>5. ASSUME NEW p \in Claimed \ DOMAIN disk, NEW q \in DOMAIN disk,
               LandedAt(r, p, q), IsPrefix(order[r].from, p), ~ AtRisk(r, p)
        PROVE  q \in DOMAIN disk' /\ disk'[q] = disk[q]
    <3>1. ~ IsPrefix(f.from, q) /\ q # f.to
      BY <1>1, <2>5, NotOnLanded
    <3> QED
      BY <1>2, <1>4, <3>1, RelocateSpares
  <2> QED
    BY <2>3, <2>4, <2>5 DEF Own, Files
<1> QED
  BY <1>3, <1>4 DEF MoveFile

\* Writing puts what is written where it is written.
LEMMA WriteToMeans ==
  ASSUME NEW p, NEW data, WriteTo(p, data)
  PROVE  /\ p \in DOMAIN disk' /\ disk'[p].type # "dir" /\ disk'[p].data = data
         /\ \A q \in DOMAIN disk : q \in DOMAIN disk' /\ (q # p => disk'[q] = disk[q])
BY DEF WriteTo, Put, Link, File

\* os.Create empties nothing that has landed.
LEMMA CreateOwn ==
  ASSUME LostIInv, Lossless, LocalIInv', NEW r \in Requests, order[r].op = "move", Contract(r),
         Create(r)
  PROVE  Own(r)
<1>1. At(r, "create") /\ {"create", "stream"} \subseteq Early /\ "stream" \in Steps \ {"entries"}
  BY DEF Create, Early, Steps
<1>2. /\ Top(r) \in Frames /\ StackOK /\ Knows(r, Top(r)) /\ Top(r).at = "create"
  BY <1>1, MoveTop
<1>3. CASE Refuse(r)
  BY <1>2, <1>3, RefuseOwn DEF Refuse
<1>4. CASE WriteTo(Top(r).to, Torn) /\ Goto(r, "stream")
  <2>1. PICK f : f = [Top(r) EXCEPT !.at = "stream"]
    OBVIOUS
  <2>2. f.at = "stream" /\ f.to = Top(r).to /\ f.from = Top(r).from /\ f.data = Top(r).data
    BY <1>2, <2>1 DEF Frames
  <2>3. Knows(r, f)'
    BY <1>2, <1>4, <2>2, WriteToMeans DEF Knows, Holds
  <2>4. Calls(r)
    BY <1>1, <1>4, <2>1, <2>3, GotoCalls
  <2>5. \A p \in Claimed \cap DOMAIN disk : p \in DOMAIN disk'
    BY <1>4, WriteToMeans
  <2>6. ASSUME NEW p \in Claimed \ DOMAIN disk, NEW q \in DOMAIN disk,
               LandedAt(r, p, q), IsPrefix(order[r].from, p), ~ AtRisk(r, p)
        PROVE  q \in DOMAIN disk' /\ disk'[q] = disk[q]
    <3>1. q # Top(r).to
      BY <1>1, <2>6, NotOnLanded
    <3> QED
      BY <1>4, <3>1, WriteToMeans
  <2> QED
    BY <2>4, <2>5, <2>6 DEF Own, Files
<1> QED
  BY <1>3, <1>4 DEF Create

\* The source is removed only when the copy is whole.
LEMMA StreamOwn ==
  ASSUME LostIInv, Lossless, LocalIInv', NEW r \in Requests, order[r].op = "move", Contract(r),
         Stream(r)
  PROVE  Own(r)
<1>1. At(r, "stream") /\ "unlink" \in Steps \ (Early \cup {"entries"})
  BY DEF Stream, Early, Steps
<1>2. /\ Top(r) \in Frames /\ StackOK /\ TreeOK(disk) /\ Knows(r, Top(r)) /\ Top(r).at = "stream"
      /\ Holds(Top(r).to, Torn) /\ Moving(r)
  BY <1>1, MoveTop DEF Knows, Moving
<1>3. ASSUME NEW p \in Claimed \ DOMAIN disk, NEW q \in DOMAIN disk,
             LandedAt(r, p, q), IsPrefix(order[r].from, p), ~ AtRisk(r, p)
      PROVE  q # Top(r).to
  BY <1>1, <1>3, NotOnLanded
<1>4. CASE Filled(r)
  <2>1. TypeOf(Top(r).to) \in {"file", "link"}
    <3>1. Top(r).to \in DOMAIN disk /\ disk[Top(r).to].type \in {"file", "link"} /\ Top(r).to # Root
      BY <1>2 DEF Holds, TreeOK, Node
    <3> QED
      BY <3>1 DEF TypeOf, Exists
  <2>2. WriteTo(Top(r).to, Top(r).data) /\ Goto(r, "unlink")
    BY <1>2, <1>4, <2>1 DEF Filled
  <2>3. PICK f : f = [Top(r) EXCEPT !.at = "unlink"]
    OBVIOUS
  <2>4. f.at = "unlink" /\ f.to = Top(r).to /\ f.from = Top(r).from /\ f.data = Top(r).data
    BY <1>2, <2>3 DEF Frames
  <2>5. Knows(r, f)'
    BY <1>2, <2>2, <2>4, WriteToMeans DEF Knows, Holds
  <2>6. Calls(r)
    BY <1>1, <2>2, <2>3, <2>5, GotoCalls
  <2>7. \A p \in Claimed \cap DOMAIN disk : p \in DOMAIN disk'
    BY <2>2, WriteToMeans
  <2> QED
    BY <1>3, <2>2, <2>6, <2>7, WriteToMeans DEF Own, Files
<1>5. CASE (IF CanRemove(Top(r).to) THEN Delete({Top(r).to}) ELSE UNCHANGED disk) /\ Fail(r)
  <2>1. Calls(r)
    BY <1>2, <1>5, FailCalls
  <2>2. CASE Delete({Top(r).to})
    <3>1. \A q \in DOMAIN disk : q # Top(r).to => q \in DOMAIN disk' /\ disk'[q] = disk[q]
      BY <2>2 DEF Delete
    <3>2. ASSUME NEW p \in Claimed \cap DOMAIN disk
          PROVE  p # Top(r).to
      <4>1. disk[p] = Disk[p] /\ p \in DOMAIN Disk
        BY <3>2 DEF LostIInv, Found, Claimed
      <4>2. Disk[p].data # Torn
        BY <4>1, DiskAssumption
      <4> QED
        BY <1>2, <4>1, <4>2 DEF Holds
    <3> QED
      BY <1>3, <2>1, <3>1, <3>2 DEF Own, Files
  <2>3. CASE UNCHANGED disk
    BY <2>1, <2>3, FilesUnchanged DEF Own
  <2> QED
    BY <1>5, <2>2, <2>3
<1> QED
  BY <1>4, <1>5 DEF Stream

\* What a move between file systems removes has landed.
LEMMA UnlinkOwn ==
  ASSUME LostIInv, Lossless, LocalIInv', NEW r \in Requests, order[r].op = "move", Contract(r),
         Unlink(r)
  PROVE  Own(r)
<1> DEFINE f == Top(r)
<1>1. At(r, "unlink")
  BY DEF Unlink
<1>2. /\ StackOK /\ TreeOK(disk) /\ f.from \in Path /\ f.to \in Path /\ f.at = "unlink"
      /\ IsPrefix(order[r].from, f.from) /\ Stands(order[r].to, f.to) /\ Knows(r, f)
      /\ Policy(r) = "replace" => f.to = Under(order[r].to, order[r].from, f.from)
  BY <1>1, MoveTop
<1>3. CASE Refuse(r)
  BY <1>2, <1>3, RefuseOwn DEF Refuse
<1>4. CASE CanRemove(f.from) /\ Delete({f.from}) /\ Return(r)
  <2>1. /\ DOMAIN disk' = DOMAIN disk \ {f.from}
        /\ \A q \in DOMAIN disk' : disk'[q] = disk[q]
    BY <1>4 DEF Delete
  <2>2. \A q \in DOMAIN disk : IsPrefix(f.from, q) => q = f.from
    BY <1>2, <1>4, EntryBelow DEF CanRemove
  <2>3. Calls(r) /\ \A p : ~ AtRisk(r, p)'
    BY <1>1, <1>4, <2>1, <2>2, ReturnCalls
  <2>4. ASSUME NEW p \in Claimed \cap DOMAIN disk, p \notin DOMAIN disk'
        PROVE  Landed(r, p)'
    <3>1. p = f.from /\ IsPrefix(order[r].from, p)
      BY <1>2, <2>1, <2>4
    <3>2. f.to # p
      BY <1>1, <1>2, <3>1, MoveTop
    <3>3. Holds(f.to, Disk[p].data)
      BY <1>2, <3>1 DEF Knows
    <3>4. f.to \in DOMAIN disk' /\ disk'[f.to] = disk[f.to]
      BY <2>1, <3>1, <3>2, <3>3 DEF Holds
    <3>5. order' = order
      BY <1>4 DEF Return
    <3>6. PICK q : q = f.to
      OBVIOUS
    <3>7. LandedAt(r, p, q)'
      BY <1>2, <3>1, <3>3, <3>4, <3>5, <3>6 DEF LandedAt, Holds, Policy
    <3> QED
      BY <2>3, <3>1, <3>4, <3>5, <3>6, <3>7 DEF Landed
  <2>5. ASSUME NEW p \in Claimed \ DOMAIN disk, NEW q \in DOMAIN disk,
               LandedAt(r, p, q), IsPrefix(order[r].from, p), ~ AtRisk(r, p)
        PROVE  q \in DOMAIN disk' /\ disk'[q] = disk[q]
    <3>1. ~ IsPrefix(f.from, q)
      BY <1>1, <2>5, NotOnLanded
    <3>2. q # f.from
      BY <1>2, <3>1, PrefixItself
    <3> QED
      BY <2>1, <3>2
  <2> QED
    BY <2>3, <2>4, <2>5 DEF Own, Files
<1> QED
  BY <1>3, <1>4 DEF Unlink

\* A step of a move.
LEMMA MoveActs ==
  ASSUME LostIInv, Lossless, LocalIInv', NEW r \in Requests, order[r].op = "move", Acts(r)
  PROVE  Own(r)
<1>1. Contract(r)
  BY ActsContract DEF LostIInv
<1>2. \A ops : order[r].op \notin ops => ~ Begins(r, ops)
  BY DEF Begins
<1>3. ~ Write(r) /\ ~ Simple(r)
  BY <1>2 DEF Write, Simple
<1> QED
  BY <1>1, <1>3, CopyOwn, CopyFileOwn, MoveFileOwn, OpenSourceOwn, CreateOwn, StreamOwn, UnlinkOwn,
     CopyDirOwn, MakeDirOwn, ReadDirOwn, EntryOwn, EndDirOwn
  DEF Acts

\* Only a request that has not begun renames.
LEMMA RenameActs ==
  ASSUME LocalIInv, NEW r \in Requests, order[r].op = "rename", Acts(r)
  PROVE  Simple(r) /\ result[r] = "waiting"
<1>1. \A stage : ~ At(r, stage)
  <2> SUFFICES ASSUME NEW stage, At(r, stage)
               PROVE  FALSE
    OBVIOUS
  <2> QED
    BY RunningTop
<1>2. Simple(r)
  BY <1>1 DEF Acts, Copy, Write, Begins, CopyFile, MoveFile, OpenSource, Create, Stream, Unlink,
              CopyDir, MakeDir, ReadDir, Entry, EndDir
<1> QED
  BY <1>2 DEF Simple, Begins

\* What a rename takes away is at its new place.
LEMMA RenameLands ==
  ASSUME LostIInv, NEW r \in Requests, order[r].op = "rename", Acts(r),
         NEW p \in Claimed, p \in DOMAIN disk, p \notin DOMAIN disk'
  PROVE  Landed(r, p)'
<1> DEFINE o == order[r]
<1>1. /\ LocalIInv /\ StackOK /\ TreeOK(disk) /\ o.from \in Path /\ o.to \in Path
      /\ Simple(r) /\ result[r] = "waiting"
  BY RenameActs, OrderTyped DEF LostIInv, LocalIInv, DiskOK, Orders
<1>2. CanRename(o.from, o.to) /\ Relocate(o.from, o.to) /\ Done(r)
  BY <1>1 DEF Simple, Refuse
<1>3. /\ p \in Path /\ disk[p] = Disk[p] /\ Disk[p].type = "file" /\ p \in DOMAIN Disk
      /\ ~ IsPrefix(o.to, p)
  BY <1>1 DEF LostIInv, Found, Claimed, GivenUp, TreeOK
<1>4. IsPrefix(o.from, p)
  <2>1. p # o.to
    BY <1>1, <1>3, PrefixItself
  <2> QED
    BY <1>1, <1>2, <2>1, RelocateSpares
<1>5. PICK u : u = Under(o.to, o.from, p) /\ Lies(u, o.to, p, o.from)
  BY <1>1, <1>3, <1>4, UnderMeans
<1>6. u \in DOMAIN disk' /\ disk'[u] = disk[p]
  <2>1. p \in Below(o.from)
    BY <1>4 DEF Below
  <2> QED
    BY <1>1, <1>2, <1>5, <2>1, RelocateMeans
<1>7. Stands(o.to, u)
  BY <1>1, <1>5, StandsItself, StandsBelow DEF Lies
<1>8. order' = order /\ result'[r] = "ok"
  BY <1>1, <1>2 DEF Done, StackOK
<1>9. LandedAt(r, p, u)'
  BY <1>3, <1>6, <1>7, <1>8 DEF LandedAt, Holds
<1>10. ~ AtRisk(r, p)'
  BY <1>8 DEF AtRisk
<1> QED
  BY <1>4, <1>6, <1>8, <1>9, <1>10 DEF Landed

\* A step of a request.
LEMMA LostActs ==
  ASSUME LostIInv, Lossless, NEW r \in Requests, Acts(r)
  PROVE  LostIInv'
<1>1. /\ LocalIInv /\ LocalIInv' /\ Turn(r) /\ Contract(r) /\ order' = order /\ Claimed' \subseteq Claimed
  <2>1. LocalIInv /\ LocalIInv'
    BY LocalStep DEF LostIInv, LocalNext, Acts
  <2>2. Turn(r) /\ Contract(r)
    BY <2>1, ActsTurn, ActsContract DEF LocalIInv
  <2> QED
    BY <2>1, <2>2, SameClaims DEF Turn, Contract
<1>2. ASSUME NEW o \in Requests, order[o].op = "move"
      PROVE  MoveOK(o)'
  <2>1. CASE o # r
    BY <1>1, <1>2, <2>1, OthersStay
  <2>2. CASE o = r
    <3>1. Own(r) /\ Shrinks(r)
      BY <1>1, <1>2, <2>2, MoveActs DEF LostIInv, MoveOK
    <3>2. Shrinks(r)'
      BY <1>1, <1>2, <2>2, <3>1, SourceShrinks DEF Shrinks
    <3> QED
      BY <2>2, <3>1, <3>2 DEF Own, Calls, MoveOK
  <2> QED
    BY <2>1, <2>2
<1>3. ASSUME NEW p \in Claimed
      PROVE  Found(p)'
  <2>1. p \in DOMAIN disk' => disk'[p] = Disk[p]
    BY <1>1, ClaimStays
  <2>2. ASSUME p \notin DOMAIN disk'
        PROVE  \E o \in Requests : Landed(o, p)'
    <3>1. CASE p \in DOMAIN disk
      <4>1. order[r].op \in {"move", "rename"}
        BY <1>1, <2>2, <3>1, ClaimStays
      <4>2. CASE order[r].op = "move"
        <5>1. Files(r)
          BY <1>1, <4>2, MoveActs DEF Own
        <5> QED
          BY <2>2, <3>1, <5>1 DEF Files
      <4>3. CASE order[r].op = "rename"
        BY <2>2, <3>1, <4>3, RenameLands
      <4> QED
        BY <4>1, <4>2, <4>3
    <3>2. CASE p \notin DOMAIN disk
      <4>1. PICK o \in Requests : Landed(o, p)
        BY <3>2 DEF LostIInv, Found
      <4>2. CASE o # r
        BY <1>1, <4>1, <4>2, OthersStay
      <4>3. CASE o = r
        <5>1. order[r].op = "move"
          BY <1>1, <4>1, <4>3, RenameActs DEF Landed
        <5>2. Calls(r) /\ Files(r)
          BY <1>1, <5>1, MoveActs DEF Own
        <5>3. PICK q \in DOMAIN disk : LandedAt(r, p, q)
          BY <4>1, <4>3 DEF Landed
        <5>4. ~ AtRisk(r, p) /\ IsPrefix(order[r].from, p)
          BY <4>1, <4>3 DEF Landed
        <5>5. q \in DOMAIN disk' /\ disk'[q] = disk[q]
          BY <3>2, <5>2, <5>3, <5>4 DEF Files
        <5>6. LandedAt(r, p, q)'
          BY <1>1, <5>3, <5>5 DEF LandedAt, Holds, Policy
        <5>7. ~ AtRisk(r, p)'
          BY <3>2, <5>2, <5>4 DEF Calls
        <5> QED
          BY <1>1, <5>1, <5>4, <5>5, <5>6, <5>7 DEF Landed
      <4> QED
        BY <4>2, <4>3
    <3> QED
      BY <3>1, <3>2
  <2> QED
    BY <2>1, <2>2 DEF Found
<1> QED
  BY <1>1, <1>2, <1>3 DEF LostIInv

\* What the process leaves when it ends: no call goes on.
LEMMA LostDies ==
  ASSUME LostIInv, Die, UNCHANGED passed
  PROVE  LostIInv'
<1>1. /\ LocalIInv' /\ order' = order /\ disk' = disk /\ Claimed' \subseteq Claimed
  BY LocalStep, SameClaims DEF Die, LostIInv, LocalNext, Grows
<1>2. \A r \in Requests : stack'[r] = <<>> /\ result'[r] \in {"ok", "error", "died"}
  BY DEF Die
<1>3. ASSUME NEW p \in Claimed, NEW r \in Requests, Landed(r, p)
      PROVE  Landed(r, p)'
  <2>1. ~ AtRisk(r, p)' /\ result'[r] # "waiting"
    BY <1>2 DEF AtRisk
  <2>2. \A q \in DOMAIN disk : LandedAt(r, p, q) => LandedAt(r, p, q)'
    BY <1>1 DEF LandedAt, Holds, Policy
  <2> QED
    BY <1>1, <1>3, <2>1, <2>2 DEF Landed
<1>4. \A p \in Claimed : Found(p)'
  BY <1>1, <1>3 DEF LostIInv, Found
<1>5. ASSUME NEW r \in Requests, order[r].op = "move"
      PROVE  MoveOK(r)'
  <2>1. WalkOK(r)'
    BY <1>2, EmptySeq DEF WalkOK
  <2>2. Shrinks(r)'
    BY <1>1, <1>5 DEF LostIInv, MoveOK, Shrinks
  <2> QED
    BY <1>2, <2>1, <2>2 DEF MoveOK
<1> QED
  BY <1>1, <1>4, <1>5 DEF LostIInv

\* Everything is where it was at first.
LEMMA LostInitially == LocalInit => LostIInv
<1> SUFFICES ASSUME LocalInit
             PROVE  LostIInv
  OBVIOUS
<1>1. LocalIInv
  BY LocalInitially
<1>2. disk = Disk /\ \A r \in Requests : stack[r] = <<>> /\ result[r] = "waiting"
  BY DEF LocalInit
<1>3. \A p \in Claimed : Found(p)
  BY <1>2 DEF Found, Claimed
<1>4. \A r \in Requests : MoveOK(r)
  BY <1>2, EmptySeq DEF MoveOK, WalkOK, Shrinks
<1> QED
  BY <1>1, <1>3, <1>4 DEF LostIInv

\* Every step keeps the invariant, the end of the process among them.
LEMMA LostStep == LosslessWishes /\ LostIInv /\ [LocalNext]_localVars => LostIInv'
<1> SUFFICES ASSUME LosslessWishes, LostIInv, [LocalNext]_localVars
             PROVE  LostIInv'
  OBVIOUS
<1>1. Lossless
  BY NowLossless DEF LostIInv, LocalIInv
<1>2. CASE LocalNext
  BY <1>1, <1>2, LostActs, LostDies DEF LocalNext, Acts
<1>3. CASE UNCHANGED localVars
  <2>1. UNCHANGED <<disk, order, result, stack>> /\ LocalIInv' /\ Claimed' \subseteq Claimed
    BY <1>3, LocalStep, SameClaims DEF localVars, LostIInv, Grows
  <2>2. \A p \in Claimed : Found(p)'
    BY <2>1 DEF LostIInv, Found, Landed, LandedAt, Holds, AtRisk, Top, Policy
  <2>3. \A r \in Requests : order[r].op = "move" => MoveOK(r)'
    BY <2>1 DEF LostIInv, MoveOK, WalkOK, WalkAt, Knows, Shrinks, Holds, Exists, Top, Policy
  <2> QED
    BY <2>1, <2>2, <2>3 DEF LostIInv
<1> QED
  BY <1>2, <1>3

\* Where no request writes where another one writes or takes away, and no move skips or
\* goes above or below its source, no data is lost that nobody gave up, but what lies
\* where a move passed over an entry because its Info failed (localfs.go:362-365, 380).
THEOREM MovesLoseNothing ==
  ASSUME LosslessWishes
  PROVE  LocalSpec => []NothingLost
<1>1. LostIInv => NothingLost
  <2> SUFFICES ASSUME LostIInv,
                      NEW p \in DOMAIN Disk \ (LeftBehind \cup UNION {GivenUp(r) : r \in Requests}),
                      Disk[p].type = "file"
               PROVE  Disk[p].data \in DataOn(disk, {"file", "link"})
    BY DEF NothingLost, DataOn
  <2>1. p \in Claimed /\ Found(p) /\ TreeOK(disk)
    BY DEF Claimed, LostIInv, LocalIInv, DiskOK
  <2>2. CASE p \in DOMAIN disk
    BY <2>1, <2>2 DEF Found, DataOn
  <2>3. CASE p \notin DOMAIN disk
    <3>1. PICK q \in DOMAIN disk : disk[q].type # "dir" /\ disk[q].data = Disk[p].data
      BY <2>1, <2>3 DEF Found, Landed, LandedAt, Holds
    <3>2. disk[q].type \in {"file", "link"}
      BY <2>1, <3>1 DEF TreeOK, Node
    <3> QED
      BY <3>1, <3>2 DEF DataOn
  <2> QED
    BY <2>2, <2>3
<1> QED
  BY <1>1, LostInitially, LostStep, PTL DEF LocalSpec

--------------------------------------------------------------------------
(* A copy or move that answers "ok" has copied *)

Copying(r) == order[r].op \in {"copy", "move"}

\* r asks for the same as a, once a and whatever a waited for is answered.
Repeats(wish, r, a) ==
  /\ wish[r] = [wish[a] EXCEPT !.after = wish[r].after]
  /\ wish[r].after \subseteq wish[a].after \cup {a}
\* What is asked for changes nothing at or below p, or above it.
KeepsOff(o, p) ==
  /\ o.op \in Taking => ~ Meets(o.from, p)
  /\ o.op \in Writing => ~ Meets(o.to, p)

\* No copy or move goes above its own source; what one waits for is the same request,
\* or changes nothing in its source; and copies side by side have places apart from
\* each other and from the source.
Settles(wish) ==
  \A r \in Requests : wish[r].op \in {"copy", "move"} =>
    /\ ~ IsPrefix(wish[r].from, wish[r].to) => ~ Meets(wish[r].to, wish[r].from)
    /\ \A o \in Requests \ {r} :
         /\ o \in wish[r].after => Repeats(wish, r, o) \/ KeepsOff(wish[o], wish[r].from)
         /\ o \notin wish[r].after /\ wish[o].op = "copy" /\ wish[o].to # wish[r].to =>
              KeepsOff(wish[o], wish[r].from) /\ ~ Meets(wish[o].to, wish[r].to)
SettledWishes == \A wish \in Wishes : Settles(wish)

\* The files of a source that no move passed over, those of them that r did not pass
\* over either, and the place of each.
Sources(r) == {p \in DOMAIN Disk \ LeftBehind :
                 Disk[p].type = "file" /\ IsPrefix(order[r].from, p)}
Expected(r) == Sources(r) \ PassedOver(r)
Place(r, p) == Under(order[r].to, order[r].from, p)
\* q is the place of p, or the numbered one beside it.
Placed(r, q, p) == SameBases(q, Place(r, p)) /\ (Policy(r) # "rename" => q = Place(r, p))

\* What lies at q is the copy of p, or what is in its way and was skipped for.
Copied(r, p, q) == Holds(q, Disk[p].data) /\ Placed(r, q, p)
InTheWay(r, p, q) ==
  /\ Policy(r) = "skip" /\ q \in DOMAIN disk
  /\ IsPrefix(order[r].to, q) /\ IsPrefix(q, Place(r, p))
  /\ q = Place(r, p) \/ disk[q].type # "dir"
Arrived(r, p) == \E q \in DOMAIN disk : Copied(r, p, q) \/ InTheWay(r, p, q)

\* Each open folder accounts for every file in it that is still there: it has arrived,
\* is being copied, or is left to the list or to the call that is under way.
WalkedAt(r, s, i) ==
  LET f == s[i] IN
  /\ i < Len(s) => f.at = "entries"
  /\ Placed(r, f.to, f.from)
  /\ f.at = "entries" =>
       \A p \in Expected(r) \cap DOMAIN disk : IsPrefix(f.from, p) =>
         \/ Arrived(r, p) \/ AtRisk(r, p)
         \/ \E c \in f.todo : IsPrefix(c, p)
         \/ i < Len(s) /\ IsPrefix(s[i + 1].from, p)
\* What is being read is there.
Reads(f) == f.at \in Early => f.from \in DOMAIN disk /\ disk[f.from].type # "dir"
\* The calls of r.
Underway(r) ==
  /\ ~ IsPrefix(order[r].from, order[r].to)
  /\ stack[r][1].from = order[r].from
  /\ \A i \in 1 .. Len(stack[r]) : WalkedAt(r, stack[r], i)
  /\ Knows(r, Top(r)) /\ Reads(Top(r))

\* What is known of a copy or move: what is left of its source is as it was, the rest
\* has arrived, and before it begins that is the work of the same request.
CopyOK(r) ==
  /\ Shrinks(r)
  /\ \A p \in Sources(r) : p \in DOMAIN disk \/ Arrived(r, p)
  /\ result[r] = "waiting" =>
       \A p \in Sources(r) : p \notin DOMAIN disk =>
         \E a \in order[r].after : Repeats(order, r, a) /\ result[a] # "waiting"
  /\ result[r] = "running" => Underway(r)
  /\ result[r] = "ok" => \A p \in Expected(r) : Arrived(r, p)

\* The inductive invariant.
CopyIInv ==
  /\ LocalIInv /\ TurnsOK
  /\ \A r \in Requests : Copying(r) /\ Undisturbed(r) => CopyOK(r)

--------------------------------------------------------------------------
(* Places *)

\* Below places of the same bases.
LEMMA UnderBases ==
  ASSUME NEW a \in Path, NEW b \in Path, SameBases(a, b),
         NEW p \in Path, NEW q \in Path, IsPrefix(p, q)
  PROVE  SameBases(Under(a, p, q), Under(b, p, q))
<1>1. PICK u : u = Under(a, p, q) /\ Lies(u, a, q, p)
  BY UnderMeans
<1>2. PICK v : v = Under(b, p, q) /\ Lies(v, b, q, p)
  BY UnderMeans
<1>3. /\ Len(p) \in Nat /\ Len(q) \in Nat /\ Len(a) \in Nat /\ Len(p) <= Len(q)
      /\ Len(b) = Len(a) /\ \A i \in 1 .. Len(a) : a[i].base = b[i].base
  BY PathMeans, PrefixMeans DEF SameBases
<1>4. /\ Len(u) = Len(a) + Len(q) - Len(p) /\ Len(v) = Len(a) + Len(q) - Len(p)
      /\ \A i \in 1 .. Len(a) : u[i] = a[i] /\ v[i] = b[i]
      /\ \A i \in 1 .. Len(q) - Len(p) : u[Len(a) + i] = q[Len(p) + i] /\ v[Len(a) + i] = q[Len(p) + i]
  BY <1>1, <1>2, <1>3 DEF Lies
<1>5. \A i \in 1 .. Len(u) : u[i].base = v[i].base
  <2> TAKE i \in 1 .. Len(u)
  <2>1. CASE i <= Len(a)
    <3>1. i \in 1 .. Len(a)
      BY <1>3, <2>1
    <3> QED
      BY <1>3, <1>4, <3>1
  <2>2. CASE Len(a) < i
    <3>1. PICK k \in Nat : i = Len(a) + k
      <4>1. Len(u) \in Nat /\ i \in Nat
        BY <1>3, <1>4
      <4> QED
        BY <1>3, <2>2, <4>1
    <3>2. k \in 1 .. Len(q) - Len(p)
      BY <1>3, <1>4, <2>2, <3>1
    <3> QED
      BY <1>4, <3>1, <3>2
  <2> QED
    BY <1>3, <1>4, <2>1, <2>2
<1> QED
  BY <1>1, <1>2, <1>4, <1>5 DEF SameBases

\* The place of what is in the source.
LEMMA PlaceMeans ==
  ASSUME NEW r, order[r].from \in Path, order[r].to \in Path,
         NEW p \in Path, IsPrefix(order[r].from, p)
  PROVE  /\ Place(r, p) \in Path /\ IsPrefix(order[r].to, Place(r, p))
         /\ Under(order[r].from, order[r].to, Place(r, p)) = p
         /\ Placed(r, Place(r, p), p)
         /\ \A q \in Path : Placed(r, q, p) => Stands(order[r].to, q)
<1>1. PICK u : u = Place(r, p) /\ Lies(u, order[r].to, p, order[r].from)
  BY UnderMeans DEF Place
<1>2. u \in Path /\ IsPrefix(order[r].to, u)
  BY <1>1 DEF Lies
<1>3. Under(order[r].from, order[r].to, u) = p
  BY <1>1, UnderBack DEF Place
<1>4. Placed(r, u, p)
  BY <1>1 DEF Placed, SameBases
<1>5. ASSUME NEW q \in Path, Placed(r, q, p)
      PROVE  Stands(order[r].to, q)
  <2>1. /\ Len(q) = Len(u) /\ \A i \in 1 .. Len(q) : q[i].base = u[i].base
        /\ Len(order[r].to) \in Nat /\ Len(u) \in Nat
        /\ Len(order[r].to) <= Len(u) /\ \A i \in 1 .. Len(order[r].to) : order[r].to[i] = u[i]
    BY <1>1, <1>2, <1>5, PathMeans, PrefixMeans DEF Placed, SameBases
  <2> QED
    BY <2>1 DEF Stands
<1> QED
  BY <1>1, <1>2, <1>3, <1>4, <1>5

\* A place below a place.
LEMMA PlacedBelow ==
  ASSUME NEW r, order[r].from \in Path, order[r].to \in Path,
         NEW p \in Path, NEW c \in Path, NEW to \in Path,
         IsPrefix(order[r].from, p), IsPrefix(p, c), Placed(r, to, p)
  PROVE  Placed(r, Under(to, p, c), c)
<1>1. Under(Place(r, p), p, c) = Place(r, c)
  BY UnderUnder DEF Place
<1>2. Place(r, p) \in Path
  BY PlaceMeans
<1>3. SameBases(to, Place(r, p))
  BY DEF Placed
<1>4. SameBases(Under(to, p, c), Under(Place(r, p), p, c))
  BY <1>2, <1>3, UnderBases
<1> QED
  BY <1>1, <1>4 DEF Placed

\* A numbered place.
LEMMA PlacedBeside ==
  ASSUME NEW r, NEW to \in Path, to # Root, NEW p, NEW i \in Nat, Policy(r) = "rename",
         Placed(r, to, p)
  PROVE  Placed(r, Numbered(to, i), p)
<1>1. /\ Len(Numbered(to, i)) = Len(to)
      /\ \A k \in 1 .. Len(to) : Numbered(to, i)[k].base = to[k].base
  BY NumberedMeans
<1> QED
  BY <1>1 DEF Placed, SameBases

\* Places lie below each other only as what they are the places of.
LEMMA PlaceReflects ==
  ASSUME NEW r, order[r].from \in Path, order[r].to \in Path,
         NEW p \in Path, IsPrefix(order[r].from, p), NEW x \in Path, IsPrefix(order[r].from, x),
         IsPrefix(Place(r, p), Place(r, x))
  PROVE  IsPrefix(p, x)
<1>1. /\ Place(r, p) \in Path /\ IsPrefix(order[r].to, Place(r, p))
      /\ Under(order[r].from, order[r].to, Place(r, p)) = p
      /\ Place(r, x) \in Path
      /\ Under(order[r].from, order[r].to, Place(r, x)) = x
  BY PlaceMeans
<1>2. IsPrefix(Under(order[r].from, order[r].to, Place(r, p)), Under(order[r].from, order[r].to, Place(r, x)))
  BY <1>1, UnderKeeps
<1> QED
  BY <1>1, <1>2

\* The files of a source are there to begin with, below nothing but folders.
LEMMA SourceMeans ==
  ASSUME NEW r, NEW p \in Sources(r)
  PROVE  /\ p \in DOMAIN Disk /\ p \in Path /\ Disk[p].type = "file" /\ Disk[p].data # Torn
         /\ IsPrefix(order[r].from, p)
         /\ \A f \in DOMAIN Disk : Disk[f].type # "dir" /\ IsPrefix(f, p) => f = p
<1>1. p \in DOMAIN Disk /\ p \in Path /\ Disk[p].type = "file" /\ IsPrefix(order[r].from, p)
  BY DiskAssumption DEF Sources
<1>2. Disk[p].data # Torn
  BY <1>1, DiskAssumption
<1>3. ASSUME NEW f \in DOMAIN Disk, Disk[f].type # "dir", IsPrefix(f, p), f # p
      PROVE  FALSE
  <2>1. f \in Path /\ f # Root
    BY DiskAssumption
  <2>2. FolderIn(Disk, f)
    BY <1>1, <1>3, <2>1, DiskIsTree DEF TreeOK
  <2> QED
    BY <1>3, <2>1, <2>2 DEF FolderIn
<1> QED
  BY <1>1, <1>2, <1>3

\* What has arrived has done so as long as what shows it stays.
LEMMA WitnessStays ==
  ASSUME NEW r, order' = order, NEW p, NEW q \in DOMAIN disk, q \in DOMAIN disk',
         disk'[q] = disk[q], Copied(r, p, q) \/ InTheWay(r, p, q)
  PROVE  Arrived(r, p)'
<1>1. Policy(r)' = Policy(r) /\ Place(r, p)' = Place(r, p)
  BY DEF Policy, Place
<1>2. (Copied(r, p, q) \/ InTheWay(r, p, q))'
  BY <1>1 DEF Copied, InTheWay, Holds, Placed
<1> QED
  BY <1>2 DEF Arrived

--------------------------------------------------------------------------
(* The calls of a copy or move *)

\* r keeps away from its own source.
Fits(r) == ~ IsPrefix(order[r].from, order[r].to) => ~ Meets(order[r].to, order[r].from)

\* What is known of the innermost call.
LEMMA CopyTop ==
  ASSUME LocalIInv, NEW r \in Requests, Copying(r), Fits(r), CopyOK(r), NEW stage, At(r, stage)
  PROVE  /\ StackOK /\ TreeOK(disk) /\ result[r] = "running" /\ Underway(r)
         /\ Top(r) \in Frames /\ Top(r).at = stage /\ Top(r).from \in Path /\ Top(r).to \in Path
         /\ order[r].from \in Path /\ order[r].to \in Path
         /\ IsPrefix(order[r].from, Top(r).from) /\ Stands(order[r].to, Top(r).to)
         /\ Knows(r, Top(r)) /\ Shrinks(r) /\ Reads(Top(r)) /\ Placed(r, Top(r).to, Top(r).from)
         /\ stage = "entries" => \A p \in Expected(r) \cap DOMAIN disk : IsPrefix(Top(r).from, p) =>
                                  Arrived(r, p) \/ \E c \in Top(r).todo : IsPrefix(c, p)
         /\ \A q \in Path : Stands(order[r].to, q) => ~ IsPrefix(order[r].from, q) /\ q # Root
         /\ \A c \in Top(r).todo : IsPrefix(Top(r).from, c)
<1>1. /\ StackOK /\ TreeOK(disk) /\ result[r] = "running"
      /\ Top(r) \in Frames /\ Top(r).at = stage /\ Top(r).from \in Path /\ Top(r).to \in Path
      /\ order[r].from \in Path /\ order[r].to \in Path /\ Suits(r, Top(r))
  BY RunningTop
<1>2. /\ IsPrefix(order[r].from, Top(r).from) /\ Stands(order[r].to, Top(r).to)
      /\ \A c \in Top(r).todo : IsPrefix(Top(r).from, c)
  BY <1>1 DEF Suits, Copying
<1>3. Underway(r) /\ Shrinks(r) /\ Knows(r, Top(r)) /\ Reads(Top(r))
  BY <1>1 DEF CopyOK, Underway
<1>4. WalkedAt(r, stack[r], Len(stack[r])) /\ Top(r) = stack[r][Len(stack[r])] /\ Len(stack[r]) \in Nat
  <2>1. stack[r] \in Seq(Frames) /\ stack[r] # <<>>
    BY <1>1 DEF StackOK
  <2>2. Len(stack[r]) \in Nat \ {0} /\ Top(r) = stack[r][Len(stack[r])]
    BY <1>1, <2>1, StackPlaces DEF Top
  <2> QED
    BY <1>3, <2>2 DEF Underway
<1>5. Placed(r, Top(r).to, Top(r).from)
  BY <1>4 DEF WalkedAt
<1>6. stage = "entries" => \A p \in Expected(r) \cap DOMAIN disk : IsPrefix(Top(r).from, p) =>
                             Arrived(r, p) \/ \E c \in Top(r).todo : IsPrefix(c, p)
  BY <1>1, <1>4 DEF WalkedAt, AtRisk, Early
<1>7. ~ Meets(order[r].to, order[r].from)
  BY <1>3 DEF Underway, Fits
<1>8. ASSUME NEW q \in Path, Stands(order[r].to, q)
      PROVE  ~ IsPrefix(order[r].from, q) /\ q # Root
  <2>1. ~ IsPrefix(order[r].from, q)
    BY <1>1, <1>7, <1>8, MeetHere
  <2>2. Len(order[r].to) # 0 /\ Len(order[r].to) \in Nat
    <3>1. Len(order[r].to) \in Nat
      BY <1>1, PathMeans
    <3>2. Len(order[r].to) = 0 => Meets(order[r].to, order[r].from)
      BY DEF Meets
    <3> QED
      BY <1>7, <3>1, <3>2
  <2> QED
    BY <1>8, <2>1, <2>2, RootPath DEF Stands
<1> QED
  BY <1>1, <1>2, <1>3, <1>5, <1>6, <1>8

\* Outside its source and its place a call touches nothing that shows what has arrived.
LEMMA NotOnArrived ==
  ASSUME LocalIInv, NEW r \in Requests, Copying(r), Fits(r), CopyOK(r), NEW stage, At(r, stage),
         NEW p \in Sources(r), NEW q \in DOMAIN disk, Copied(r, p, q) \/ InTheWay(r, p, q),
         ~ AtRisk(r, p)
  PROVE  /\ ~ IsPrefix(order[r].from, q) /\ ~ IsPrefix(Top(r).from, q)
         /\ stage \in {"place", "create", "stream"} => q # Top(r).to
<1>1. /\ TreeOK(disk) /\ result[r] = "running" /\ Top(r).at = stage /\ q \in Path
      /\ order[r].from \in Path /\ order[r].to \in Path /\ Top(r).from \in Path
      /\ IsPrefix(order[r].from, Top(r).from)
      /\ Knows(r, Top(r)) /\ Reads(Top(r)) /\ Shrinks(r) /\ Placed(r, Top(r).to, Top(r).from)
  BY CopyTop DEF TreeOK
<1>2. /\ p \in Path /\ IsPrefix(order[r].from, p) /\ Disk[p].data # Torn
      /\ \A f \in DOMAIN Disk : Disk[f].type # "dir" /\ IsPrefix(f, p) => f = p
  BY SourceMeans
<1>3. Stands(order[r].to, q)
  <2>1. CASE Copied(r, p, q)
    BY <1>1, <1>2, <2>1, PlaceMeans DEF Copied
  <2>2. CASE InTheWay(r, p, q)
    BY <1>1, <2>2, StandsItself, StandsBelow DEF InTheWay
  <2> QED
    BY <2>1, <2>2
<1>4. ~ IsPrefix(order[r].from, q)
  BY <1>1, <1>3, CopyTop
<1>5. ~ IsPrefix(Top(r).from, q)
  BY <1>1, <1>4, PrefixPrefix
<1>6. ASSUME stage \in {"place", "create"}, q = Top(r).to
      PROVE  FALSE
  <2>1. Policy(r) = "replace"
    BY <1>1, <1>6 DEF Knows, Exists
  <2>2. Place(r, p) = Place(r, Top(r).from)
    BY <1>1, <1>6, <2>1 DEF Copied, InTheWay, Placed
  <2>3. p = Top(r).from
    BY <1>1, <1>2, <2>2, UnderApart DEF Place
  <2> QED
    BY <1>1, <1>6, <2>3 DEF AtRisk, Early
<1>7. ASSUME stage = "stream", q = Top(r).to
      PROVE  FALSE
  <2>1. disk[q].data = Torn
    BY <1>1, <1>7 DEF Knows, Holds
  <2>2. InTheWay(r, p, q)
    BY <1>2, <2>1 DEF Copied, Holds
  <2>3. IsPrefix(Place(r, Top(r).from), Place(r, p))
    BY <1>1, <1>7, <2>2 DEF InTheWay, Placed
  <2>4. IsPrefix(Top(r).from, p)
    BY <1>1, <1>2, <2>3, PlaceReflects
  <2>5. Top(r).from \in DOMAIN Disk /\ Disk[Top(r).from].type # "dir"
    BY <1>1, <1>7 DEF Reads, Shrinks, Early
  <2>6. p = Top(r).from
    BY <1>2, <2>4, <2>5
  <2> QED
    BY <1>1, <1>7, <2>6 DEF AtRisk, Early
<1> QED
  BY <1>4, <1>5, <1>6, <1>7

\* What a step of r does to the files of its source: one that leaves has arrived, and
\* what has arrived stays, but for the file that is being written again.
Spares(r) ==
  /\ \A p \in Sources(r) \cap DOMAIN disk : p \notin DOMAIN disk' => Arrived(r, p)'
  /\ \A p \in Sources(r) : Arrived(r, p) /\ ~ AtRisk(r, p) => Arrived(r, p)'

\* What the places are is settled by what was asked for.
LEMMA SamePlaces ==
  ASSUME order' = order, NEW r
  PROVE  /\ Policy(r)' = Policy(r)
         /\ \A q, p : Placed(r, q, p)' <=> Placed(r, q, p)
BY DEF Policy, Placed, Place

\* The sources are settled by what was asked for and what was passed over.
LEMMA FewerSources ==
  ASSUME order' = order, Grows, NEW r \in Requests
  PROVE  Sources(r)' \subseteq Sources(r) /\ Expected(r)' \subseteq Expected(r)
<1>1. Sources(r)' \subseteq Sources(r)
  BY PassedStays DEF Sources
<1> QED
  BY <1>1, PassedStays DEF Expected

\* A step that takes nothing away but at most what it removes from the source, and
\* writes only to its place.
LEMMA SparesOther ==
  ASSUME LocalIInv, NEW r \in Requests, Copying(r), Fits(r), CopyOK(r), NEW stage, At(r, stage),
         order' = order,
         \A p \in Sources(r) \cap DOMAIN disk : p \notin DOMAIN disk' => Arrived(r, p)',
         \A q \in DOMAIN disk : \/ q \in DOMAIN disk' /\ disk'[q] = disk[q]
                                \/ IsPrefix(Top(r).from, q)
                                \/ q = Top(r).to /\ stage \in {"place", "create", "stream"}
  PROVE  Spares(r)
<1> SUFFICES ASSUME NEW p \in Sources(r), Arrived(r, p), ~ AtRisk(r, p)
             PROVE  Arrived(r, p)'
  BY DEF Spares
<1>1. PICK q \in DOMAIN disk : Copied(r, p, q) \/ InTheWay(r, p, q)
  BY DEF Arrived
<1>2. q \in DOMAIN disk' /\ disk'[q] = disk[q]
  BY <1>1, NotOnArrived
<1> QED
  BY <1>1, <1>2, WitnessStays

\* What is in the source is as it was there before.
LEMMA SourceStays ==
  ASSUME LocalIInv, LocalIInv', NEW r \in Requests, Copying(r), Fits(r), CopyOK(r),
         NEW stage, At(r, stage), Contract(r), order' = order
  PROVE  /\ \A q \in DOMAIN disk' : IsPrefix(order[r].from, q) => q \in DOMAIN disk /\ disk'[q] = disk[q]
         /\ Shrinks(r)'
<1>1. ASSUME NEW q \in DOMAIN disk', IsPrefix(order[r].from, q)
      PROVE  q \in DOMAIN disk /\ disk'[q] = disk[q]
  <2>1. q \in Path
    BY DEF LocalIInv, DiskOK, TreeOK
  <2>2. ~ Mine(r, q)
    BY <1>1, <2>1, CopyTop DEF Mine
  <2> QED
    BY <2>2 DEF Contract
<1> QED
  BY <1>1, CopyTop DEF Shrinks

\* Every file of the source is still there or has arrived.
LEMMA StillThere ==
  ASSUME LocalIInv, NEW r \in Requests, Copying(r), Fits(r), CopyOK(r), NEW stage, At(r, stage),
         Spares(r)
  PROVE  \A p \in Sources(r) : p \in DOMAIN disk' \/ Arrived(r, p)'
<1> TAKE p \in Sources(r)
<1>1. CASE p \in DOMAIN disk
  BY <1>1 DEF Spares
<1>2. CASE p \notin DOMAIN disk
  <2>1. Arrived(r, p)
    BY <1>2 DEF CopyOK
  <2>2. ~ AtRisk(r, p)
    BY <1>2, CopyTop DEF AtRisk, Reads
  <2> QED
    BY <2>1, <2>2 DEF Spares
<1> QED
  BY <1>1, <1>2

\* A call that ends badly leaves no calls.
LEMMA FailCopy ==
  ASSUME LocalIInv, LocalIInv', NEW r \in Requests, Copying(r), Fits(r), CopyOK(r),
         NEW stage, At(r, stage), Contract(r), Spares(r), Fail(r)
  PROVE  CopyOK(r)'
<1>1. order' = order /\ result'[r] = "error" /\ Sources(r)' \subseteq Sources(r)
  BY FewerSources DEF Fail, LocalIInv, StackOK, Contract
<1>2. Shrinks(r)'
  BY <1>1, SourceStays
<1>3. \A p \in Sources(r) : p \in DOMAIN disk' \/ Arrived(r, p)'
  BY StillThere
<1> QED
  BY <1>1, <1>2, <1>3 DEF CopyOK

\* The innermost call goes on.
LEMMA BecomeCopy ==
  ASSUME LocalIInv, LocalIInv', NEW r \in Requests, Copying(r), Fits(r), CopyOK(r),
         NEW stage, At(r, stage), Contract(r), Spares(r),
         NEW f \in Frames, Become(r, f), f.from = Top(r).from, Placed(r, f.to, f.from),
         f.at = "entries" => \A p \in Expected(r)' \cap DOMAIN disk' : IsPrefix(f.from, p) =>
                               Arrived(r, p)' \/ \E c \in f.todo : IsPrefix(c, p),
         Knows(r, f)', Reads(f)', f.at \in Early => stage \in Early,
         stage \in Early /\ f.at \notin Early /\ f.from \in Sources(r) => Arrived(r, f.from)'
  PROVE  CopyOK(r)'
<1>1. /\ StackOK /\ result[r] = "running" /\ Top(r).at = stage /\ Underway(r) /\ Reads(Top(r))
      /\ stack[r] \in Seq(Frames) /\ stack[r] # <<>> /\ order[r].from \in Path
      /\ IsPrefix(order[r].from, Top(r).from) /\ Top(r).from \in Path
  BY CopyTop DEF StackOK
<1>2. PICK t : t = Append(Front(stack[r]), f)
  OBVIOUS
<1>3. PICK s : s = stack[r]
  OBVIOUS
<1>4. /\ Len(s) \in Nat \ {0} /\ Len(t) = Len(s) /\ t[Len(s)] = f /\ Top(r) = s[Len(s)]
      /\ \A i \in 1 .. Len(s) - 1 : t[i] = s[i]
  BY <1>1, <1>2, <1>3, StackPlaces DEF Top
<1>5. /\ stack'[r] = t /\ order' = order /\ result' = result /\ Top(r)' = f
      /\ Sources(r)' \subseteq Sources(r) /\ Expected(r)' \subseteq Expected(r)
      /\ Policy(r)' = Policy(r)
      /\ \A q, p : Placed(r, q, p)' <=> Placed(r, q, p)
  <2>1. stack'[r] = t /\ order' = order /\ result' = result
    BY <1>1, <1>2 DEF Become, StackOK
  <2>2. Last(Append(Front(stack[r]), f)) = f
    BY <1>1, StackMeans
  <2>3. Top(r)' = f
    BY <1>2, <2>1, <2>2 DEF Top
  <2> QED
    BY <2>1, <2>3, SamePlaces, FewerSources DEF Contract
<1>6. /\ \A q \in DOMAIN disk' : IsPrefix(order[r].from, q) => q \in DOMAIN disk /\ disk'[q] = disk[q]
      /\ Shrinks(r)' /\ \A p \in Sources(r) : p \in DOMAIN disk' \/ Arrived(r, p)'
  BY <1>5, SourceStays, StillThere
\* Who has arrived or is being copied still is.
<1>7. ASSUME NEW p \in Sources(r), Arrived(r, p) \/ AtRisk(r, p)
      PROVE  Arrived(r, p)' \/ AtRisk(r, p)'
  <2>1. CASE ~ AtRisk(r, p)
    BY <1>7, <2>1 DEF Spares
  <2>2. CASE AtRisk(r, p) /\ f.at \in Early
    BY <1>1, <1>5, <2>2 DEF AtRisk
  <2>3. CASE AtRisk(r, p) /\ f.at \notin Early
    BY <1>1, <1>5, <2>3 DEF AtRisk
  <2> QED
    BY <2>1, <2>2, <2>3
<1>8. ASSUME NEW i \in 1 .. Len(s)
      PROVE  WalkedAt(r, t, i)'
  <2>1. CASE i = Len(s)
    <3>1. t[i] = f /\ ~ (i < Len(t))
      BY <1>4, <2>1
    <3>2. Placed(r, f.to, f.from)'
      BY <1>5
    <3>3. f.at = "entries" => \A p \in Expected(r)' \cap DOMAIN disk' : IsPrefix(f.from, p) =>
                                Arrived(r, p)' \/ \E c \in f.todo : IsPrefix(c, p)
      OBVIOUS
    <3> QED
      BY <1>5, <3>1, <3>2, <3>3 DEF WalkedAt
  <2>2. CASE i # Len(s)
    <3>1. WalkedAt(r, s, i)
      BY <1>1, <1>3 DEF Underway
    <3>2. i \in 1 .. Len(s) - 1 /\ i < Len(s) /\ i < Len(t) /\ i + 1 \in 1 .. Len(s)
      BY <1>4, <2>2
    <3>3. t[i] = s[i] /\ t[i + 1].from = s[i + 1].from
      BY <1>4, <3>2
    <3>4. s[i].at = "entries" /\ Placed(r, s[i].to, s[i].from)
      BY <3>1, <3>2 DEF WalkedAt
    <3>5. ASSUME NEW p \in Expected(r) \cap DOMAIN disk', IsPrefix(s[i].from, p)
          PROVE  \/ Arrived(r, p)' \/ AtRisk(r, p)'
                 \/ \E c \in s[i].todo : IsPrefix(c, p)
                 \/ IsPrefix(s[i + 1].from, p)
      <4>1. p \in DOMAIN disk
        BY <1>6, <3>5, SourceMeans DEF Expected
      <4>2. Arrived(r, p) \/ AtRisk(r, p)
              \/ (\E c \in s[i].todo : IsPrefix(c, p)) \/ IsPrefix(s[i + 1].from, p)
        BY <3>1, <3>4, <3>5, <4>1 DEF WalkedAt
      <4> QED
        BY <1>7, <3>5, <4>2 DEF Expected
    <3> QED
      BY <1>5, <3>2, <3>3, <3>4, <3>5 DEF WalkedAt
  <2> QED
    BY <2>1, <2>2
<1>9. stack'[r][1].from = order'[r].from
  <2>1. CASE Len(s) = 1
    BY <1>1, <1>3, <1>4, <1>5, <2>1 DEF Underway
  <2>2. CASE Len(s) # 1
    <3>1. 1 \in 1 .. Len(s) - 1
      BY <1>4, <2>2
    <3> QED
      BY <1>1, <1>3, <1>4, <1>5, <3>1 DEF Underway
  <2> QED
    BY <2>1, <2>2
<1>10. Underway(r)'
  BY <1>1, <1>4, <1>5, <1>8, <1>9 DEF Underway
<1> QED
  BY <1>1, <1>5, <1>6, <1>10 DEF CopyOK

\* The innermost call returns, and all that it was made for has arrived.
LEMMA ReturnCopy ==
  ASSUME LocalIInv, LocalIInv', NEW r \in Requests, Copying(r), Fits(r), CopyOK(r),
         NEW stage, At(r, stage), Contract(r), Spares(r), Return(r),
         \A p \in Expected(r) \cap DOMAIN disk' : IsPrefix(Top(r).from, p) => Arrived(r, p)'
  PROVE  CopyOK(r)'
<1>1. /\ StackOK /\ result[r] = "running" /\ Underway(r) /\ Top(r).from \in Path
      /\ stack[r] \in Seq(Frames) /\ stack[r] # <<>> /\ order[r].from \in Path /\ Top(r) \in Frames
      /\ IsPrefix(order[r].from, Top(r).from)
  BY CopyTop DEF StackOK
<1>2. PICK s : s = stack[r]
  OBVIOUS
<1>3. PICK t : t = Front(s)
  OBVIOUS
<1>4. /\ Len(s) \in Nat \ {0} /\ Len(t) = Len(s) - 1 /\ Top(r) = s[Len(s)]
      /\ \A i \in 1 .. Len(s) - 1 : t[i] = s[i]
      /\ t \in Seq(Frames)
  BY <1>1, <1>2, <1>3, StackPlaces, StackMeans DEF Top
<1>5. /\ stack'[r] = t /\ order' = order
      /\ result'[r] = IF Len(s) = 1 THEN "ok" ELSE "running"
      /\ Sources(r)' \subseteq Sources(r) /\ Expected(r)' \subseteq Expected(r)
      /\ Policy(r)' = Policy(r)
      /\ \A q, p : Placed(r, q, p)' <=> Placed(r, q, p)
  <2>1. stack'[r] = t /\ order' = order /\ result'[r] = IF Len(s) = 1 THEN "ok" ELSE "running"
    BY <1>1, <1>2, <1>3 DEF Return, StackOK
  <2> QED
    BY <2>1, SamePlaces, FewerSources DEF Contract
<1>6. /\ \A q \in DOMAIN disk' : IsPrefix(order[r].from, q) => q \in DOMAIN disk /\ disk'[q] = disk[q]
      /\ Shrinks(r)' /\ \A p \in Sources(r) : p \in DOMAIN disk' \/ Arrived(r, p)'
  BY <1>5, SourceStays, StillThere
<1>7. ASSUME NEW p \in Expected(r) \cap DOMAIN disk', Arrived(r, p) \/ AtRisk(r, p)
      PROVE  Arrived(r, p)'
  <2>1. CASE ~ AtRisk(r, p)
    BY <1>7, <2>1 DEF Spares, Expected
  <2>2. CASE AtRisk(r, p)
    <3>1. IsPrefix(Top(r).from, p)
      BY <1>1, <2>2, PrefixItself DEF AtRisk
    <3> QED
      BY <1>7, <3>1
  <2> QED
    BY <2>1, <2>2
<1>8. ASSUME NEW i \in 1 .. Len(t)
      PROVE  WalkedAt(r, t, i)' /\ t[i].at = "entries"
  <2>1. /\ i \in 1 .. Len(s) - 1 /\ i \in 1 .. Len(s) /\ i < Len(s) /\ i + 1 \in 1 .. Len(s)
        /\ t[i] = s[i]
    BY <1>4
  <2>2. WalkedAt(r, s, i)
    BY <1>1, <1>2, <2>1 DEF Underway
  <2>3. t[i].at = "entries" /\ Placed(r, t[i].to, t[i].from)
    BY <2>1, <2>2 DEF WalkedAt
  <2>4. ASSUME NEW p \in Expected(r) \cap DOMAIN disk', IsPrefix(t[i].from, p)
        PROVE  \/ Arrived(r, p)'
               \/ \E c \in t[i].todo : IsPrefix(c, p)
               \/ i < Len(t) /\ IsPrefix(t[i + 1].from, p)
    <3>1. p \in DOMAIN disk
      BY <1>6, <2>4, SourceMeans DEF Expected
    <3>2. \/ Arrived(r, p) \/ AtRisk(r, p)
          \/ (\E c \in t[i].todo : IsPrefix(c, p)) \/ IsPrefix(s[i + 1].from, p)
      BY <2>1, <2>2, <2>3, <2>4, <3>1 DEF WalkedAt
    <3>3. ASSUME IsPrefix(s[i + 1].from, p), ~ (i < Len(t))
          PROVE  Arrived(r, p)'
      <4>1. i + 1 = Len(s)
        BY <1>4, <2>1, <3>3
      <4>2. IsPrefix(Top(r).from, p)
        BY <1>4, <3>3, <4>1
      <4> QED
        BY <2>4, <4>2
    <3>4. ASSUME i < Len(t)
          PROVE  t[i + 1] = s[i + 1]
      <4>1. i + 1 \in 1 .. Len(s) - 1
        BY <1>4, <2>1, <3>4
      <4> QED
        BY <1>4, <4>1
    <3> QED
      BY <1>7, <2>4, <3>2, <3>3, <3>4
  <2> QED
    BY <1>5, <2>3, <2>4 DEF WalkedAt
<1>9. CASE Len(s) = 1
  <2>1. s[1].from = order[r].from
    BY <1>1, <1>2 DEF Underway
  <2>2. Top(r).from = order[r].from
    BY <1>4, <1>9, <2>1
  <2>3. \A p \in Expected(r) : Arrived(r, p)'
    BY <1>6, <2>2 DEF Expected, Sources
  <2> QED
    BY <1>5, <1>6, <1>9, <2>3 DEF CopyOK
<1>10. CASE Len(s) # 1
  <2>1. Len(t) \in 1 .. Len(t) /\ 1 \in 1 .. Len(s) - 1
    BY <1>4, <1>10
  <2>2. Top(r)' = t[Len(t)]
    BY <1>5 DEF Top, Last
  <2>3. Top(r)'.at = "entries"
    BY <1>8, <2>1, <2>2
  <2>4. Knows(r, Top(r))' /\ Reads(Top(r))'
    BY <2>3 DEF Knows, Reads, Early
  <2>5. stack'[r][1].from = order'[r].from
    <3>1. t[1] = s[1]
      BY <1>4, <2>1
    <3> QED
      BY <1>1, <1>2, <1>5, <3>1 DEF Underway
  <2>6. ~ IsPrefix(order'[r].from, order'[r].to)
    BY <1>1, <1>5 DEF Underway
  <2>7. Underway(r)'
    BY <1>5, <1>8, <2>4, <2>5, <2>6 DEF Underway
  <2> QED
    BY <1>5, <1>6, <1>10, <2>7 DEF CopyOK
<1> QED
  BY <1>9, <1>10

\* On with the same call, which knows what the step needs.
LEMMA GotoCopy ==
  ASSUME LocalIInv, LocalIInv', NEW r \in Requests, Copying(r), Fits(r), CopyOK(r),
         NEW stage, At(r, stage), Contract(r), Spares(r),
         NEW next \in Steps \ {"entries"}, Goto(r, next),
         NEW f, f = [Top(r) EXCEPT !.at = next], Knows(r, f)', Reads(f)',
         next \in Early => stage \in Early,
         stage \in Early /\ next \notin Early /\ f.from \in Sources(r) => Arrived(r, f.from)'
  PROVE  CopyOK(r)'
<1>1. Top(r) \in Frames /\ Placed(r, Top(r).to, Top(r).from)
  BY CopyTop
<1>2. f \in Frames /\ f.at = next /\ f.from = Top(r).from /\ f.to = Top(r).to
  BY <1>1 DEF Frames
<1> QED
  BY <1>1, <1>2, BecomeCopy DEF Goto

\* A step that changes nothing on the disk.
LEMMA SparesUnchanged ==
  ASSUME NEW r \in Requests, UNCHANGED <<disk, order>>
  PROVE  Spares(r)
<1>1. ASSUME NEW p, Arrived(r, p)
      PROVE  Arrived(r, p)'
  <2>1. PICK q \in DOMAIN disk : Copied(r, p, q) \/ InTheWay(r, p, q)
    BY <1>1 DEF Arrived
  <2> QED
    BY <2>1, WitnessStays
<1> QED
  BY <1>1 DEF Spares

\* A call that ends badly and changes nothing.
LEMMA RefuseCopy ==
  ASSUME LocalIInv, LocalIInv', NEW r \in Requests, Copying(r), Fits(r), CopyOK(r),
         NEW stage, At(r, stage), Contract(r), Fail(r), UNCHANGED disk
  PROVE  CopyOK(r)'
BY SparesUnchanged, FailCopy DEF Fail

\* Beside what is in the way.
LEMMA BesideCopy ==
  ASSUME LocalIInv, LocalIInv', NEW r \in Requests, Copying(r), Fits(r), CopyOK(r),
         NEW stage \in {"file", "dir"}, At(r, stage), Contract(r),
         NEW next \in {"place", "mkdir"}, next \in Early <=> stage \in Early,
         ~ IsDir(Top(r).to), Policy(r) = "rename", UNCHANGED disk,
         Become(r, [Top(r) EXCEPT !.to = UniqueLocalDest(Top(r).to), !.at = next])
  PROVE  CopyOK(r)'
<1>1. /\ Top(r) \in Frames /\ Top(r).to \in Path /\ TreeOK(disk) /\ Top(r).to # Root
      /\ "place" \in Steps /\ "mkdir" \in Steps /\ Reads(Top(r)) /\ Top(r).at = stage
      /\ Placed(r, Top(r).to, Top(r).from)
  BY CopyTop DEF IsDir, TypeOf, Steps
<1>2. PICK i \in Nat : UniqueLocalDest(Top(r).to) = Numbered(Top(r).to, i)
  BY <1>1, UniqueIsFree
<1>3. UniqueLocalDest(Top(r).to) \in Path /\ ~ Exists(UniqueLocalDest(Top(r).to))
  BY <1>1, <1>2, UniqueIsFree, NumberedMeans
<1>4. PICK f : f = [Top(r) EXCEPT !.to = UniqueLocalDest(Top(r).to), !.at = next]
  OBVIOUS
<1>5. /\ f \in Frames /\ f.at = next /\ f.from = Top(r).from
      /\ f.to = UniqueLocalDest(Top(r).to)
  BY <1>1, <1>3, <1>4 DEF Frames
<1>6. ~ (f.to \in DOMAIN disk' \cup {Root})
  BY <1>3, <1>5 DEF Exists
<1>7. Knows(r, f)'
  BY <1>5, <1>6 DEF Knows, Exists
<1>8. Reads(f)'
  BY <1>1, <1>5 DEF Reads
<1>9. Placed(r, f.to, f.from)
  BY <1>1, <1>2, <1>5, PlacedBeside
<1>10. Spares(r) /\ f.at # "entries"
  BY <1>5, SparesUnchanged DEF Become
<1>11. f.at \in Early <=> stage \in Early
  BY <1>5
<1>12. Become(r, f)
  BY <1>4
<1> QED
  BY <1>5, <1>7, <1>8, <1>9, <1>10, <1>11, <1>12, BecomeCopy

\* A copy or move begins (localfs.go:222-250).
LEMMA StartCopy ==
  ASSUME LocalIInv, LocalIInv', NEW r \in Requests, Copying(r), CopyOK(r), Copy(r), Contract(r)
  PROVE  CopyOK(r)'
<1> DEFINE o == order[r]
           stage == IF IsDir(o.from) THEN "dir" ELSE "file"
<1>1. StackOK /\ o.from \in Path /\ o.to \in Path /\ result[r] = "waiting"
  BY OrderTyped DEF LocalIInv, Orders, Copy, Begins
<1>2. UNCHANGED <<disk, order>>
  BY DEF Copy, Refuse, Fail, Enter
<1>3. /\ Sources(r)' \subseteq Sources(r) /\ Policy(r)' = Policy(r)
      /\ \A q, p : Placed(r, q, p)' <=> Placed(r, q, p)
  BY <1>2, SamePlaces, FewerSources DEF Contract
<1>4. Shrinks(r)' /\ \A p \in Sources(r) : p \in DOMAIN disk' \/ Arrived(r, p)'
  <2>1. Shrinks(r)'
    BY <1>2 DEF CopyOK, Shrinks
  <2>2. \A p \in Sources(r) : Arrived(r, p) => Arrived(r, p)'
    BY <1>1, <1>2, SparesUnchanged DEF Spares, AtRisk
  <2> QED
    BY <1>2, <2>1, <2>2 DEF CopyOK
<1>5. CASE Refuse(r)
  <2>1. result'[r] = "error"
    BY <1>1, <1>5 DEF Refuse, Fail, StackOK
  <2> QED
    BY <1>3, <1>4, <2>1 DEF CopyOK
<1>6. CASE Enter(r, Frame(stage, o.from, o.to)) /\ Exists(o.from) /\ ~ IsPrefix(o.from, o.to)
  <2>1. PICK f : f = Frame(stage, o.from, o.to)
    OBVIOUS
  <2>2. /\ f \in Frames /\ f.at = stage /\ f.from = o.from /\ f.to = o.to /\ stage \in {"dir", "file"}
    BY <1>1, <2>1, FrameTyped DEF Steps
  <2>3. stack'[r] = <<f>> /\ result'[r] = "running" /\ Top(r)' = f
    BY <1>1, <1>6, <2>1 DEF Enter, StackOK, Top, Last
  <2>4. Placed(r, f.to, f.from)
    <3>1. Place(r, o.from) = o.to
      BY <1>1, UnderSelf DEF Place
    <3> QED
      BY <2>2, <3>1 DEF Placed, SameBases
  <2>5. Len(<<f>>) = 1 /\ <<f>>[1] = f
    OBVIOUS
  <2>6. WalkedAt(r, <<f>>, 1)'
    BY <1>3, <2>2, <2>4, <2>5 DEF WalkedAt
  <2>7. Knows(r, f)'
    BY <2>2 DEF Knows
  <2>8. Reads(f)'
    BY <1>2, <1>6, <2>2 DEF Reads, Early, Exists, IsDir, TypeOf
  <2>9. Underway(r)'
    <3>1. \A i \in 1 .. Len(<<f>>) : i = 1
      BY <2>5
    <3> QED
      BY <1>2, <1>6, <2>2, <2>3, <2>5, <2>6, <2>7, <2>8, <3>1 DEF Underway
  <2> QED
    BY <1>3, <1>4, <2>3, <2>9 DEF CopyOK
<1> QED
  BY <1>5, <1>6 DEF Copy

\* What copyFile is called for is one file.
LEMMA OneFile ==
  ASSUME LocalIInv, NEW r \in Requests, Copying(r), Fits(r), CopyOK(r), NEW stage \in Early,
         At(r, stage)
  PROVE  /\ Top(r).from \in DOMAIN disk /\ disk[Top(r).from].type # "dir"
         /\ Top(r).from \in DOMAIN Disk /\ disk[Top(r).from] = Disk[Top(r).from]
         /\ \A p \in Sources(r) : IsPrefix(Top(r).from, p) => p = Top(r).from
         /\ \A q \in DOMAIN disk : IsPrefix(Top(r).from, q) => q = Top(r).from
         /\ Top(r).to # Top(r).from
<1>1. /\ Top(r).from \in DOMAIN disk /\ disk[Top(r).from].type # "dir" /\ Shrinks(r) /\ TreeOK(disk)
      /\ IsPrefix(order[r].from, Top(r).from) /\ Top(r).from \in Path /\ Top(r).to \in Path
      /\ Stands(order[r].to, Top(r).to)
  BY CopyTop DEF Reads
<1>2. Top(r).from \in DOMAIN Disk /\ disk[Top(r).from] = Disk[Top(r).from]
  BY <1>1 DEF Shrinks
<1>3. \A p \in Sources(r) : IsPrefix(Top(r).from, p) => p = Top(r).from
  BY <1>1, <1>2, SourceMeans
<1>4. ASSUME NEW q \in DOMAIN disk, IsPrefix(Top(r).from, q), q # Top(r).from
      PROVE  FALSE
  <2>1. FolderIn(disk, Top(r).from) /\ Top(r).from # Root
    BY <1>1, <1>4 DEF TreeOK
  <2> QED
    BY <1>1, <2>1 DEF FolderIn
<1>5. Top(r).to # Top(r).from
  BY <1>1, CopyTop
<1> QED
  BY <1>1, <1>2, <1>3, <1>4, <1>5

\* copyFile looks at its destination and goes by the policy.
LEMMA CopyFileCopy ==
  ASSUME LocalIInv, LocalIInv', NEW r \in Requests, Copying(r), Fits(r), CopyOK(r), Contract(r),
         CopyFile(r)
  PROVE  CopyOK(r)'
<1>1. /\ At(r, "file") /\ UNCHANGED disk /\ "file" \in Early /\ "place" \in Early
      /\ "place" \in Steps \ {"entries"}
  BY DEF CopyFile, Early, Steps
<1>2. /\ Top(r) \in Frames /\ Reads(Top(r)) /\ Top(r).at = "file" /\ Top(r).to \in Path
      /\ Placed(r, Top(r).to, Top(r).from) /\ Stands(order[r].to, Top(r).to) /\ Top(r).to # Root
      /\ order[r].from \in Path /\ order[r].to \in Path /\ Top(r).from \in Path
      /\ IsPrefix(order[r].from, Top(r).from)
  BY <1>1, CopyTop
<1>3. CASE Fail(r)
  BY <1>1, <1>3, RefuseCopy
<1>4. CASE Goto(r, "place") /\ (Policy(r) # "replace" => ~ Exists(Top(r).to))
  <2>1. PICK f : f = [Top(r) EXCEPT !.at = "place"]
    OBVIOUS
  <2>2. f.at = "place" /\ f.to = Top(r).to /\ f.from = Top(r).from
    BY <1>2, <2>1 DEF Frames
  <2>3. Policy(r)' = Policy(r) /\ order' = order
    BY <1>4 DEF Goto, Become, Policy
  <2>4. Knows(r, f)'
    BY <1>1, <1>4, <2>2, <2>3 DEF Knows, Exists
  <2>5. Reads(f)'
    BY <1>1, <1>2, <2>2 DEF Reads
  <2>6. Spares(r)
    BY <1>1, <2>3, SparesUnchanged
  <2> QED
    BY <1>1, <1>4, <2>1, <2>4, <2>5, <2>6, GotoCopy
<1>5. CASE Exists(Top(r).to) /\ Policy(r) = "skip" /\ Return(r)
  <2>1. Spares(r) /\ order' = order
    BY <1>1, <1>5, SparesUnchanged DEF Return
  <2>2. ASSUME NEW p \in Sources(r) \cap DOMAIN disk', IsPrefix(Top(r).from, p)
        PROVE  Arrived(r, p)'
    <3>1. p = Top(r).from
      BY <1>1, <2>2, OneFile
    <3>2. Top(r).to = Place(r, p) /\ Top(r).to \in DOMAIN disk
      BY <1>2, <1>5, <3>1 DEF Placed, Exists
    <3>3. IsPrefix(order[r].to, Top(r).to) /\ IsPrefix(Top(r).to, Top(r).to)
      BY <1>2, <3>1, <3>2, PlaceMeans, PrefixItself
    <3>4. InTheWay(r, p, Top(r).to)
      BY <1>5, <3>2, <3>3 DEF InTheWay
    <3> QED
      BY <1>1, <2>1, <3>2, <3>4, WitnessStays
  <2> QED
    BY <1>1, <1>5, <2>1, <2>2, ReturnCopy DEF Expected
<1>6. CASE /\ Policy(r) = "rename" /\ ~ IsDir(Top(r).to)
           /\ Become(r, [Top(r) EXCEPT !.to = UniqueLocalDest(Top(r).to), !.at = "place"])
  BY <1>1, <1>6, BesideCopy
<1> QED
  BY <1>3, <1>4, <1>5, <1>6 DEF CopyFile

\* The source that is opened is what was there at first.
LEMMA OpenSourceCopy ==
  ASSUME LocalIInv, LocalIInv', NEW r \in Requests, Copying(r), Fits(r), CopyOK(r), Contract(r),
         OpenSource(r)
  PROVE  CopyOK(r)'
<1>1. At(r, "place") /\ UNCHANGED disk /\ "place" \in Early /\ "create" \in Early \cap Steps
  BY DEF OpenSource, Early, Steps
<1>2. /\ Top(r) \in Frames /\ TreeOK(disk) /\ Knows(r, Top(r)) /\ Reads(Top(r))
      /\ Top(r).at = "place" /\ Placed(r, Top(r).to, Top(r).from)
      /\ Top(r).from \in DOMAIN Disk /\ Top(r).from \in DOMAIN disk
      /\ disk[Top(r).from] = Disk[Top(r).from]
  BY <1>1, CopyTop, OneFile
<1>3. CASE Fail(r)
  BY <1>1, <1>3, RefuseCopy
<1>4. CASE Become(r, [Top(r) EXCEPT !.at = "create", !.data = disk[Top(r).from].data])
  <2>1. PICK f : f = [Top(r) EXCEPT !.at = "create", !.data = disk[Top(r).from].data]
    OBVIOUS
  <2>2. /\ f \in Frames /\ f.at = "create" /\ f.from = Top(r).from /\ f.to = Top(r).to
        /\ f.data = disk[Top(r).from].data
    BY <1>1, <1>2, <2>1 DEF Frames, TreeOK, Node
  <2>3. Policy(r)' = Policy(r) /\ order' = order
    BY <1>4 DEF Become, Policy
  <2>4. Knows(r, f)'
    BY <1>1, <1>2, <2>2, <2>3 DEF Knows, Exists
  <2>5. Reads(f)'
    BY <1>1, <1>2, <2>2 DEF Reads
  <2>6. Spares(r)
    BY <1>1, <2>3, SparesUnchanged
  <2>7. Become(r, f) /\ f.at # "entries" /\ f.at \in Early /\ Placed(r, f.to, f.from)
    BY <1>1, <1>2, <1>4, <2>1, <2>2
  <2> QED
    BY <1>1, <2>2, <2>4, <2>5, <2>6, <2>7, BecomeCopy
<1> QED
  BY <1>3, <1>4 DEF OpenSource

\* What has the data of the file being copied, at its place, is its copy.
LEMMA NowArrived ==
  ASSUME NEW r, order' = order, NEW p, NEW q \in DOMAIN disk',
         disk'[q].type # "dir", disk'[q].data = Disk[p].data, Placed(r, q, p)
  PROVE  Arrived(r, p)'
<1>1. Placed(r, q, p)'
  BY SamePlaces
<1>2. Copied(r, p, q)'
  BY <1>1 DEF Copied, Holds
<1> QED
  BY <1>2 DEF Arrived

\* A rename has the file at its place.
LEMMA MoveFileCopy ==
  ASSUME LocalIInv, LocalIInv', NEW r \in Requests, Copying(r), Fits(r), CopyOK(r), Contract(r),
         MoveFile(r)
  PROVE  CopyOK(r)'
<1> DEFINE f == Top(r)
<1>1. At(r, "place") /\ "place" \in Early
  BY DEF MoveFile, Early
<1> PICK a : a = f.from
  OBVIOUS
<1>2. /\ TreeOK(disk) /\ f.from \in Path /\ f.to \in Path /\ Placed(r, f.to, f.from)
      /\ f.from \in DOMAIN disk /\ disk[f.from].type # "dir" /\ disk[f.from] = Disk[f.from]
      /\ \A p \in Sources(r) : IsPrefix(f.from, p) => p = f.from
  BY <1>1, CopyTop, OneFile
<1>3. CASE Refuse(r)
  BY <1>1, <1>3, RefuseCopy DEF Refuse
<1>4. CASE CanRename(f.from, f.to) /\ Relocate(f.from, f.to) /\ Return(r)
  <2>1. order' = order
    BY <1>4 DEF Return
  <2>2. f.to \in DOMAIN disk' /\ disk'[f.to] = disk[f.from]
    <3>1. f.from \in Below(f.from)
      BY <1>2, PrefixItself DEF Below
    <3>2. Under(f.to, f.from, f.from) = f.to
      BY <1>2, UnderSelf
    <3> QED
      BY <1>2, <1>4, <3>1, <3>2, RelocateMeans
  <2>3. Arrived(r, a)'
    BY <1>2, <2>1, <2>2, NowArrived
  <2>4. \A q \in DOMAIN disk : \/ q \in DOMAIN disk' /\ disk'[q] = disk[q]
                               \/ IsPrefix(f.from, q) \/ q = f.to
    BY <1>2, <1>4, RelocateSpares
  <2>5. ASSUME NEW p \in Sources(r) \cap DOMAIN disk, p \notin DOMAIN disk'
        PROVE  Arrived(r, p)'
    BY <1>2, <2>2, <2>3, <2>4, <2>5
  <2>6. Spares(r)
    BY <1>1, <2>1, <2>4, <2>5, SparesOther
  <2>7. \A p \in Sources(r) \cap DOMAIN disk' : IsPrefix(f.from, p) => Arrived(r, p)'
    BY <1>2, <2>3
  <2> QED
    BY <1>1, <1>4, <2>6, <2>7, ReturnCopy DEF Expected
<1> QED
  BY <1>3, <1>4 DEF MoveFile

\* os.Create empties nothing that has arrived.
LEMMA CreateCopy ==
  ASSUME LocalIInv, LocalIInv', NEW r \in Requests, Copying(r), Fits(r), CopyOK(r), Contract(r),
         Create(r)
  PROVE  CopyOK(r)'
<1>1. /\ At(r, "create") /\ "create" \in Early /\ "stream" \in Early
      /\ "stream" \in Steps \ {"entries"}
  BY DEF Create, Early, Steps
<1>2. /\ Top(r) \in Frames /\ Knows(r, Top(r)) /\ Top(r).at = "create"
      /\ Top(r).from \in DOMAIN disk /\ disk[Top(r).from].type # "dir" /\ Top(r).to # Top(r).from
  BY <1>1, CopyTop, OneFile
<1>3. CASE Refuse(r)
  BY <1>1, <1>3, RefuseCopy DEF Refuse
<1>4. CASE WriteTo(Top(r).to, Torn) /\ Goto(r, "stream")
  <2>1. PICK f : f = [Top(r) EXCEPT !.at = "stream"]
    OBVIOUS
  <2>2. f.at = "stream" /\ f.to = Top(r).to /\ f.from = Top(r).from /\ f.data = Top(r).data
    BY <1>2, <2>1 DEF Frames
  <2>3. Knows(r, f)'
    BY <1>2, <1>4, <2>2, WriteToMeans DEF Knows, Holds
  <2>4. Reads(f)'
    BY <1>2, <1>4, <2>2, WriteToMeans DEF Reads
  <2>5. \A q \in DOMAIN disk : q \in DOMAIN disk' /\ (q # Top(r).to => disk'[q] = disk[q])
    BY <1>4, WriteToMeans
  <2>6. order' = order
    BY <1>4 DEF Goto, Become
  <2>7. Spares(r)
    BY <1>1, <2>5, <2>6, SparesOther
  <2> QED
    BY <1>1, <1>4, <2>1, <2>3, <2>4, <2>7, GotoCopy
<1> QED
  BY <1>3, <1>4 DEF Create

\* A copy that ends well is whole.
LEMMA StreamCopy ==
  ASSUME LocalIInv, LocalIInv', NEW r \in Requests, Copying(r), Fits(r), CopyOK(r), Contract(r),
         Stream(r)
  PROVE  CopyOK(r)'
<1>1. At(r, "stream") /\ "stream" \in Early /\ "unlink" \in Steps \ (Early \cup {"entries"})
  BY DEF Stream, Early, Steps
<1> PICK a : a = Top(r).from
  OBVIOUS
<1>2. /\ Top(r) \in Frames /\ TreeOK(disk) /\ Knows(r, Top(r)) /\ Top(r).at = "stream"
      /\ Placed(r, Top(r).to, Top(r).from)
      /\ \A p \in Sources(r) : IsPrefix(Top(r).from, p) => p = Top(r).from
  BY <1>1, CopyTop, OneFile
<1>3. Holds(Top(r).to, Torn) /\ Top(r).data = Disk[Top(r).from].data /\ Top(r).from \in DOMAIN Disk
  BY <1>2 DEF Knows
<1>4. CASE Filled(r)
  <2>1. TypeOf(Top(r).to) \in {"file", "link"}
    <3>1. Top(r).to \in DOMAIN disk /\ disk[Top(r).to].type \in {"file", "link"} /\ Top(r).to # Root
      BY <1>2, <1>3 DEF Holds, TreeOK, Node
    <3> QED
      BY <3>1 DEF TypeOf, Exists
  <2>2. WriteTo(Top(r).to, Top(r).data) /\ (Goto(r, "unlink") \/ Return(r))
    BY <1>4, <2>1 DEF Filled
  <2>3. order' = order
    BY <2>2 DEF Goto, Become, Return
  <2>4. Arrived(r, a)'
    BY <1>2, <1>3, <2>2, <2>3, NowArrived, WriteToMeans
  <2>5. \A q \in DOMAIN disk : q \in DOMAIN disk' /\ (q # Top(r).to => disk'[q] = disk[q])
    BY <2>2, WriteToMeans
  <2>6. Spares(r)
    BY <1>1, <2>3, <2>5, SparesOther
  <2>7. CASE Goto(r, "unlink")
    <3>1. PICK f : f = [Top(r) EXCEPT !.at = "unlink"]
      OBVIOUS
    <3>2. f.at = "unlink" /\ f.to = Top(r).to /\ f.from = Top(r).from /\ f.data = Top(r).data
      BY <1>2, <3>1 DEF Frames
    <3>3. Knows(r, f)'
      BY <1>3, <2>2, <3>2, WriteToMeans DEF Knows, Holds
    <3>4. Reads(f)'
      BY <1>1, <3>2 DEF Reads
    <3> QED
      BY <1>1, <2>4, <2>6, <2>7, <3>1, <3>2, <3>3, <3>4, GotoCopy
  <2>8. CASE Return(r)
    <3>1. \A p \in Sources(r) \cap DOMAIN disk' : IsPrefix(Top(r).from, p) => Arrived(r, p)'
      BY <1>2, <2>4
    <3> QED
      BY <1>1, <2>6, <2>8, <3>1, ReturnCopy DEF Expected
  <2> QED
    BY <2>2, <2>7, <2>8
<1>5. CASE (IF CanRemove(Top(r).to) THEN Delete({Top(r).to}) ELSE UNCHANGED disk) /\ Fail(r)
  <2>1. CASE UNCHANGED disk
    BY <1>1, <1>5, <2>1, RefuseCopy
  <2>2. CASE Delete({Top(r).to})
    <3>1. \A q \in DOMAIN disk : q # Top(r).to => q \in DOMAIN disk' /\ disk'[q] = disk[q]
      BY <2>2 DEF Delete
    <3>2. ASSUME NEW p \in Sources(r)
          PROVE  p # Top(r).to
      <4>1. IsPrefix(order[r].from, p) /\ p \in Path
        BY SourceMeans
      <4> QED
        BY <1>1, <4>1, CopyTop
    <3>3. order' = order
      BY <1>5 DEF Fail
    <3>4. Spares(r)
      BY <1>1, <3>1, <3>2, <3>3, SparesOther
    <3> QED
      BY <1>1, <1>5, <3>4, FailCopy
  <2> QED
    BY <1>5, <2>1, <2>2
<1> QED
  BY <1>4, <1>5 DEF Stream, Refuse

\* What a move between file systems removes has arrived.
LEMMA UnlinkCopy ==
  ASSUME LocalIInv, LocalIInv', NEW r \in Requests, Copying(r), Fits(r), CopyOK(r), Contract(r),
         Unlink(r)
  PROVE  CopyOK(r)'
<1> DEFINE f == Top(r)
<1>1. At(r, "unlink")
  BY DEF Unlink
<1> PICK a : a = f.from
  OBVIOUS
<1>2. /\ TreeOK(disk) /\ f.from \in Path /\ f.to \in Path /\ f.at = "unlink"
      /\ IsPrefix(order[r].from, f.from) /\ Stands(order[r].to, f.to) /\ Knows(r, f)
      /\ Placed(r, f.to, f.from) /\ order[r].from \in Path
  BY <1>1, CopyTop
<1>3. CASE Refuse(r)
  BY <1>1, <1>3, RefuseCopy DEF Refuse
<1>4. CASE CanRemove(f.from) /\ Delete({f.from}) /\ Return(r)
  <2>1. /\ DOMAIN disk' = DOMAIN disk \ {f.from} /\ order' = order
        /\ \A q \in DOMAIN disk' : disk'[q] = disk[q]
    BY <1>4 DEF Delete, Return
  <2>2. \A q \in DOMAIN disk : IsPrefix(f.from, q) => q = f.from
    BY <1>2, <1>4, EntryBelow DEF CanRemove
  <2>3. Arrived(r, a)'
    <3>1. f.to # f.from
      BY <1>1, <1>2, CopyTop
    <3>2. Holds(f.to, Disk[f.from].data)
      BY <1>2 DEF Knows
    <3>3. f.to \in DOMAIN disk' /\ disk'[f.to] = disk[f.to]
      BY <2>1, <3>1, <3>2 DEF Holds
    <3> QED
      BY <1>2, <2>1, <3>2, <3>3, NowArrived DEF Holds
  <2>4. \A q \in DOMAIN disk : \/ q \in DOMAIN disk' /\ disk'[q] = disk[q]
                               \/ IsPrefix(f.from, q)
    BY <1>2, <2>1, PrefixItself
  <2>5. \A p \in Sources(r) \cap DOMAIN disk : p \notin DOMAIN disk' => Arrived(r, p)'
    BY <2>1, <2>3
  <2>6. Spares(r)
    BY <1>1, <2>1, <2>4, <2>5, SparesOther
  <2>7. \A p \in Sources(r) \cap DOMAIN disk' : IsPrefix(f.from, p) => Arrived(r, p)'
    BY <2>1, <2>2
  <2> QED
    BY <1>1, <1>4, <2>6, <2>7, ReturnCopy DEF Expected
<1> QED
  BY <1>3, <1>4 DEF Unlink

\* copyDir looks at its destination and goes by the policy.
LEMMA CopyDirCopy ==
  ASSUME LocalIInv, LocalIInv', NEW r \in Requests, Copying(r), Fits(r), CopyOK(r), Contract(r),
         CopyDir(r)
  PROVE  CopyOK(r)'
<1>1. /\ At(r, "dir") /\ UNCHANGED disk /\ "dir" \notin Early
      /\ {"list", "mkdir"} \subseteq Steps \ (Early \cup {"entries"})
  BY DEF CopyDir, Early, Steps
<1>2. /\ Top(r) \in Frames /\ Top(r).to \in Path /\ Top(r).from \in Path
      /\ Placed(r, Top(r).to, Top(r).from) /\ Top(r).to # Root
      /\ order[r].from \in Path /\ order[r].to \in Path /\ IsPrefix(order[r].from, Top(r).from)
  BY <1>1, CopyTop
<1>3. CASE Fail(r)
  BY <1>1, <1>3, RefuseCopy
<1>4. ASSUME NEW next \in {"list", "mkdir"}, Goto(r, next)
      PROVE  CopyOK(r)'
  <2>1. PICK f : f = [Top(r) EXCEPT !.at = next]
    OBVIOUS
  <2>2. f.at = next
    BY <1>2, <2>1 DEF Frames
  <2>3. Knows(r, f)' /\ Reads(f)'
    BY <1>1, <2>2 DEF Knows, Reads
  <2>4. Spares(r)
    BY <1>1, <1>4, SparesUnchanged DEF Goto, Become
  <2>5. next \in Steps \ {"entries"} /\ next \notin Early
    BY <1>1
  <2> QED
    BY <1>1, <1>4, <2>1, <2>3, <2>4, <2>5, GotoCopy
<1>5. CASE /\ Policy(r) = "rename" /\ ~ IsDir(Top(r).to)
           /\ Become(r, [Top(r) EXCEPT !.to = UniqueLocalDest(Top(r).to), !.at = "mkdir"])
  <2>1. "mkdir" \in Early <=> "dir" \in Early
    BY DEF Early
  <2> QED
    BY <1>1, <1>5, <2>1, BesideCopy
<1>6. CASE Exists(Top(r).to) /\ ~ IsDir(Top(r).to) /\ Policy(r) = "skip" /\ Return(r)
  <2>1. Spares(r) /\ order' = order
    BY <1>1, <1>6, SparesUnchanged DEF Return
  <2>2. PICK q : q = Top(r).to
    OBVIOUS
  <2>3. q \in DOMAIN disk /\ disk[q].type # "dir" /\ q = Place(r, Top(r).from)
    BY <1>2, <1>6, <2>2 DEF Placed, Exists, IsDir, TypeOf
  <2>4. ASSUME NEW p \in Sources(r) \cap DOMAIN disk', IsPrefix(Top(r).from, p)
        PROVE  Arrived(r, p)'
    <3>1. p \in Path
      BY <2>4, SourceMeans
    <3>2. IsPrefix(order[r].to, q) /\ IsPrefix(q, Place(r, p))
      BY <1>2, <2>3, <2>4, <3>1, PlaceMeans, UnderKeeps DEF Place
    <3>3. InTheWay(r, p, q)
      BY <1>6, <2>3, <3>2 DEF InTheWay
    <3> QED
      BY <1>1, <2>1, <2>3, <3>3, WitnessStays
  <2> QED
    BY <1>1, <1>6, <2>1, <2>4, ReturnCopy DEF Expected
<1> QED
  BY <1>2, <1>3, <1>4, <1>5, <1>6 DEF CopyDir

\* A new folder is in the way of nothing that has arrived.
LEMMA MakeDirCopy ==
  ASSUME LocalIInv, LocalIInv', NEW r \in Requests, Copying(r), Fits(r), CopyOK(r), Contract(r),
         MakeDir(r)
  PROVE  CopyOK(r)'
<1>1. At(r, "mkdir") /\ "list" \in Steps \ (Early \cup {"entries"}) /\ "mkdir" \notin Early
  BY DEF MakeDir, Early, Steps
<1>2. Top(r) \in Frames
  BY <1>1, CopyTop
<1>3. CASE Refuse(r)
  BY <1>1, <1>3, RefuseCopy DEF Refuse
<1>4. CASE CanMkdir(Top(r).to) /\ Put(Top(r).to, Folder) /\ Goto(r, "list")
  <2>1. PICK f : f = [Top(r) EXCEPT !.at = "list"]
    OBVIOUS
  <2>2. f.at = "list"
    BY <1>2, <2>1 DEF Frames
  <2>3. Knows(r, f)' /\ Reads(f)'
    BY <1>1, <2>2 DEF Knows, Reads
  <2>4. \A q \in DOMAIN disk : q \in DOMAIN disk' /\ disk'[q] = disk[q]
    BY <1>4 DEF CanMkdir, Exists, Put
  <2>5. order' = order
    BY <1>4 DEF Goto, Become
  <2>6. Spares(r)
    BY <1>1, <2>4, <2>5, SparesOther
  <2> QED
    BY <1>1, <1>4, <2>1, <2>3, <2>6, GotoCopy
<1> QED
  BY <1>3, <1>4 DEF MakeDir

\* The list of a folder leads to all that is below.
LEMMA ReadDirCopy ==
  ASSUME LocalIInv, LocalIInv', NEW r \in Requests, Copying(r), Fits(r), CopyOK(r), Contract(r),
         ReadDir(r)
  PROVE  CopyOK(r)'
<1>1. At(r, "list") /\ UNCHANGED disk /\ "entries" \in Steps \ Early /\ "list" \notin Early
  BY DEF ReadDir, Early, Steps
<1>2. /\ Top(r) \in Frames /\ TreeOK(disk) /\ Top(r).from \in Path /\ Shrinks(r)
      /\ Placed(r, Top(r).to, Top(r).from)
      /\ order[r].from \in Path /\ order[r].to \in Path /\ IsPrefix(order[r].from, Top(r).from)
  BY <1>1, CopyTop
<1>3. CASE Fail(r)
  BY <1>1, <1>3, RefuseCopy
<1>4. CASE /\ IsDir(Top(r).from)
           /\ Become(r, [Top(r) EXCEPT !.at = "entries", !.todo = Children(Top(r).from)])
  <2>1. PICK f : f = [Top(r) EXCEPT !.at = "entries", !.todo = Children(Top(r).from)]
    OBVIOUS
  <2>2. /\ f \in Frames /\ f.at = "entries" /\ f.from = Top(r).from /\ f.to = Top(r).to
        /\ f.todo = Children(Top(r).from)
    <3>1. Children(Top(r).from) \in SUBSET Path
      BY <1>2 DEF Children, Below, TreeOK
    <3> QED
      BY <1>1, <1>2, <2>1, <3>1 DEF Frames
  <2>3. ASSUME NEW p \in Sources(r) \cap DOMAIN disk', IsPrefix(f.from, p)
        PROVE  \E c \in f.todo : IsPrefix(c, p)
    <3>1. p \in DOMAIN disk /\ p \in Path /\ disk[p].type = "file" /\ p # Root
      <4>1. p \in DOMAIN disk /\ p \in Path /\ IsPrefix(order[r].from, p) /\ Disk[p].type = "file"
        BY <1>1, <2>3, SourceMeans
      <4>2. disk[p] = Disk[p]
        BY <1>2, <4>1 DEF Shrinks
      <4> QED
        BY <1>2, <4>1, <4>2 DEF TreeOK
    <3>2. p # f.from
      BY <1>4, <2>2, <3>1 DEF IsDir, TypeOf, Exists
    <3>3. PICK c \in Path : IsPrefix(f.from, c) /\ Len(c) = Len(f.from) + 1 /\ IsPrefix(c, p) /\ c # Root
      BY <1>2, <2>2, <2>3, <3>1, <3>2, EntryTowards
    <3>4. c \in DOMAIN disk
      BY <1>2, <3>1, <3>3 DEF TreeOK, FolderIn
    <3> QED
      BY <2>2, <3>3, <3>4 DEF Children, Below
  <2>4. Knows(r, f)' /\ Reads(f)'
    BY <1>1, <2>2 DEF Knows, Reads
  <2>5. Spares(r)
    BY <1>1, <1>4, SparesUnchanged DEF Become
  <2>6. Become(r, f) /\ f.at \notin Early /\ Placed(r, f.to, f.from)
    BY <1>1, <1>2, <1>4, <2>1, <2>2
  <2>7. Expected(r)' \subseteq Sources(r)
    BY <1>4, FewerSources DEF Become, Contract, Expected
  <2> QED
    BY <1>1, <2>2, <2>3, <2>4, <2>5, <2>6, <2>7, BecomeCopy
<1> QED
  BY <1>3, <1>4 DEF ReadDir

\* What a move passed over is no source of it.
LEMMA MoveExpects ==
  ASSUME NEW r \in Requests, Moving(r)
  PROVE  Expected(r) = Sources(r)
BY DEF Expected, Sources, LeftBehind

\* A folder is done, and removed by a move, when all of it has arrived.
LEMMA EndDirCopy ==
  ASSUME LocalIInv, LocalIInv', NEW r \in Requests, Copying(r), Fits(r), CopyOK(r), Contract(r),
         EndDir(r)
  PROVE  CopyOK(r)'
<1>1. At(r, "entries") /\ Top(r).todo = {}
  BY DEF EndDir
<1>2. /\ Top(r).from \in Path /\ \A p : ~ AtRisk(r, p)
      /\ \A p \in Expected(r) \cap DOMAIN disk : IsPrefix(Top(r).from, p) => Arrived(r, p)
  BY <1>1, CopyTop DEF AtRisk, Early
<1>3. CASE Refuse(r)
  BY <1>1, <1>3, RefuseCopy DEF Refuse
<1>4. CASE Return(r) /\ UNCHANGED disk
  <2>1. Spares(r)
    BY <1>4, SparesUnchanged DEF Return
  <2>2. \A p \in Expected(r) \cap DOMAIN disk' : IsPrefix(Top(r).from, p) => Arrived(r, p)'
    BY <1>2, <1>4, <2>1 DEF Spares, Expected
  <2> QED
    BY <1>1, <1>4, <2>1, <2>2, ReturnCopy
<1>5. CASE Moving(r) /\ Delete(Below(Top(r).from)) /\ Return(r)
  <2>1. /\ DOMAIN disk' = DOMAIN disk \ Below(Top(r).from) /\ order' = order
        /\ \A q \in DOMAIN disk' : disk'[q] = disk[q]
    BY <1>5 DEF Delete, Return
  <2>2. \A q \in DOMAIN disk : \/ q \in DOMAIN disk' /\ disk'[q] = disk[q]
                               \/ IsPrefix(Top(r).from, q)
    BY <2>1 DEF Below
  <2>3. ASSUME NEW p \in Sources(r) \cap DOMAIN disk, p \notin DOMAIN disk'
        PROVE  Arrived(r, p)'
    <3>1. Arrived(r, p) /\ ~ AtRisk(r, p)
      BY <1>2, <1>5, <2>1, <2>3, MoveExpects DEF Below
    <3>2. PICK q \in DOMAIN disk : Copied(r, p, q) \/ InTheWay(r, p, q)
      BY <3>1 DEF Arrived
    <3>3. q \in DOMAIN disk' /\ disk'[q] = disk[q]
      BY <1>1, <2>2, <3>1, <3>2, NotOnArrived
    <3> QED
      BY <2>1, <3>2, <3>3, WitnessStays
  <2>4. Spares(r)
    BY <1>1, <2>1, <2>2, <2>3, SparesOther
  <2>5. \A p \in Expected(r) \cap DOMAIN disk' : IsPrefix(Top(r).from, p) => Arrived(r, p)'
    BY <1>2, <2>1 DEF Below
  <2> QED
    BY <1>1, <1>5, <2>4, <2>5, ReturnCopy
<1> QED
  BY <1>3, <1>4, <1>5 DEF EndDir

\* An entry is passed over that leads to no file, or becomes the call.
LEMMA EntryCopy ==
  ASSUME LocalIInv, LocalIInv', NEW r \in Requests, Copying(r), Fits(r), CopyOK(r), Contract(r),
         Entry(r)
  PROVE  CopyOK(r)'
<1>1. At(r, "entries") /\ UNCHANGED disk /\ "entries" \notin Early
  BY DEF Entry, Early
<1>2. /\ Top(r) \in Frames /\ LocalIInv /\ StackOK /\ TreeOK(disk) /\ Top(r).from \in Path
      /\ Top(r).to \in Path /\ Top(r).at = "entries" /\ result[r] = "running"
      /\ order[r].from \in Path /\ order[r].to \in Path /\ Underway(r) /\ Shrinks(r)
      /\ IsPrefix(order[r].from, Top(r).from) /\ Placed(r, Top(r).to, Top(r).from)
      /\ \A p \in Expected(r) \cap DOMAIN disk : IsPrefix(Top(r).from, p) =>
           Arrived(r, p) \/ \E c \in Top(r).todo : IsPrefix(c, p)
      /\ \A c \in Top(r).todo : IsPrefix(Top(r).from, c)
  BY <1>1, CopyTop
<1>3. PICK c, rest, to :
        /\ c \in Top(r).todo
        /\ rest = [Top(r) EXCEPT !.todo = @ \ {c}] /\ to = Under(Top(r).to, Top(r).from, c)
        /\ \/ TypeOf(c) \in {"none", "link"} /\ Become(r, rest)
           \/ Become(r, rest) /\ passed' = [passed EXCEPT ![r] = @ \cup {c}]
           \/ \E stage \in {"dir", "file"} :
                /\ TypeOf(c) = stage
                /\ stack' = [stack EXCEPT ![r] = Append(Append(Front(@), rest), Frame(stage, c, to))]
                /\ UNCHANGED <<order, result>>
  BY DEF Entry
<1>4. /\ rest \in Frames /\ rest.at = "entries" /\ rest.from = Top(r).from /\ rest.to = Top(r).to
      /\ rest.todo = Top(r).todo \ {c} /\ c \in Path /\ IsPrefix(Top(r).from, c)
  BY <1>2, <1>3 DEF Frames
<1>5. /\ order' = order /\ Spares(r)
      /\ \A p \in Sources(r) : Arrived(r, p) => Arrived(r, p)'
      /\ Sources(r)' \subseteq Sources(r) /\ Expected(r)' \subseteq Expected(r)
  <2>1. order' = order
    BY <1>3 DEF Become
  <2>2. \A p : ~ AtRisk(r, p)
    BY <1>1, <1>2 DEF AtRisk
  <2> QED
    BY <1>1, <2>1, <2>2, SparesUnchanged, FewerSources DEF Spares, Contract
\* What the list still leads to, but for what lies at or below c.
<1>6. ASSUME NEW p \in Expected(r)', p \in DOMAIN disk', IsPrefix(Top(r).from, p), ~ IsPrefix(c, p)
      PROVE  Arrived(r, p)' \/ \E x \in rest.todo : IsPrefix(x, p)
  <2>1. p \in Expected(r) /\ p \in Sources(r) /\ p \in DOMAIN disk
    BY <1>1, <1>5, <1>6 DEF Expected
  <2> QED
    BY <1>2, <1>4, <1>5, <1>6, <2>1
\* An entry that is passed over leads to no file that is expected.
<1>7. ASSUME Become(r, rest), \A p \in Expected(r)' : p \in DOMAIN disk => ~ IsPrefix(c, p)
      PROVE  CopyOK(r)'
  <2>1. Knows(r, rest)' /\ Reads(rest)'
    BY <1>1, <1>4 DEF Knows, Reads
  <2>2. \A p \in Expected(r)' \cap DOMAIN disk' : IsPrefix(rest.from, p) =>
          Arrived(r, p)' \/ \E x \in rest.todo : IsPrefix(x, p)
    <3>1. ASSUME NEW p \in Expected(r)', p \in DOMAIN disk', IsPrefix(rest.from, p)
          PROVE  Arrived(r, p)' \/ \E x \in rest.todo : IsPrefix(x, p)
      <4>1. ~ IsPrefix(c, p)
        BY <1>1, <1>7, <3>1
      <4> QED
        BY <1>4, <1>6, <3>1, <4>1
    <3> QED
      BY <3>1
  <2>3. Placed(r, rest.to, rest.from) /\ rest.at \notin Early
    BY <1>1, <1>2, <1>4
  <2> QED
    BY <1>1, <1>4, <1>5, <1>7, <2>1, <2>2, <2>3, BecomeCopy
<1>8. CASE TypeOf(c) \in {"none", "link"} /\ Become(r, rest)
  <2>1. ASSUME NEW p \in Expected(r) \cap DOMAIN disk
        PROVE  ~ IsPrefix(c, p)
    <3> SUFFICES ASSUME IsPrefix(c, p)
                 PROVE  FALSE
      OBVIOUS
    <3>1. p \in Path /\ disk[p].type = "file" /\ p # Root
      <4>1. p \in Path /\ IsPrefix(order[r].from, p) /\ Disk[p].type = "file"
        BY SourceMeans DEF Expected
      <4> QED
        BY <1>2, <4>1 DEF Shrinks, TreeOK
    <3>2. CASE c = p
      BY <1>8, <3>1, <3>2 DEF TypeOf, Exists
    <3>3. CASE c # p
      <4>1. FolderIn(disk, c)
        BY <1>2, <1>4, <3>3 DEF TreeOK
      <4> QED
        BY <1>8, <4>1 DEF FolderIn, TypeOf, Exists
    <3> QED
      BY <3>2, <3>3
  <2>2. \A p \in Expected(r)' : p \in DOMAIN disk => ~ IsPrefix(c, p)
    BY <1>5, <2>1
  <2> QED
    BY <1>7, <1>8, <2>2
<1>9. CASE Become(r, rest) /\ passed' = [passed EXCEPT ![r] = @ \cup {c}]
  <2>1. c \in passed'[r]
    BY <1>2, <1>9 DEF LocalIInv, PassedOK
  <2>2. \A p \in Expected(r)' : ~ IsPrefix(c, p)
    BY <2>1 DEF Expected, Sources, PassedOver
  <2> QED
    BY <1>7, <1>9, <2>2
<1>10. ASSUME NEW stage \in {"dir", "file"}, TypeOf(c) = stage,
             stack' = [stack EXCEPT ![r] = Append(Append(Front(@), rest), Frame(stage, c, to))],
             UNCHANGED <<order, result>>
      PROVE  CopyOK(r)'
  <2>1. to \in Path
    BY <1>1, <1>2, <1>3, EntryPlace
  <2>2. PICK f : f = Frame(stage, c, to)
    OBVIOUS
  <2>3. f \in Frames /\ f.at = stage /\ f.from = c /\ f.to = to
    BY <1>4, <2>1, <2>2, FrameTyped DEF Steps
  <2>4. PICK s : s = stack[r] /\ s \in Seq(Frames) /\ s # <<>>
    BY <1>2 DEF StackOK
  <2>5. PICK t : t = Append(Front(s), rest)
    OBVIOUS
  <2>6. /\ t \in Seq(Frames) /\ Len(s) \in Nat \ {0} /\ Len(t) = Len(s) /\ t[Len(s)] = rest
        /\ \A i \in 1 .. Len(s) - 1 : t[i] = s[i]
    BY <1>4, <2>4, <2>5, StackPlaces, StackMeans
  <2>7. PICK u : u = Append(t, f)
    OBVIOUS
  <2>8. /\ u \in Seq(Frames) /\ Len(u) = Len(s) + 1 /\ u[Len(s) + 1] = f
        /\ \A i \in 1 .. Len(s) : u[i] = t[i]
    BY <2>3, <2>6, <2>7, AppendProperties
  <2>9. /\ stack'[r] = u /\ result'[r] = "running" /\ Top(r)' = f
        /\ Policy(r)' = Policy(r)
        /\ \A q, p : Placed(r, q, p)' <=> Placed(r, q, p)
    <3>1. stack'[r] = u /\ result'[r] = "running"
      BY <1>2, <1>10, <2>2, <2>4, <2>5, <2>7 DEF StackOK
    <3>2. Top(r)' = f
      BY <2>6, <2>8, <3>1 DEF Top, Last
    <3> QED
      BY <1>5, <3>1, <3>2, SamePlaces
  <2>10. WalkedAt(r, u, Len(s) + 1)'
    <3>1. Placed(r, f.to, f.from)
      BY <1>2, <1>3, <1>4, <2>1, <2>3, PlacedBelow
    <3>2. u[Len(s) + 1] = f /\ ~ (Len(s) + 1 < Len(u)) /\ f.at # "entries"
      BY <2>3, <2>6, <2>8
    <3> QED
      BY <2>9, <3>1, <3>2 DEF WalkedAt
  <2>11. ASSUME NEW i \in 1 .. Len(s)
         PROVE  WalkedAt(r, u, i)'
    <3>1. WalkedAt(r, s, i) /\ u[i] = t[i]
      BY <1>2, <2>4, <2>8, <2>11 DEF Underway
    <3>2. CASE i = Len(s)
      <4>1. u[i] = rest /\ u[i + 1] = f
        BY <2>6, <2>8, <3>1, <3>2
      <4>2. \A p \in Expected(r)' \cap DOMAIN disk' : IsPrefix(rest.from, p) =>
              Arrived(r, p)' \/ (\E x \in rest.todo : IsPrefix(x, p)) \/ IsPrefix(f.from, p)
        BY <1>4, <1>6, <2>3
      <4>3. i < Len(u) /\ Placed(r, rest.to, rest.from)
        BY <1>2, <1>4, <2>6, <2>8, <3>2
      <4> QED
        BY <1>4, <1>5, <2>9, <4>1, <4>2, <4>3 DEF WalkedAt
    <3>3. CASE i # Len(s)
      <4>1. /\ i \in 1 .. Len(s) - 1 /\ i < Len(s) /\ i < Len(u) /\ i + 1 \in 1 .. Len(s)
        BY <2>6, <2>8, <3>3
      <4>2. u[i] = s[i] /\ u[i + 1].from = s[i + 1].from
        <5>1. CASE i + 1 = Len(s)
          <6>1. s[i + 1] = Top(r)
            BY <2>4, <5>1 DEF Top, Last
          <6>2. u[i + 1] = rest
            BY <2>6, <2>8, <4>1, <5>1
          <6> QED
            BY <1>4, <2>6, <3>1, <4>1, <6>1, <6>2
        <5>2. CASE i + 1 # Len(s)
          <6>1. i + 1 \in 1 .. Len(s) - 1
            BY <2>6, <4>1, <5>2
          <6> QED
            BY <2>6, <2>8, <4>1, <6>1
        <5> QED
          BY <5>1, <5>2
      <4>3. s[i].at = "entries" /\ Placed(r, s[i].to, s[i].from)
        BY <3>1, <4>1 DEF WalkedAt
      <4>4. ASSUME NEW p \in Expected(r)', p \in DOMAIN disk', IsPrefix(s[i].from, p)
            PROVE  \/ Arrived(r, p)' \/ (\E x \in s[i].todo : IsPrefix(x, p))
                   \/ IsPrefix(s[i + 1].from, p)
        <5>1. ~ AtRisk(r, p)
          BY <1>1, <1>2 DEF AtRisk
        <5>2. p \in Expected(r) /\ p \in Sources(r) /\ p \in DOMAIN disk
          BY <1>1, <1>5, <4>4 DEF Expected
        <5> QED
          BY <1>5, <3>1, <4>1, <4>3, <4>4, <5>1, <5>2 DEF WalkedAt
      <4>5. u[i].at = "entries" /\ u[i].from = s[i].from /\ u[i].todo = s[i].todo
        BY <4>2, <4>3
      <4>6. \A p \in Expected(r)' \cap DOMAIN disk' : IsPrefix(u[i].from, p) =>
              \/ Arrived(r, p)' \/ \E x \in u[i].todo : IsPrefix(x, p)
              \/ i < Len(u) /\ IsPrefix(u[i + 1].from, p)
        BY <4>1, <4>2, <4>4, <4>5
      <4> QED
        BY <2>9, <4>1, <4>2, <4>3, <4>5, <4>6 DEF WalkedAt
    <3> QED
      BY <3>2, <3>3
  <2>12. Knows(r, f)' /\ Reads(f)'
    <3>1. Knows(r, f)'
      BY <2>3 DEF Knows
    <3>2. Reads(f)'
      BY <1>1, <1>4, <1>10, <2>3 DEF Reads, Early, TypeOf, Exists
    <3> QED
      BY <3>1, <3>2
  <2>13. stack'[r][1].from = order'[r].from
    <3>1. s[1].from = order[r].from /\ u[1] = t[1]
      BY <1>2, <2>4, <2>6, <2>8 DEF Underway
    <3>2. t[1].from = s[1].from
      <4>1. CASE Len(s) = 1
        BY <1>4, <2>4, <2>6, <4>1 DEF Top, Last
      <4>2. CASE Len(s) # 1
        <5>1. 1 \in 1 .. Len(s) - 1
          BY <2>6, <4>2
        <5> QED
          BY <2>6, <5>1
      <4> QED
        BY <4>1, <4>2
    <3> QED
      BY <1>5, <2>9, <3>1, <3>2
  <2>14. \A i \in 1 .. Len(u) : WalkedAt(r, u, i)'
    <3>1. \A i \in 1 .. Len(u) : i \in 1 .. Len(s) \/ i = Len(s) + 1
      BY <2>6, <2>8
    <3> QED
      BY <2>10, <2>11, <3>1
  <2>15. ~ IsPrefix(order'[r].from, order'[r].to)
    BY <1>2, <1>5 DEF Underway
  <2>16. Underway(r)'
    BY <2>9, <2>12, <2>13, <2>14, <2>15 DEF Underway
  <2>17. Shrinks(r)' /\ \A p \in Sources(r) : p \in DOMAIN disk' \/ Arrived(r, p)'
    BY <1>1, <1>5, SourceStays, StillThere
  <2> QED
    BY <1>5, <2>9, <2>16, <2>17 DEF CopyOK
<1> QED
  BY <1>3, <1>8, <1>9, <1>10

\* A step of a copy or move.
LEMMA CopyActs ==
  ASSUME LocalIInv, LocalIInv', NEW r \in Requests, Copying(r), Fits(r), CopyOK(r), Acts(r)
  PROVE  CopyOK(r)'
<1>1. Contract(r)
  BY ActsContract
<1>2. \A ops : order[r].op \notin ops => ~ Begins(r, ops)
  BY DEF Begins
<1>3. ~ Write(r) /\ ~ Simple(r)
  BY <1>2 DEF Write, Simple, Copying
<1> QED
  BY <1>1, <1>3, StartCopy, CopyFileCopy, MoveFileCopy, OpenSourceCopy, CreateCopy, StreamCopy,
     UnlinkCopy, CopyDirCopy, MakeDirCopy, ReadDirCopy, EntryCopy, EndDirCopy
  DEF Acts

--------------------------------------------------------------------------
(* What the other requests leave to a copy or move *)

\* The orders are one of the wishes.
LEMMA NowSettled ==
  ASSUME StackOK, SettledWishes
  PROVE  Settles(order) /\ \A r \in Requests : Copying(r) => Fits(r)
<1>1. Settles(order)
  BY DEF StackOK, SettledWishes
<1> QED
  BY <1>1 DEF Settles, Copying, Fits

\* Who keeps off the source leaves it as it is.
LEMMA SourceLeft ==
  ASSUME LocalIInv, LocalIInv', NEW r \in Requests, NEW o \in Requests, Contract(o),
         KeepsOff(order[o], order[r].from), NEW q \in Path, IsPrefix(order[r].from, q)
  PROVE  /\ q \in DOMAIN disk => q \in DOMAIN disk' /\ disk'[q] = disk[q]
         /\ q \in DOMAIN disk' => q \in DOMAIN disk
<1>1. order[o].from \in Path /\ order[o].to \in Path /\ order[r].from \in Path
  BY OrderTyped DEF LocalIInv, Orders
<1>2. ~ Mine(o, q)
  BY <1>1, MeetHere DEF Mine, KeepsOff
<1>3. ASSUME order[o].op \in Taking, IsPrefix(order[o].from, q)
      PROVE  FALSE
  <2>1. Stands(order[o].from, q)
    BY <1>1, <1>3, StandsItself, StandsBelow
  <2> QED
    BY <1>1, <1>3, <2>1, MeetHere DEF KeepsOff
<1> QED
  BY <1>2, <1>3, NotTouched DEF Contract

\* Who writes elsewhere and takes nothing away leaves a place as it is.
LEMMA PlaceLeft ==
  ASSUME LocalIInv, NEW r \in Requests, NEW o \in Requests, Contract(o),
         order[o].op \notin Taking, ~ Meets(order[o].to, order[r].to),
         NEW q \in Path, Stands(order[r].to, q)
  PROVE  /\ q \in DOMAIN disk => q \in DOMAIN disk' /\ disk'[q] = disk[q]
         /\ q \in DOMAIN disk' => q \in DOMAIN disk
<1>1. order[o].to \in Path /\ order[r].to \in Path
  BY OrderTyped DEF LocalIInv, Orders
<1>2. ~ Mine(o, q)
  BY <1>1, MeetHere DEF Mine
<1> QED
  BY <1>2, NotTouched DEF Contract

\* Before a copy or move begins, what it waits for may do its work.
LEMMA BeforeCopy ==
  ASSUME LocalIInv, LocalIInv', TurnsOK, NEW r \in Requests, Copying(r), CopyOK(r),
         result[r] = "waiting", NEW o \in order[r].after, o \in Requests, o # r, Turn(o), Contract(o),
         KeepsOff(order[o], order[r].from), ~ Repeats(order, r, o)
  PROVE  CopyOK(r)'
<1>1. order' = order /\ result'[r] = "waiting" /\ Sources(r)' \subseteq Sources(r)
  BY FewerSources DEF Turn, Contract
<1>2. ASSUME NEW p \in Sources(r), p \notin DOMAIN disk
      PROVE  FALSE
  <2>1. PICK a \in order[r].after : Repeats(order, r, a) /\ result[a] # "waiting"
    BY <1>2 DEF CopyOK
  <2>2. a # o /\ o \in order[a].after /\ a \in Requests
    BY <2>1, OrderTyped DEF Repeats, Orders, LocalIInv
  <2>3. result[a] \in {"running", "ok", "error"} => result[o] \in {"ok", "error"}
    BY <2>2 DEF TurnsOK
  <2>4. result[a] # "died"
    BY <2>2 DEF TurnsOK, Turn
  <2>5. result[a] \in {"running", "ok", "error"}
    BY <2>1, <2>2, <2>4 DEF LocalIInv, StackOK
  <2> QED
    BY <2>3, <2>5 DEF Turn
<1>3. \A q \in Path : IsPrefix(order[r].from, q) =>
        /\ q \in DOMAIN disk => q \in DOMAIN disk' /\ disk'[q] = disk[q]
        /\ q \in DOMAIN disk' => q \in DOMAIN disk
  BY SourceLeft
<1>4. \A p \in Sources(r) : p \in DOMAIN disk'
  BY <1>2, <1>3, SourceMeans
<1>5. Shrinks(r)'
  BY <1>1, <1>3 DEF CopyOK, Shrinks, LocalIInv, DiskOK, TreeOK
<1> QED
  BY <1>1, <1>4, <1>5 DEF CopyOK

\* The same request, before it begins, takes over what the one before has done.
LEMMA AgainCopy ==
  ASSUME LocalIInv, NEW r \in Requests, Copying(r), NEW o \in order[r].after, o # r, Turn(o),
         result[r] = "waiting", Repeats(order, r, o), CopyOK(o)', o \in Requests
  PROVE  CopyOK(r)'
<1>1. order' = order /\ result'[r] = "waiting" /\ result'[o] # "waiting"
  BY DEF Turn
<1>2. /\ order[r].from = order[o].from /\ order[r].to = order[o].to
      /\ order[r].policy = order[o].policy
  <2>1. order[r] \in Orders /\ order[o] \in Orders
    BY OrderTyped DEF LocalIInv
  <2> QED
    BY <2>1 DEF Repeats, Orders
<1>3. Shrinks(r)'
  BY <1>1, <1>2 DEF CopyOK, Shrinks
<1>4. Sources(r)' = Sources(o)' /\ Policy(r)' = Policy(o)' /\ \A p : Place(r, p)' = Place(o, p)'
  BY <1>1, <1>2 DEF Sources, LeftBehind, Moving, Policy, Place
<1>5. \A p : Arrived(o, p)' => Arrived(r, p)'
  BY <1>1, <1>2, <1>4 DEF Arrived, Copied, InTheWay, Placed, Holds
<1>6. Repeats(order, r, o)'
  BY <1>1 DEF Repeats
<1> QED
  BY <1>1, <1>3, <1>4, <1>5, <1>6 DEF CopyOK

\* A copy to another place leaves a copy or move as it is.
LEMMA BesideOther ==
  ASSUME LocalIInv, LocalIInv', NEW r \in Requests, Copying(r), CopyOK(r),
         NEW o \in Requests, o # r, Turn(o), Contract(o), order[o].op = "copy",
         KeepsOff(order[o], order[r].from), ~ Meets(order[o].to, order[r].to),
         o \notin order[r].after
  PROVE  CopyOK(r)'
<1>1. /\ order' = order /\ result'[r] = result[r] /\ stack'[r] = stack[r] /\ Top(r)' = Top(r)
      /\ Sources(r)' \subseteq Sources(r) /\ Expected(r)' \subseteq Expected(r)
      /\ Policy(r)' = Policy(r)
      /\ \A q, p : Placed(r, q, p)' <=> Placed(r, q, p)
      /\ \A p : AtRisk(r, p)' <=> AtRisk(r, p)
  <2>1. order' = order /\ result'[r] = result[r] /\ stack'[r] = stack[r]
    BY DEF Turn
  <2>2. Top(r)' = Top(r)
    BY <2>1 DEF Top
  <2> QED
    BY <2>1, <2>2, SamePlaces, FewerSources DEF AtRisk, Contract
<1>2. \A q \in Path : IsPrefix(order[r].from, q) =>
        /\ q \in DOMAIN disk => q \in DOMAIN disk' /\ disk'[q] = disk[q]
        /\ q \in DOMAIN disk' => q \in DOMAIN disk
  BY SourceLeft
<1>3. \A q \in Path : Stands(order[r].to, q) =>
        /\ q \in DOMAIN disk => q \in DOMAIN disk' /\ disk'[q] = disk[q]
        /\ q \in DOMAIN disk' => q \in DOMAIN disk
  BY PlaceLeft DEF Taking
<1>4. /\ TreeOK(disk) /\ TreeOK(disk') /\ StackOK /\ order[r].from \in Path /\ order[r].to \in Path
      /\ \A q \in DOMAIN disk \cup DOMAIN disk' : q \in Path
  BY OrderTyped DEF LocalIInv, DiskOK, TreeOK, Orders
<1>5. ASSUME NEW p \in Sources(r), Arrived(r, p)
      PROVE  Arrived(r, p)'
  <2>1. PICK q \in DOMAIN disk : Copied(r, p, q) \/ InTheWay(r, p, q)
    BY <1>5 DEF Arrived
  <2>2. q \in Path /\ Stands(order[r].to, q)
    <3>1. CASE Copied(r, p, q)
      BY <1>4, <3>1, PlaceMeans, SourceMeans DEF Copied
    <3>2. CASE InTheWay(r, p, q)
      BY <1>4, <3>2, StandsItself, StandsBelow DEF InTheWay
    <3> QED
      BY <1>4, <2>1, <3>1, <3>2
  <2> QED
    BY <1>1, <1>3, <2>1, <2>2, WitnessStays
<1>6. \A p \in Sources(r) : p \in DOMAIN disk <=> p \in DOMAIN disk'
  BY <1>2, SourceMeans
<1>7. Shrinks(r)'
  BY <1>1, <1>2, <1>4 DEF CopyOK, Shrinks
<1>8. ASSUME result[r] = "running"
      PROVE  Underway(r)'
  <2>1. Underway(r) /\ Top(r) \in Frames /\ Suits(r, Top(r))
    BY <1>4, <1>8, TopGood DEF CopyOK
  <2>2. /\ Top(r).from \in Path /\ Top(r).to \in Path /\ IsPrefix(order[r].from, Top(r).from)
        /\ Stands(order[r].to, Top(r).to)
    BY <2>1 DEF Suits, Copying, Frames
  <2>3. /\ Top(r).to \in DOMAIN disk => Top(r).to \in DOMAIN disk' /\ disk'[Top(r).to] = disk[Top(r).to]
        /\ Top(r).to \in DOMAIN disk' => Top(r).to \in DOMAIN disk
    BY <1>3, <2>2
  <2>4. Knows(r, Top(r))'
    BY <1>1, <2>1, <2>3 DEF Underway, Knows, Holds, Exists
  <2>5. Reads(Top(r))'
    BY <1>1, <1>2, <2>1, <2>2 DEF Underway, Reads
  <2>6. ASSUME NEW i \in 1 .. Len(stack[r])
        PROVE  WalkedAt(r, stack[r], i)'
    <3>1. WalkedAt(r, stack[r], i)
      BY <2>1 DEF Underway
    <3>2. PICK f : f = stack[r][i]
      OBVIOUS
    <3>3. ASSUME f.at = "entries", NEW p \in Expected(r) \cap DOMAIN disk', IsPrefix(f.from, p)
          PROVE  \/ Arrived(r, p)' \/ AtRisk(r, p)
                 \/ \E c \in f.todo : IsPrefix(c, p)
                 \/ i < Len(stack[r]) /\ IsPrefix(stack[r][i + 1].from, p)
      BY <1>5, <1>6, <3>1, <3>2, <3>3 DEF WalkedAt, Expected
    <3> QED
      BY <1>1, <3>1, <3>2, <3>3 DEF WalkedAt
  <2> QED
    BY <1>1, <2>1, <2>4, <2>5, <2>6 DEF Underway
<1>9. ASSUME result'[r] = "waiting", NEW p \in Sources(r), p \notin DOMAIN disk'
      PROVE  \E a \in order[r].after : Repeats(order, r, a) /\ result'[a] # "waiting"
  <2>1. PICK a \in order[r].after : Repeats(order, r, a) /\ result[a] # "waiting"
    BY <1>1, <1>6, <1>9 DEF CopyOK
  <2>2. a # o /\ a \in Requests
    BY <1>4, <2>1, OrderTyped DEF Orders
  <2> QED
    BY <2>1, <2>2 DEF Turn
<1>10. \A a : Repeats(order, r, a)' <=> Repeats(order, r, a)
  BY <1>1 DEF Repeats
<1>11. ASSUME NEW p \in Sources(r)'
       PROVE  p \in Sources(r) /\ (p \in DOMAIN disk' \/ Arrived(r, p)')
  BY <1>1, <1>5, <1>6 DEF CopyOK
<1>12. ASSUME result'[r] = "ok", NEW p \in Expected(r)'
       PROVE  Arrived(r, p)'
  <2>1. p \in Expected(r) /\ result[r] = "ok"
    BY <1>1, <1>12
  <2>2. p \in Sources(r)
    BY <2>1 DEF Expected
  <2> QED
    BY <1>5, <2>1, <2>2 DEF CopyOK
<1> QED
  BY <1>1, <1>7, <1>8, <1>9, <1>10, <1>11, <1>12 DEF CopyOK

\* A step of another request.
LEMMA OtherCopy ==
  ASSUME CopyIInv, Settles(order), LocalIInv', NEW r \in Requests, Copying(r),
         NEW o \in Requests, o # r, Acts(o), Turn(o), Undisturbed(r)'
  PROVE  CopyOK(r)'
<1>1. /\ LocalIInv /\ TurnsOK /\ Contract(o) /\ order' = order /\ result'[o] # "waiting"
      /\ \A q \in Requests \ {o} : result'[q] = result[q]
  BY ActsContract DEF CopyIInv, Turn
<1>2. Undisturbed(r) /\ (o \in order[r].after \/ (order[o].op = "copy" /\ order[o].to # order[r].to))
  <2>1. \A q \in Requests \ {r} :
          result'[q] = "waiting" \/ q \in order[r].after
            \/ (order[q].op = "copy" /\ order[q].to # order[r].to)
    BY <1>1 DEF Undisturbed
  <2>2. o \in order[r].after \/ (order[o].op = "copy" /\ order[o].to # order[r].to)
    BY <1>1, <2>1
  <2>3. ASSUME NEW q \in Requests \ {r}
        PROVE  result[q] = "waiting" \/ q \in order[r].after
                 \/ (order[q].op = "copy" /\ order[q].to # order[r].to)
    <3>1. CASE q = o
      BY <2>2, <3>1
    <3>2. CASE q # o
      <4>1. result'[q] = result[q]
        BY <1>1, <3>2
      <4> QED
        BY <2>1, <4>1
    <3> QED
      BY <3>1, <3>2
  <2> QED
    BY <2>2, <2>3 DEF Undisturbed
<1>3. CopyOK(r)
  BY <1>2 DEF CopyIInv
<1>4. CASE o \in order[r].after
  <2>1. result[r] = "waiting"
    <3>1. result[o] \in {"waiting", "running"}
      BY DEF Turn
    <3>2. result[r] \notin {"running", "ok", "error"}
      BY <1>1, <1>4, <3>1 DEF TurnsOK
    <3>3. result[r] # "died"
      BY <1>1, <3>1 DEF TurnsOK
    <3> QED
      BY <1>1, <3>2, <3>3 DEF LocalIInv, StackOK
  <2>2. CASE Repeats(order, r, o)
    <3>1. order[r] \in Orders /\ order[o] \in Orders
      BY <1>1, OrderTyped DEF LocalIInv
    <3>2. /\ order[o].op = order[r].op /\ order[o].to = order[r].to
          /\ order[r].after \subseteq order[o].after \cup {o}
      BY <2>2, <3>1 DEF Repeats, Orders
    <3>3. Copying(o)
      BY <3>2 DEF Copying
    <3>4. Undisturbed(o)
      <4> SUFFICES ASSUME NEW q \in Requests \ {o}
                   PROVE  \/ result[q] = "waiting" \/ q \in order[o].after
                          \/ order[q].op = "copy" /\ order[q].to # order[o].to
        BY DEF Undisturbed
      <4>1. CASE q = r
        BY <2>1, <4>1
      <4>2. CASE q # r
        BY <1>2, <3>2, <4>2 DEF Undisturbed
      <4> QED
        BY <4>1, <4>2
    <3>5. CopyOK(o) /\ Fits(o)
      BY <3>3, <3>4 DEF CopyIInv, Settles, Copying, Fits
    <3>6. CopyOK(o)'
      BY <1>1, <3>3, <3>5, CopyActs
    <3> QED
      BY <1>1, <1>4, <2>1, <2>2, <3>6, AgainCopy
  <2>3. CASE ~ Repeats(order, r, o)
    <3>1. KeepsOff(order[o], order[r].from)
      BY <1>4, <2>3 DEF Settles, Copying
    <3> QED
      BY <1>1, <1>3, <1>4, <2>1, <2>3, <3>1, BeforeCopy
  <2> QED
    BY <2>2, <2>3
<1>5. CASE o \notin order[r].after
  <2>1. order[o].op = "copy" /\ order[o].to # order[r].to
    BY <1>2, <1>5
  <2>2. KeepsOff(order[o], order[r].from) /\ ~ Meets(order[o].to, order[r].to)
    BY <1>5, <2>1 DEF Settles, Copying
  <2> QED
    BY <1>1, <1>3, <1>5, <2>1, <2>2, BesideOther
<1> QED
  BY <1>4, <1>5

\* What the process leaves when it ends.
LEMMA CopyDies ==
  ASSUME CopyIInv, Die, UNCHANGED passed
  PROVE  CopyIInv'
<1>1. LocalIInv' /\ TurnsOK' /\ order' = order /\ disk' = disk
  BY LocalStep, TurnsEnd DEF Die, CopyIInv, LocalNext
<1>2. \A r \in Requests : /\ result'[r] \in {"ok", "error", "died"}
                          /\ result'[r] = "ok" => result[r] = "ok"
                          /\ result[r] = "waiting" => result'[r] = "died"
  BY DEF Die
<1>3. ASSUME NEW r \in Requests, Copying(r), Undisturbed(r)'
      PROVE  CopyOK(r)'
  <2>1. Undisturbed(r)
    BY <1>1, <1>2, <1>3 DEF Undisturbed
  <2>2. CopyOK(r)
    BY <1>3, <2>1 DEF CopyIInv
  <2>3. Sources(r)' \subseteq Sources(r) /\ Expected(r)' \subseteq Expected(r) /\ Shrinks(r)'
    BY <1>1, <2>2, FewerSources DEF CopyOK, Shrinks, Grows
  <2>4. ASSUME NEW p, Arrived(r, p)
        PROVE  Arrived(r, p)'
    <3>1. PICK q \in DOMAIN disk : Copied(r, p, q) \/ InTheWay(r, p, q)
      BY <2>4 DEF Arrived
    <3> QED
      BY <1>1, <3>1, WitnessStays
  <2> QED
    BY <1>1, <1>2, <2>2, <2>3, <2>4 DEF CopyOK, Expected
<1> QED
  BY <1>1, <1>3 DEF CopyIInv, Copying

\* Nothing has left a source at first.
LEMMA CopyInitially == LocalInit => CopyIInv
<1> SUFFICES ASSUME LocalInit
             PROVE  CopyIInv
  OBVIOUS
<1>1. LocalIInv
  BY LocalInitially
<1>2. disk = Disk /\ \A r \in Requests : result[r] = "waiting"
  BY DEF LocalInit
<1>3. TurnsOK
  BY <1>2 DEF TurnsOK, LocalInit
<1>4. \A r \in Requests : CopyOK(r)
  BY <1>2 DEF CopyOK, Shrinks, Sources
<1> QED
  BY <1>1, <1>3, <1>4 DEF CopyIInv

\* Every step keeps the invariant, the end of the process among them.
LEMMA CopiesStep == SettledWishes /\ CopyIInv /\ [LocalNext]_localVars => CopyIInv'
<1> SUFFICES ASSUME SettledWishes, CopyIInv, [LocalNext]_localVars
             PROVE  CopyIInv'
  OBVIOUS
<1>1. /\ LocalIInv /\ StackOK /\ TurnsOK /\ LocalIInv' /\ Settles(order)
      /\ \A r \in Requests : Copying(r) => Fits(r)
  BY LocalStep, NowSettled DEF CopyIInv, LocalIInv
<1>2. ASSUME NEW o \in Requests, Acts(o)
      PROVE  CopyIInv'
  <2>1. Turn(o) /\ TurnsOK' /\ order' = order
    BY <1>1, <1>2, ActsTurn, TurnsKept DEF Turn
  <2>2. ASSUME NEW r \in Requests, Copying(r), Undisturbed(r)'
        PROVE  CopyOK(r)'
    <3>1. CASE o = r
      <4>1. Undisturbed(r)
        BY <2>1, <2>2, <3>1 DEF Undisturbed, Turn
      <4>2. CopyOK(r) /\ Fits(r)
        BY <1>1, <2>2, <4>1 DEF CopyIInv
      <4> QED
        BY <1>1, <1>2, <2>2, <3>1, <4>2, CopyActs
    <3>2. CASE o # r
      BY <1>1, <1>2, <2>1, <2>2, <3>2, OtherCopy
    <3> QED
      BY <3>1, <3>2
  <2> QED
    BY <1>1, <2>1, <2>2 DEF CopyIInv, Copying
<1>3. CASE UNCHANGED localVars
  <2>1. UNCHANGED <<disk, order, result, stack, passed>>
    BY <1>3 DEF localVars
  <2>2. TurnsOK'
    BY <1>1, <2>1 DEF TurnsOK
  <2>3. ASSUME NEW r \in Requests
        PROVE  /\ Copying(r)' => Copying(r)
               /\ Undisturbed(r)' => Undisturbed(r)
               /\ CopyOK(r) => CopyOK(r)'
    <3>1. (Copying(r)' => Copying(r)) /\ (Undisturbed(r)' => Undisturbed(r))
      BY <2>1 DEF Copying, Undisturbed
    <3>2. /\ Sources(r)' \subseteq Sources(r) /\ Expected(r)' \subseteq Expected(r) /\ Top(r)' = Top(r) /\ Policy(r)' = Policy(r)
          /\ \A q, p : Placed(r, q, p)' <=> Placed(r, q, p)
          /\ \A p : AtRisk(r, p)' <=> AtRisk(r, p)
      BY <2>1, SamePlaces, FewerSources DEF Top, AtRisk, Grows
    <3>3. \A p : Arrived(r, p)' <=> Arrived(r, p)
      BY <2>1, <3>2 DEF Arrived, Copied, InTheWay, Holds, Place
    <3>4. \A i : WalkedAt(r, stack[r], i) => WalkedAt(r, stack[r], i)'
      BY <2>1, <3>2, <3>3 DEF WalkedAt
    <3>5. Underway(r) => Underway(r)'
      BY <2>1, <3>2, <3>4 DEF Underway, Knows, Reads, Holds, Exists
    <3> QED
      BY <2>1, <3>1, <3>2, <3>3, <3>5 DEF CopyOK, Shrinks, Repeats
  <2> QED
    BY <1>1, <2>2, <2>3 DEF CopyIInv
<1> QED
  BY <1>2, <1>3, CopyDies DEF LocalNext, Acts

\* What is left of the source of an undisturbed copy or move is as it was; the rest has
\* arrived, or is accounted for by the calls in progress, or was passed over because Info
\* failed.
THEOREM CopyInvariant ==
  ASSUME SettledWishes
  PROVE  LocalSpec => []CopyIInv
BY CopyInitially, CopiesStep, PTL DEF LocalSpec

\* Where copies and moves keep off each other's places, and one that waits for another
\* repeats it or is kept off by it, an undisturbed one that answers "ok" has every file
\* of its source at its place, or met what it was told to skip for; but for what it, or a
\* move, passed over because Info failed.
THEOREM OkIsCopied ==
  ASSUME SettledWishes
  PROVE  LocalSpec => []OkMeansCopied
<1>1. CopyIInv => OkMeansCopied
  <2> SUFFICES ASSUME CopyIInv, NEW r \in Requests, result[r] = "ok", Copying(r), Undisturbed(r),
                      NEW p \in DOMAIN Disk \ (PassedOver(r) \cup LeftBehind),
                      IsPrefix(order[r].from, p), Disk[p].type = "file"
               PROVE  \/ \E q \in DOMAIN disk :
                           SameBases(q, Place(r, p)) /\ disk[q].data = Disk[p].data
                      \/ Policy(r) = "skip" /\ \E q \in DOMAIN disk :
                           /\ IsPrefix(order[r].to, q) /\ IsPrefix(q, Place(r, p))
                           /\ q = Place(r, p) \/ ~ IsDir(q)
    BY DEF OkMeansCopied, Copying, Place
  <2>1. Arrived(r, p)
    BY DEF CopyIInv, CopyOK, Expected, Sources
  <2>2. PICK q \in DOMAIN disk : Copied(r, p, q) \/ InTheWay(r, p, q)
    BY <2>1 DEF Arrived
  <2>3. q # Root
    BY DEF CopyIInv, LocalIInv, DiskOK, TreeOK
  <2> QED
    BY <2>2, <2>3 DEF Copied, InTheWay, Holds, Placed, IsDir, TypeOf, Exists
<1> QED
  BY <1>1, CopyInvariant, PTL DEF LocalSpec
=================================================================================
