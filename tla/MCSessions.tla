------------------------------- MODULE MCSessions -------------------------------
(***************************************************************************)
(* Small instances of Sessions: an FTP and an SFTP profile.                *)
(***************************************************************************)
EXTENDS Sessions, TLC

RequestSymmetry == Permutations(Callers) \cup Permutations(Ids)
==============================================================================
