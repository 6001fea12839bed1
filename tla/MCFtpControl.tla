------------------------------- MODULE MCFtpControl -------------------------------
(***************************************************************************)
(* Small instances of FtpControl.                                          *)
(***************************************************************************)
EXTENDS FtpControl

==============================================================================
