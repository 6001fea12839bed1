------------------------------- MODULE MCLauncher -------------------------------
(***************************************************************************)
(* Small instances of the terminal interface.  The input reader and the    *)
(* run loop share nothing but a queue of keys, which neither model has: a  *)
(* behaviour is about one of them.                                         *)
(***************************************************************************)
EXTENDS Launcher, TerminalInput, TLC

VARIABLE subject   \* which of the two the behaviour is about

terminal == <<vars, inputVars, subject>>

TerminalInit ==
  /\ Init /\ InputInit /\ subject \in {"screens", "input"}
  /\ subject = "input" => ~ other /\ ~ remote
TerminalNext ==
  \/ subject = "screens" /\ Next /\ UNCHANGED <<inputVars, subject>>
  \/ subject = "input" /\ InputNext /\ UNCHANGED <<vars, subject>>
TerminalSpec == TerminalInit /\ [][TerminalNext]_terminal

LauncherSymmetry == Permutations(Screens) \cup Permutations(Workers)
=================================================================================
