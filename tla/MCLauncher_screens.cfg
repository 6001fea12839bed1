SPECIFICATION TerminalSpec
CONSTANTS
  Screens = {s1, s2}
  Workers = {w1, w2}
  None = None
SYMMETRY LauncherSymmetry
CHECK_DEADLOCK FALSE
INVARIANTS KindIsTrue KeysAreThosePressed
PROPERTIES PromptOnItsOwnScreen BeyondIsConfirmed
