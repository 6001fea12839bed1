SPECIFICATION FilesSpec
CONSTANTS
  r1 = r1
  r2 = r2
  contentA = contentA
  contentB = contentB
  contentL = contentL
  oldA = oldA
  n1 = n1
  Torn = Torn
  Sent = Sent
  Requests = {r1, r2}
  Wishes <- TestWishes
  Disk <- TestDisk
  Mounts <- SecondDisk
  Faults = {"mkdir", "rename", "read", "write", "remove", "info"}
  Downloads = {d1, d2}
  Names = {n1, n2}
INVARIANTS NothingLost NothingOverwritten NoTornFile OkMeansCopied
INVARIANT FinalIsWhole
PROPERTY ReportIsTrue
CHECK_DEADLOCK FALSE
