SPECIFICATION StoresSpec
CONSTANTS
  Procs = {engine}
  Profiles = {p1, p2}
  Secrets = {x, y}
  Requests = {r1, r2}
  Hosts = {h, h6}
  Bracketed = {h6}
  Keys = {k1, k2}
  Certs = {c1, c2, c3}
  Genuine = {c2, c3}
  Direct = {c3}
  Attempts = {a1, a2}
  None = None
  NoId = NoId
SYMMETRY StoresSymmetry
INVARIANTS SettledIsTrue NoOrphanSecret OnlyConfirmedIsTrusted
PROPERTY HandshakeIsSafe
