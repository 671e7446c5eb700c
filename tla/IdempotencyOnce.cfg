CONSTANTS
  a1 = a1
  a2 = a2
  a3 = a3
  b1 = b1
  s1 = s1
  ka = ka
  kb = kb
  h1 = h1
  h2 = h2
  p1 = p1
  p2 = p2
  None = None
  KeyOf <- MCKeyOf
  HashOf <- MCHashOf
  ProcOf <- MCProcOf
  Requests = {a1, a2, a3, b1}
  Procs = {p1, p2}
  Peeks = {}
  Killable = {p1}
\* The system stops when every request has been served.
CHECK_DEADLOCK FALSE
SPECIFICATION ApartSpec
PROPERTIES
  ImplementsWriteOnce
  EntriesStay
