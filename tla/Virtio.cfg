CONSTANTS
  Proc = {p1, p2, p3}
  NUM = 7
  IdxMod = 14
  None = None
SPECIFICATION FairSpec
VIEW View
INVARIANTS RequestsOwned
PROPERTIES Refines Served
