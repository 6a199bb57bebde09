CONSTANTS
  t1 = t1  t2 = t2  exe = exe  lib = lib  plug = plug
  Threads = {t1, t2}
  Main = t1
  Objects = {exe, lib, plug}
  Initial = {exe}
  First <- MCFirst
  Last <- MCLast
  Mids = 2
  NTables = 2
  Nobody = Nobody
  MaxCalls = 2
  Early = FALSE
  Joined = TRUE
SPECIFICATION Spec
INVARIANTS OpenedIsKnown NoCallLost
CHECK_DEADLOCK FALSE
