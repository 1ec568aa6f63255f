CONSTANTS
  Threads = {t1, t2}
  Clients <- MCClients
  MsgIds <- MCMsgIds
  Tries = 2
  Bounds <- MCBounds
SPECIFICATION LibrarySpec
INVARIANTS ReaderAwake ToldOnceTruly IdsAccounted
PROPERTY EventuallyTold
CHECK_DEADLOCK FALSE
