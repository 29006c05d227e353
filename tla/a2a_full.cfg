CONSTANTS
  t1 = t1
  t2 = t2
  t3 = t3
  c1 = c1
  TaskIds = {t1, t2, t3}
  Clients = {c1}
  MaxTasks = 2
  MaxPerWindow = 1
  Window = 1
  MaxAge = 1
  HandlerStates = {"completed"}
SPECIFICATION Spec
PROPERTY FullStoreRecovers
