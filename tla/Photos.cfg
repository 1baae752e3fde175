SPECIFICATION MCSpec
CONSTANTS
  Photos = {p1, p2}
  NoPhoto = NoPhoto
  Keys = {k1}
  Removers = {r1}
  UPLOAD = 1
  STALE = 2
  RETRY = 1
  None = None
  Devices = {d1, d2}
  Mine = {s1, s2}
  Others = {x}
  Kinds = {"match", "billing", "new_session"}
  MaxFaults = 1
  MaxChanges = 2
INVARIANTS ReadyHasObject ObjectsTracked
PROPERTIES PhotosSettle PushesSettle
CHECK_DEADLOCK FALSE
