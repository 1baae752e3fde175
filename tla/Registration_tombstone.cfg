SPECIFICATION MCSpec
CONSTANTS
  Families = {f1}
  Tokens = {t1}
  Devices = {d1}
  Keys = {"key"}
  Varied = {}
  NoToken = NoToken
  NoFamily = NoFamily
  TTL = 1
  WINDOW = 1
  Logins = {l1}
  Users = {u1, u2}
  None = None
  MaxCodes = 1
  MaxChanges = 2
  MaxSent = 1
  Texts = {"clean", "odd"}
  Clean = {"clean"}
  Questions = {"q"}
  Cells = {"c1", "c2"}
  Reviewers = {"ann"}
  MaxLegal = 2
  MaxVersion = 3
  Ids = {1, 2, 3, 4}
PROPERTIES TombstoneRejectsCreation
CHECK_DEADLOCK FALSE
