SPECIFICATION MCSpec
CONSTANTS
  Families = {f1, f2}
  Tokens = {t1, t2, t3}
  Devices = {d1}
  Keys = {"key", "strict"}
  Varied = {f1}
  NoToken = NoToken
  NoFamily = NoFamily
  TTL = 2
  WINDOW = 2
  Logins = {l1, l2}
  Users = {u1, u2, u3}
  None = None
  MaxCodes = 2
  MaxChanges = 2
  MaxSent = 3
  Texts = {"clean", "odd"}
  Clean = {"clean"}
  Questions = {"q"}
  Cells = {"c1", "c2"}
  Reviewers = {"ann"}
  MaxLegal = 2
  MaxVersion = 3
  Ids = {1, 2, 3, 4}
INVARIANTS SessionsHold ConsentBacksData DecisionOnSeen
PROPERTIES NotStranded RegistrationHolds
SYMMETRY SessionSymmetry
CHECK_DEADLOCK FALSE
