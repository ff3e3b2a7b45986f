CONSTANTS
  Uids = {a, b}
  Nil = Nil
  MaxDeaths = 2

SPECIFICATION Spec
INVARIANTS
  LoggedInToPost
