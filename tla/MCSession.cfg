CONSTANTS
  Uids = {a, b}
  Nil = Nil
  MaxDeaths = 2

SPECIFICATION Spec
INVARIANTS
  TypeOK
  SettingsNeedsUser
  IdentityNeverMixed
  DecisionSurvives
PROPERTIES
  IsRemembered
