CONSTANTS
  Systems = {"PS4", "Xbox One"}
  GameTypes = {0, 3}
  Ranks = {0, 6}
  MaxText = 2
  MaxTaps = 2

SPECIFICATION Spec
INVARIANTS
  TypeOK
  ShownIsTyped
  NoEmptyPost
PROPERTIES
  IsAForm
