CONSTANTS
  Systems = {"PS4", "PC"}
  GameTypes = {"Duel", "Doubles"}
  MaxLength = 2
  NoOffset = NoOffset
  segmentsCount = 3
  NoTouch = NoTouch
  NoComposer = NoComposer

SPECIFICATION FairSpec
INVARIANTS
  TypeOK
  ButtonFollowsDrag
  PostsGoUnderTheTitle
  RestingIsSelected
  DeafOnlyWhereTapped
PROPERTY
  TapIsHeard
