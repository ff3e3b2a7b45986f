CONSTANTS
  Systems = {"PS4", "PC"}
  GameTypes = {"Duel"}
  Sections = {0, 1}
  Ranks = {"bronzePosts", "silverPosts", "other"}
  MaxReads = 3
  MaxPosts = 2

SPECIFICATION Spec
INVARIANT
  NeverTraps
