CONSTANTS
  Systems = {"PS4", "PC"}
  GameTypes = {"Duel"}
  Sections = {0, 1}
  Ranks = {"bronzePosts", "silverPosts"}
  MaxReads = 2
  MaxPosts = 2

SPECIFICATION FairSpec
PROPERTY
  FreshPostArrives
