------------------------------ MODULE Catalog ------------------------------
(***************************************************************************)
(* The vocabulary the two halves of the app share without sharing code:    *)
(* the titles the drop-downs offer, the keys the database tree is built    *)
(* from, and the order of the seven tiers.  The feed derives the keys from *)
(* titles (PartnerPostsController.readDatabase); the composer holds its    *)
(* own lists (NewPostController.gameTypes, NewPostController.ranks).       *)
(***************************************************************************)
EXTENDS Naturals, Sequences

\* systemDropDown and gameTypeDropDown: what the user can pick in the feed.
SystemOptions == {"PS4", "PC", "Xbox One"}

GameTypeOptions == {"Duel", "Doubles", "Standard", "Solo Standard"}

\* The switch both readDatabase and postPost make on the selected system.
SystemKey(title) ==
    CASE title = "PS4"      -> "ps4"
      [] title = "PC"       -> "pc"
      [] title = "Xbox One" -> "xboxOne"
      [] OTHER              -> ""

\* "Solo Standard" is special-cased, the other titles are lowercased.
GameTypeKey(title) ==
    CASE title = "Solo Standard" -> "soloStandard"
      [] title = "Duel"          -> "duel"
      [] title = "Doubles"       -> "doubles"
      [] title = "Standard"      -> "standard"

\* NewPostController.ranks[index].postType, and the database key of a tier.
PostTypes ==
    << "bronzePosts", "silverPosts", "goldPosts", "platinumPosts",
       "diamondPosts", "championPosts", "grandChampionPosts" >>

TierSections == 0..6

\* The array behind a section of the table: the switch repeated in
\* numberOfRowsInSection, cellForRowAt and expandPosts.
ArrayOf(section) == PostTypes[section + 1]

\* NewPostController.gameTypes, indexed by gameTypeChooser.currentSegment.
ComposerGameTypes == << "solo", "doubles", "standard", "soloStandard" >>
============================================================================
