----------------------------- MODULE FeedScreen -----------------------------
(***************************************************************************)
(* What lies over the table of PartnerPostsController: the two drop-downs  *)
(* that choose a feed, and the button that opens the composer, which goes  *)
(* away when the table is scrolled down and comes back when it is scrolled *)
(* up.                                                                     *)
(*                                                                         *)
(* Both drop-downs unfold a list at the same place, under their buttons and*)
(* over the table; the game types' list was added last and is in front.    *)
(* The table is an offset and how much longer than the screen its content  *)
(* is; every change of the offset is one call of scrollViewDidScroll.      *)
(***************************************************************************)
EXTENDS Catalog, Integers

CONSTANTS
    Systems,    \* the options of systemDropDown in this instance
    GameTypes,  \* the options of gameTypeDropDown in this instance
    MaxLength,  \* bound: how much longer than the screen the content gets
    NoOffset    \* the lastContentOffset of a table never dragged

ASSUME ScreenAssumption ==
    /\ Systems \subseteq SystemOptions /\ "PS4" \in Systems
    /\ GameTypes \subseteq GameTypeOptions /\ "Duel" \in GameTypes
    /\ MaxLength \in Nat
    /\ NoOffset \notin Int

VARIABLES
    title,                      \* the title of each drop-down's button
    isOpen,                     \* whether its list is unfolded
    currentSelectedSystem,
    currentSelectedGameType,
    length,                     \* how much longer than the screen the content is
    contentOffset,
    lastContentOffset,
    dragged,                    \* the table is dragged or decelerates
    floatingButtonIsVisible

widgetVars == <<title, isOpen, currentSelectedSystem, currentSelectedGameType>>
scrollVars == <<length, contentOffset, lastContentOffset, dragged,
                floatingButtonIsVisible>>
feedScreenVars == <<widgetVars, scrollVars>>

----------------------------------------------------------------------------
DropDowns == {"systemDropDown", "gameTypeDropDown"}

dropDownOptions(button) == IF button = "systemDropDown" THEN Systems ELSE GameTypes

\* One step beyond either end, where a table bounces.
Offsets == -1..(MaxLength + 1)

FeedScreenTypeOK ==
    /\ title \in [DropDowns -> Systems \cup GameTypes]
    /\ isOpen \in [DropDowns -> BOOLEAN]
    /\ currentSelectedSystem \in Systems /\ currentSelectedGameType \in GameTypes
    /\ length \in 0..MaxLength
    /\ contentOffset \in Offsets
    /\ lastContentOffset \in Offsets \cup {NoOffset}
    /\ dragged \in BOOLEAN /\ floatingButtonIsVisible \in BOOLEAN

\* viewDidLoad.
FeedScreenInit ==
    /\ title = [b \in DropDowns |-> IF b = "systemDropDown" THEN "PS4" ELSE "Duel"]
    /\ isOpen = [b \in DropDowns |-> FALSE]
    /\ currentSelectedSystem = "PS4" /\ currentSelectedGameType = "Duel"
    /\ length = 0 /\ contentOffset = 0 /\ lastContentOffset = NoOffset
    /\ dragged = FALSE /\ floatingButtonIsVisible = TRUE

----------------------------------------------------------------------------
\* touchesBegan on a drop-down's button.
TouchDropDown(button) ==
    /\ isOpen' = [isOpen EXCEPT ![button] = ~@]
    /\ UNCHANGED <<title, currentSelectedSystem, currentSelectedGameType>>
    /\ UNCHANGED scrollVars

\* Mutant: the cases of the switch are swapped.
ReloadTableSwapped(string, button) ==
    CASE button = "gameTypeDropDown" ->
            /\ currentSelectedSystem' = string
            /\ UNCHANGED currentSelectedGameType
      [] button = "systemDropDown" ->
            /\ currentSelectedGameType' = string
            /\ UNCHANGED currentSelectedSystem

\* reloadTable(string:dropDownButton:), less the read it starts.
ReloadTable(string, button) ==
    CASE button = "systemDropDown" ->
            /\ currentSelectedSystem' = string
            /\ UNCHANGED currentSelectedGameType
      [] button = "gameTypeDropDown" ->
            /\ currentSelectedGameType' = string
            /\ UNCHANGED currentSelectedSystem

\* A tap on an option of a list that no other list covers: dropDownClicked.
DropDownClicked(button, string) ==
    /\ isOpen[button]
    /\ button = "systemDropDown" => ~isOpen["gameTypeDropDown"]
    /\ title' = [title EXCEPT ![button] = string]
    /\ ReloadTable(string, button)
    /\ isOpen' = [isOpen EXCEPT ![button] = FALSE]
    /\ UNCHANGED scrollVars

----------------------------------------------------------------------------
\* Mutant: movePostButton is called without asking whether it is visible.
VisibleAfterToggle(offset) ==
    IF lastContentOffset = NoOffset \/ lastContentOffset = offset
    THEN floatingButtonIsVisible
    ELSE ~floatingButtonIsVisible

\* scrollViewDidScroll and movePostButton: the offset is compared with the one
\* at which the last drag began.
VisibleAfterScroll(offset) ==
    IF lastContentOffset = NoOffset \/ lastContentOffset = offset
    THEN floatingButtonIsVisible
    ELSE lastContentOffset > offset

\* scrollViewWillBeginDragging.
BeginDraggingTable ==
    /\ lastContentOffset' = contentOffset
    /\ dragged' = TRUE
    /\ UNCHANGED widgetVars
    /\ UNCHANGED <<length, contentOffset, floatingButtonIsVisible>>

\* The table follows the finger, decelerates or bounces back.
ScrollTable(offset) ==
    /\ dragged /\ offset \in {contentOffset - 1, contentOffset + 1}
    /\ offset \in -1..(length + 1)
    /\ contentOffset' = offset
    /\ floatingButtonIsVisible' = VisibleAfterScroll(offset)
    /\ UNCHANGED widgetVars
    /\ UNCHANGED <<length, lastContentOffset, dragged>>

SettleTable ==
    /\ dragged /\ contentOffset \in 0..length
    /\ dragged' = FALSE
    /\ UNCHANGED widgetVars
    /\ UNCHANGED <<length, contentOffset, lastContentOffset, floatingButtonIsVisible>>

\* The content is reloaded, or rows are inserted or deleted: a table beyond the
\* end of its content is put back there, which is a scroll like any other.
ResizeTable(n) ==
    LET offset == IF contentOffset > n THEN n ELSE contentOffset
    IN  /\ length' = n
        /\ contentOffset' = offset
        /\ floatingButtonIsVisible' =
              IF offset = contentOffset THEN floatingButtonIsVisible
              ELSE VisibleAfterScroll(offset)
        /\ UNCHANGED widgetVars
        /\ UNCHANGED <<lastContentOffset, dragged>>

FeedScreenNext ==
    \/ \E button \in DropDowns : TouchDropDown(button)
    \/ \E button \in DropDowns : \E string \in dropDownOptions(button) :
          DropDownClicked(button, string)
    \/ BeginDraggingTable
    \/ \E offset \in Offsets : ScrollTable(offset)
    \/ SettleTable
    \/ \E n \in 0..MaxLength : ResizeTable(n)
=============================================================================
