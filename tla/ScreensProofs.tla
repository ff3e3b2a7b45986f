--------------------------- MODULE ScreensProofs ---------------------------
(***************************************************************************)
(* Theorems about Screens, for any options, any length of the table and    *)
(* any number of segments: the invariant has a part for each widget and one*)
(* that ties the composer to the feed's titles.                            *)
(***************************************************************************)
EXTENDS Screens, TLAPS

\* The selection is what the titles say; a composer copied it.
TitlesInv ==
    /\ DOMAIN title = DropDowns
    /\ title["systemDropDown"] = currentSelectedSystem
    /\ PostsGoUnderTheTitle

\* The inductive invariant.  Offsets must be numbers for the button's part.
ScreensInv ==
    /\ contentOffset \in Int /\ length \in Int
    /\ lastContentOffset \in Int \cup {NoOffset}
    /\ ButtonFollowsDrag
    /\ TitlesInv
    /\ RestingIsSelected

----------------------------------------------------------------------------
\* The part about the table depends on the scroll variables alone.
ScrollInv ==
    /\ contentOffset \in Int /\ length \in Int
    /\ lastContentOffset \in Int \cup {NoOffset}
    /\ ButtonFollowsDrag

\* A scroll to an offset leaves the button where the offset says.
LEMMA ScrollKeeps ==
    ASSUME ScrollInv, NEW offset \in Int,
           contentOffset' = offset, lastContentOffset' = lastContentOffset,
           floatingButtonIsVisible' = VisibleAfterScroll(offset)
    PROVE  ButtonFollowsDrag'
<1>1. CASE lastContentOffset = NoOffset
  BY <1>1 DEF ScrollInv, ButtonFollowsDrag, VisibleAfterScroll
<1>2. CASE lastContentOffset # NoOffset
  <2>1. lastContentOffset \in Int
    BY <1>2 DEF ScrollInv
  <2>2. CASE lastContentOffset = offset
    BY <1>2, <2>1, <2>2 DEF ButtonFollowsDrag
  <2>3. CASE lastContentOffset # offset
    <3>1. floatingButtonIsVisible' <=> lastContentOffset > offset
      BY <1>2, <2>3, Zenon DEF VisibleAfterScroll
    <3>2. CASE floatingButtonIsVisible'
      BY <1>2, <2>1, <3>1, <3>2 DEF ButtonFollowsDrag
    <3>3. CASE ~floatingButtonIsVisible'
      BY <1>2, <2>1, <3>1, <3>3 DEF ButtonFollowsDrag
    <3> QED
      BY <3>2, <3>3
  <2> QED
    BY <2>2, <2>3
<1> QED
  BY <1>1, <1>2

\* Every step of the feed's table keeps its part.
LEMMA ScrollInvStep ==
    ASSUME ScrollInv,
           \/ UNCHANGED scrollVars
           \/ BeginDraggingTable
           \/ FeedMoves
    PROVE  ScrollInv'
<1> USE ScreenAssumption
<1>1. ASSUME UNCHANGED scrollVars PROVE ScrollInv'
  BY <1>1 DEF scrollVars, ScrollInv, ButtonFollowsDrag
<1>2. ASSUME BeginDraggingTable PROVE ScrollInv'
  <2>1. /\ contentOffset' = contentOffset /\ lastContentOffset' = contentOffset
        /\ length' = length /\ contentOffset \in Int /\ length \in Int
    BY <1>2 DEF BeginDraggingTable, ScrollInv
  <2>2. ButtonFollowsDrag'
    BY <2>1 DEF ButtonFollowsDrag
  <2> QED
    BY <2>1, <2>2 DEF ScrollInv
<1>3. ASSUME NEW offset \in Offsets, ScrollTable(offset) PROVE ScrollInv'
  <2>1. offset \in Int
    BY DEF Offsets
  <2>2. /\ contentOffset' = offset /\ UNCHANGED <<length, lastContentOffset>>
        /\ floatingButtonIsVisible' = VisibleAfterScroll(offset)
    BY <1>3 DEF ScrollTable
  <2> QED
    BY <2>1, <2>2, ScrollKeeps DEF ScrollInv
<1>4. ASSUME SettleTable PROVE ScrollInv'
  BY <1>4 DEF SettleTable, ScrollInv, ButtonFollowsDrag
<1>5. ASSUME NEW n \in 0..MaxLength, ResizeTable(n) PROVE ScrollInv'
  <2> DEFINE offset == IF contentOffset > n THEN n ELSE contentOffset
  <2>1. n \in Int /\ offset \in Int
    BY DEF ScrollInv
  <2>2. /\ contentOffset' = offset /\ length' = n /\ UNCHANGED lastContentOffset
        /\ floatingButtonIsVisible' =
              IF offset = contentOffset THEN floatingButtonIsVisible
              ELSE VisibleAfterScroll(offset)
    BY <1>5 DEF ResizeTable
  <2> HIDE DEF offset
  <2>3. CASE offset = contentOffset
    BY <2>1, <2>2, <2>3 DEF ScrollInv, ButtonFollowsDrag
  <2>4. CASE offset # contentOffset
    BY <2>1, <2>2, <2>4, ScrollKeeps DEF ScrollInv
  <2> QED
    BY <2>3, <2>4
<1> QED
  BY <1>1, <1>2, <1>3, <1>4, <1>5 DEF FeedMoves

----------------------------------------------------------------------------
\* A choice from a drop-down changes its title and its selection together.
LEMMA DropDownKeeps ==
    ASSUME TitlesInv, composer = NoComposer, composer' = composer,
           NEW button \in DropDowns, NEW string, DropDownClicked(button, string)
    PROVE  TitlesInv'
<1>1. title' = [title EXCEPT ![button] = string] /\ ReloadTable(string, button)
  BY DEF DropDownClicked
<1>2. CASE button = "systemDropDown"
  <2>1. currentSelectedSystem' = string
    BY <1>1, <1>2 DEF ReloadTable
  <2> QED
    BY <1>1, <1>2, <2>1 DEF TitlesInv, PostsGoUnderTheTitle, DropDowns
<1>3. CASE button = "gameTypeDropDown"
  <2>1. currentSelectedSystem' = currentSelectedSystem
    BY <1>1, <1>3 DEF ReloadTable
  <2> QED
    BY <1>1, <1>3, <2>1 DEF TitlesInv, PostsGoUnderTheTitle, DropDowns
<1> QED
  BY <1>2, <1>3 DEF DropDowns

\* Every step of a chooser keeps its part.
LEMMA ChooserKeeps ==
    ASSUME RestingIsSelected, ChooserNext
    PROVE  RestingIsSelected'
BY DEF RestingIsSelected, ChooserNext, TouchBeside, TouchCancelled, TapRecognized,
       EndScrollingAnimation, BeginDragging, Catch, Drag, EndDragging, EndDecelerating

\* A new chooser rests on the segment it starts with.
LEMMA NewChooserRests == NewChooser => RestingIsSelected'
BY DEF NewChooser, RestingIsSelected

LEMMA ScreensInvStep == ScreensInv /\ [Next]_vars => ScreensInv'
<1> SUFFICES ASSUME ScreensInv, [Next]_vars PROVE ScreensInv'
  OBVIOUS
<1>0. ScrollInv /\ TitlesInv /\ RestingIsSelected
  BY DEF ScreensInv, ScrollInv
<1>1. ASSUME UNCHANGED widgetVars, UNCHANGED composer PROVE TitlesInv'
  BY <1>0, <1>1 DEF widgetVars, TitlesInv, PostsGoUnderTheTitle
<1>2. ASSUME UNCHANGED chooserVars PROVE RestingIsSelected'
  BY <1>0, <1>2 DEF chooserVars, RestingIsSelected
<1>3. ASSUME OnFeed(FeedTouched) PROVE ScrollInv' /\ TitlesInv' /\ RestingIsSelected'
  <2>1. composer = NoComposer /\ composer' = composer /\ UNCHANGED chooserVars /\ FeedTouched
    BY <1>3 DEF OnFeed
  <2>2. ASSUME NEW button \in DropDowns, TouchDropDown(button) PROVE ScrollInv' /\ TitlesInv'
    <3>1. UNCHANGED scrollVars /\ UNCHANGED <<title, currentSelectedSystem>>
      BY <2>2 DEF TouchDropDown
    <3> QED
      BY <1>0, <2>1, <3>1, ScrollInvStep DEF TitlesInv, PostsGoUnderTheTitle
  <2>3. ASSUME NEW button \in DropDowns, NEW string \in dropDownOptions(button),
               DropDownClicked(button, string)
        PROVE  ScrollInv' /\ TitlesInv'
    <3>1. UNCHANGED scrollVars
      BY <2>3 DEF DropDownClicked
    <3> QED
      BY <1>0, <2>1, <2>3, <3>1, ScrollInvStep, DropDownKeeps
  <2>4. ASSUME BeginDraggingTable PROVE ScrollInv' /\ TitlesInv'
    <3>1. UNCHANGED widgetVars
      BY <2>4 DEF BeginDraggingTable
    <3> QED
      BY <1>0, <1>1, <2>1, <2>4, <3>1, ScrollInvStep
  <2> QED
    BY <1>2, <2>1, <2>2, <2>3, <2>4 DEF FeedTouched
<1>4. ASSUME FeedMoves, UNCHANGED <<chooserVars, composer>>
      PROVE  ScrollInv' /\ TitlesInv' /\ RestingIsSelected'
  <2>1. UNCHANGED widgetVars
    BY <1>4 DEF FeedMoves, ScrollTable, SettleTable, ResizeTable
  <2> QED
    BY <1>0, <1>1, <1>2, <1>4, <2>1, ScrollInvStep
<1>5. ASSUME OnComposer(ChooserNext) PROVE ScrollInv' /\ TitlesInv' /\ RestingIsSelected'
  <2>1. UNCHANGED widgetVars /\ UNCHANGED scrollVars /\ UNCHANGED composer /\ ChooserNext
    BY <1>5 DEF OnComposer, feedScreenVars
  <2> QED
    BY <1>0, <1>1, <2>1, ScrollInvStep, ChooserKeeps
<1>6. ASSUME ToCreatePost PROVE ScrollInv' /\ TitlesInv' /\ RestingIsSelected'
  <2>1. UNCHANGED widgetVars /\ UNCHANGED scrollVars /\ composer' = currentSelectedSystem
        /\ NewChooser
    BY <1>6 DEF ToCreatePost, feedScreenVars
  <2>2. TitlesInv'
    BY <1>0, <2>1 DEF widgetVars, TitlesInv, PostsGoUnderTheTitle
  <2> QED
    BY <1>0, <2>1, <2>2, ScrollInvStep, NewChooserRests
<1>7. ASSUME Back PROVE ScrollInv' /\ TitlesInv' /\ RestingIsSelected'
  <2>1. UNCHANGED widgetVars /\ UNCHANGED scrollVars /\ composer' = NoComposer /\ NewChooser
    BY <1>7 DEF Back, feedScreenVars
  <2>2. TitlesInv'
    BY <1>0, <2>1 DEF widgetVars, TitlesInv, PostsGoUnderTheTitle
  <2> QED
    BY <1>0, <2>1, <2>2, ScrollInvStep, NewChooserRests
<1>8. ASSUME UNCHANGED vars PROVE ScrollInv' /\ TitlesInv' /\ RestingIsSelected'
  <2>1. UNCHANGED widgetVars /\ UNCHANGED scrollVars /\ UNCHANGED composer /\ UNCHANGED chooserVars
    BY <1>8 DEF vars, feedScreenVars
  <2> QED
    BY <1>0, <1>1, <1>2, <2>1, ScrollInvStep
<1>9. ScrollInv' /\ TitlesInv' /\ RestingIsSelected'
  BY <1>3, <1>4, <1>5, <1>6, <1>7, <1>8 DEF Next
<1> QED
  BY <1>9 DEF ScrollInv, ScreensInv

\* The invariant holds in every behaviour of the screens.
THEOREM ScreensSafety == Spec => []ScreensInv
<1>1. ASSUME Init PROVE ScreensInv
  <2>1. /\ contentOffset \in Int /\ length \in Int /\ lastContentOffset = NoOffset
        /\ floatingButtonIsVisible
    BY <1>1 DEF Init, FeedScreenInit
  <2>2. /\ title = [b \in DropDowns |-> IF b = "systemDropDown" THEN "PS4" ELSE "Duel"]
        /\ currentSelectedSystem = "PS4" /\ composer = NoComposer
    BY <1>1 DEF Init, FeedScreenInit
  <2>3. TitlesInv
    BY <2>2 DEF TitlesInv, PostsGoUnderTheTitle, DropDowns
  <2>4. RestingIsSelected
    BY <1>1 DEF Init, ChooserInit, RestingIsSelected
  <2> QED
    BY <2>1, <2>3, <2>4 DEF ScreensInv, ButtonFollowsDrag
<1> QED
  BY <1>1, ScreensInvStep, PTL DEF Spec

\* The floating button is where the last drag and the table's offset put it.
THEOREM ButtonFollows == Spec => []ButtonFollowsDrag
<1>1. ScreensInv => ButtonFollowsDrag
  BY DEF ScreensInv
<1> QED
  BY <1>1, ScreensSafety, PTL

\* The composer's copy of the system is what the feed's title says.
THEOREM PostsUnderTitle == Spec => []PostsGoUnderTheTitle
<1>1. ScreensInv => PostsGoUnderTheTitle
  BY DEF ScreensInv, TitlesInv
<1> QED
  BY <1>1, ScreensSafety, PTL

\* A selector that rests covers the selected segment, unless a drag went unheard.
THEOREM RestingSelected == Spec => []RestingIsSelected
<1>1. ScreensInv => RestingIsSelected
  BY DEF ScreensInv
<1> QED
  BY <1>1, ScreensSafety, PTL

----------------------------------------------------------------------------
\* The drop-downs and the table stay typed under a touch, a drag and a reload.
LEMMA FeedTouchTyped ==
    ASSUME FeedScreenTypeOK, FeedTouched PROVE FeedScreenTypeOK'
<1>1. ASSUME NEW button \in DropDowns, TouchDropDown(button) PROVE FeedScreenTypeOK'
  BY <1>1 DEF TouchDropDown, FeedScreenTypeOK, scrollVars
<1>2. ASSUME NEW button \in DropDowns, NEW string \in dropDownOptions(button),
             DropDownClicked(button, string)
      PROVE  FeedScreenTypeOK'
  <2>1. /\ title' = [title EXCEPT ![button] = string] /\ ReloadTable(string, button)
        /\ isOpen' = [isOpen EXCEPT ![button] = FALSE] /\ UNCHANGED scrollVars
    BY <1>2 DEF DropDownClicked
  <2>2. CASE button = "systemDropDown"
    <3>1. /\ string \in Systems /\ currentSelectedSystem' = string
          /\ UNCHANGED currentSelectedGameType
      BY <2>1, <2>2 DEF ReloadTable, dropDownOptions
    <3> QED
      BY <2>1, <3>1 DEF FeedScreenTypeOK, scrollVars
  <2>3. CASE button = "gameTypeDropDown"
    <3>1. /\ string \in GameTypes /\ currentSelectedGameType' = string
          /\ UNCHANGED currentSelectedSystem
      BY <2>1, <2>3 DEF ReloadTable, dropDownOptions
    <3> QED
      BY <2>1, <3>1 DEF FeedScreenTypeOK, scrollVars
  <2> QED
    BY <2>2, <2>3 DEF DropDowns
<1>3. ASSUME BeginDraggingTable PROVE FeedScreenTypeOK'
  BY <1>3 DEF BeginDraggingTable, FeedScreenTypeOK, widgetVars
<1> QED
  BY <1>1, <1>2, <1>3 DEF FeedTouched

\* Where a scroll puts the button is a Boolean.
LEMMA VisibleTyped ==
    ASSUME FeedScreenTypeOK, NEW offset \in Offsets PROVE VisibleAfterScroll(offset) \in BOOLEAN
<1>1. CASE lastContentOffset = NoOffset
  BY <1>1 DEF FeedScreenTypeOK, VisibleAfterScroll
<1>2. CASE lastContentOffset # NoOffset
  <2>1. (lastContentOffset > offset) \in BOOLEAN
    OBVIOUS
  <2> QED
    BY <1>2, <2>1 DEF FeedScreenTypeOK, VisibleAfterScroll
<1> QED
  BY <1>1, <1>2

LEMMA FeedMovesTyped ==
    ASSUME FeedScreenTypeOK, FeedMoves PROVE FeedScreenTypeOK'
<1>1. ASSUME NEW offset \in Offsets, ScrollTable(offset) PROVE FeedScreenTypeOK'
  <2>1. /\ contentOffset' = offset /\ floatingButtonIsVisible' = VisibleAfterScroll(offset)
        /\ UNCHANGED widgetVars /\ UNCHANGED <<length, lastContentOffset, dragged>>
    BY <1>1 DEF ScrollTable
  <2> QED
    BY <2>1, VisibleTyped DEF FeedScreenTypeOK, widgetVars
<1>2. ASSUME SettleTable PROVE FeedScreenTypeOK'
  BY <1>2 DEF SettleTable, FeedScreenTypeOK, widgetVars
<1>3. ASSUME NEW n \in 0..MaxLength, ResizeTable(n) PROVE FeedScreenTypeOK'
  <2> DEFINE offset == IF contentOffset > n THEN n ELSE contentOffset
  <2>1. offset \in Offsets
    BY ScreenAssumption DEF FeedScreenTypeOK, Offsets
  <2>2. /\ contentOffset' = offset /\ length' = n
        /\ UNCHANGED widgetVars /\ UNCHANGED <<lastContentOffset, dragged>>
        /\ floatingButtonIsVisible' =
              IF offset = contentOffset THEN floatingButtonIsVisible
              ELSE VisibleAfterScroll(offset)
    BY <1>3 DEF ResizeTable
  <2> HIDE DEF offset
  <2>3. floatingButtonIsVisible' \in BOOLEAN
    BY <2>1, <2>2, VisibleTyped DEF FeedScreenTypeOK
  <2> QED
    BY <2>1, <2>2, <2>3 DEF FeedScreenTypeOK, widgetVars
<1> QED
  BY <1>1, <1>2, <1>3 DEF FeedMoves

\* A segment has its place, and a place in range its segment.
LEMMA PlacesOfSegments ==
    /\ \A segment \in Segments : At(segment) \in Positions
    /\ \A position \in InRange : SegmentAt(position) \in Segments
BY SegmentsAssumption DEF Segments, At, SegmentAt, InRange, Positions

LEMMA ChooserTyped ==
    ASSUME ChooserTypeOK, ChooserNext PROVE ChooserTypeOK'
<1> USE DEF ChooserTypeOK
<1>1. ASSUME NEW segment \in Segments, TouchBeside(segment) PROVE ChooserTypeOK'
  BY <1>1 DEF TouchBeside
<1>2. ASSUME EndScrollingAnimation PROVE ChooserTypeOK'
  BY <1>2, PlacesOfSegments DEF EndScrollingAnimation
<1>3. ASSUME BeginDragging PROVE ChooserTypeOK'
  BY <1>3 DEF BeginDragging
<1>4. ASSUME NEW position \in Positions, Catch(position) PROVE ChooserTypeOK'
  BY <1>4, PlacesOfSegments DEF Catch
<1>5. ASSUME NEW position \in Positions, Drag(position) PROVE ChooserTypeOK'
  BY <1>5 DEF Drag
<1>6. ASSUME NEW segment \in Segments, EndDragging(segment) PROVE ChooserTypeOK'
  BY <1>6 DEF EndDragging
<1>7. ASSUME EndDecelerating PROVE ChooserTypeOK'
  BY <1>7, PlacesOfSegments DEF EndDecelerating
<1>8. ASSUME TouchCancelled \/ TapRecognized PROVE ChooserTypeOK'
  BY <1>8 DEF TouchCancelled, TapRecognized
<1> QED
  BY <1>1, <1>2, <1>3, <1>4, <1>5, <1>6, <1>7, <1>8 DEF ChooserNext

\* There is a first segment, and the selector has a place on it.
LEMMA FirstSegment == 0 \in Segments /\ At(0) \in Positions
<1>1. 0 \in Segments
  BY SegmentsAssumption DEF Segments
<1> QED
  BY <1>1, PlacesOfSegments

LEMMA NewChooserTyped == NewChooser => ChooserTypeOK'
BY FirstSegment DEF NewChooser, ChooserTypeOK

LEMMA TypeOKStep == TypeOK /\ [Next]_vars => TypeOK'
<1> SUFFICES ASSUME TypeOK, [Next]_vars PROVE TypeOK'
  OBVIOUS
<1> USE DEF TypeOK
<1>1. ASSUME UNCHANGED chooserVars PROVE ChooserTypeOK'
  BY <1>1 DEF chooserVars, ChooserTypeOK
<1>2. ASSUME UNCHANGED feedScreenVars PROVE FeedScreenTypeOK'
  BY <1>2 DEF feedScreenVars, widgetVars, scrollVars, FeedScreenTypeOK
<1>3. ASSUME OnFeed(FeedTouched) PROVE TypeOK'
  BY <1>1, <1>3, FeedTouchTyped DEF OnFeed
<1>4. ASSUME FeedMoves, UNCHANGED <<chooserVars, composer>> PROVE TypeOK'
  BY <1>1, <1>4, FeedMovesTyped
<1>5. ASSUME OnComposer(ChooserNext) PROVE TypeOK'
  BY <1>2, <1>5, ChooserTyped DEF OnComposer
<1>6. ASSUME ToCreatePost PROVE TypeOK'
  <2>1. composer' \in Systems
    BY <1>6 DEF ToCreatePost, FeedScreenTypeOK
  <2> QED
    BY <1>2, <1>6, <2>1, NewChooserTyped DEF ToCreatePost
<1>7. ASSUME Back PROVE TypeOK'
  BY <1>2, <1>7, NewChooserTyped DEF Back
<1>8. ASSUME UNCHANGED vars PROVE TypeOK'
  BY <1>1, <1>2, <1>8 DEF vars
<1> QED
  BY <1>3, <1>4, <1>5, <1>6, <1>7, <1>8 DEF Next

\* Both screens' widgets are well typed: above all, each selection is one of its
\* own drop-down's options, and the selector and its segment go together in range.
THEOREM ScreensTyping == Spec => []TypeOK
<1>1. ASSUME Init PROVE TypeOK
  <2>1. FeedScreenTypeOK
    <3>1. "PS4" \in Systems /\ "Duel" \in GameTypes /\ 0 \in 0..MaxLength /\ 0 \in Offsets
      BY ScreenAssumption DEF Offsets
    <3>2. /\ title \in [DropDowns -> Systems \cup GameTypes]
          /\ isOpen \in [DropDowns -> BOOLEAN]
      BY <1>1, <3>1 DEF Init, FeedScreenInit
    <3> QED
      BY <1>1, <3>1, <3>2 DEF Init, FeedScreenInit, FeedScreenTypeOK
  <2>2. ChooserTypeOK
    BY <1>1, FirstSegment DEF Init, ChooserInit, ChooserTypeOK
  <2> QED
    BY <1>1, <2>1, <2>2 DEF Init, TypeOK
<1> QED
  BY <1>1, TypeOKStep, PTL DEF Spec

----------------------------------------------------------------------------
\* What makes the control deaf.  A finger beside the selector keeps it from being
\* dragged, so that when the selector has come to rest under the finger, it was by
\* a deceleration, whose callback has selected that segment.
DeafInv ==
    /\ DeafOnlyWhereTapped
    /\ touched # NoTouch =>
          /\ isUserInteractionEnabled /\ motion \in {"rest", "decelerating"}
          /\ motion = "rest" /\ selector = At(touched) => currentSegment = touched

LEMMA DeafStep == TypeOK /\ DeafInv /\ [Next]_vars => DeafInv'
<1> SUFFICES ASSUME ChooserTypeOK, DeafInv, [Next]_vars PROVE DeafInv'
  BY DEF TypeOK
<1> USE DEF DeafInv, DeafOnlyWhereTapped
<1>1. ASSUME UNCHANGED chooserVars PROVE DeafInv'
  BY <1>1 DEF chooserVars, At
<1>2. ASSUME NewChooser PROVE DeafInv'
  BY <1>2 DEF NewChooser
<1>3. ASSUME NEW segment \in Segments, TouchBeside(segment) PROVE DeafInv'
  BY <1>3 DEF TouchBeside
<1>4. ASSUME TouchCancelled \/ TapRecognized PROVE DeafInv'
  BY <1>4 DEF TouchCancelled, TapRecognized
<1>5. ASSUME EndScrollingAnimation \/ BeginDragging PROVE DeafInv'
  BY <1>5 DEF EndScrollingAnimation, BeginDragging
<1>6. ASSUME NEW position \in Positions, Catch(position) \/ Drag(position) PROVE DeafInv'
  BY <1>6 DEF Catch, Drag
<1>7. ASSUME NEW segment \in Segments, EndDragging(segment) PROVE DeafInv'
  BY <1>7 DEF EndDragging
<1>8. ASSUME EndDecelerating PROVE DeafInv'
  <2>1. /\ motion' = "rest" /\ selector' = At(target) /\ currentSegment' = target
        /\ touched' = touched /\ isUserInteractionEnabled /\ isUserInteractionEnabled'
    BY <1>8 DEF EndDecelerating
  <2>2. touched # NoTouch /\ At(target) = At(touched) => target = touched
    BY DEF ChooserTypeOK, Segments, At
  <2> QED
    BY <2>1, <2>2 DEF At
<1>9. ASSUME ChooserNext PROVE DeafInv'
  BY <1>3, <1>4, <1>5, <1>6, <1>7, <1>8, <1>9 DEF ChooserNext
<1> QED
  BY <1>1, <1>2, <1>9 DEF Next, OnFeed, OnComposer, ToCreatePost, Back, vars

\* A control that takes no touch has an animation to end, or is on the segment that
\* was tapped, which is the selected one: for any number of segments, it is never
\* left deaf with another segment selected than the last tap was for.
THEOREM DeafWhereTapped == Spec => []DeafOnlyWhereTapped
<1>1. Init => DeafInv
  BY DEF Init, ChooserInit, DeafInv, DeafOnlyWhereTapped
<1>2. DeafInv => DeafOnlyWhereTapped
  BY DEF DeafInv
<1> QED
  BY <1>1, <1>2, DeafStep, ScreensTyping, PTL DEF Spec
=============================================================================
