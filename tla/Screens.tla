------------------------------ MODULE Screens ------------------------------
(***************************************************************************)
(* The two screens a post goes through, as the user handles them: the feed *)
(* with its drop-downs and its floating button, and the composer that the  *)
(* button pushes over it.  The composer keeps a copy of the selected system*)
(* and choosers of its own, new with every push.  While it is on top, none *)
(* of the feed's controls can be touched, but the feed's table still       *)
(* settles, and is reloaded by answers that come late.                     *)
(*                                                                         *)
(* One chooser stands for both: they share nothing but their class.  What  *)
(* the composer writes is in NewPost; here is what it writes it by.        *)
(***************************************************************************)
EXTENDS FeedScreen, SegmentedControl

CONSTANT NoComposer     \* the composer's system while there is no composer

ASSUME ComposerAssumption == NoComposer \notin Systems

VARIABLE composer       \* vc.currentSelectedSystem of the composer on top

vars == <<feedScreenVars, chooserVars, composer>>

----------------------------------------------------------------------------
TypeOK ==
    /\ FeedScreenTypeOK /\ ChooserTypeOK
    /\ composer \in Systems \cup {NoComposer}

Init ==
    /\ FeedScreenInit /\ ChooserInit
    /\ composer = NoComposer

OnFeed(action) ==
    /\ composer = NoComposer
    /\ action
    /\ UNCHANGED <<chooserVars, composer>>

OnComposer(action) ==
    /\ composer # NoComposer
    /\ action
    /\ UNCHANGED <<feedScreenVars, composer>>

\* toCreatePost: a tap on the floating button, which is off the screen when it
\* is not visible.
ToCreatePost ==
    /\ composer = NoComposer /\ floatingButtonIsVisible
    /\ composer' = currentSelectedSystem
    /\ NewChooser
    /\ UNCHANGED feedScreenVars

\* The back button.
Back ==
    /\ composer # NoComposer
    /\ composer' = NoComposer
    /\ NewChooser
    /\ UNCHANGED feedScreenVars

FeedTouched ==
    \/ \E button \in DropDowns : TouchDropDown(button)
    \/ \E button \in DropDowns : \E string \in dropDownOptions(button) :
          DropDownClicked(button, string)
    \/ BeginDraggingTable

FeedMoves ==
    \/ \E offset \in Offsets : ScrollTable(offset)
    \/ SettleTable
    \/ \E n \in 0..MaxLength : ResizeTable(n)

Next ==
    \/ OnFeed(FeedTouched)
    \/ FeedMoves /\ UNCHANGED <<chooserVars, composer>>
    \/ OnComposer(ChooserNext)
    \/ ToCreatePost
    \/ Back

Spec == Init /\ [][Next]_vars

\* UIKit runs an animation to its end; users owe nothing.
FairSpec == Spec /\ WF_vars(OnComposer(EndScrollingAnimation))

----------------------------------------------------------------------------
\* The floating button is hidden only while the table is below, and shown only
\* while it is above, the place where the last drag began (scrollViewDidScroll,
\* line 369): however reloads and collapsing sections move the table between
\* drags, and although movePostButton only toggles.
ButtonFollowsDrag ==
    IF lastContentOffset = NoOffset THEN floatingButtonIsVisible
    ELSE IF floatingButtonIsVisible THEN contentOffset <= lastContentOffset
    ELSE contentOffset >= lastContentOffset

\* The composer posts for the system that the feed below it is titled with,
\* although it keeps a copy from when it was pushed (toCreatePost, line 420):
\* no list left unfolded, and no other drop-down, can change one alone.
PostsGoUnderTheTitle ==
    composer # NoComposer => composer = title["systemDropDown"]

\* The segment the composer posts by is the one under the selector whenever it
\* rests, unless the drag that put it there was let go exactly on a segment and
\* so ended without a callback (scrollViewDidEndDecelerating, line 1503).
RestingIsSelected ==
    motion = "rest" /\ ~unheard => selector = At(currentSegment)

\* The control takes no touch (tapWasRecognized, line 547) only while an animation
\* is on its way, so that there is an end of it to be told of (line 1515), or where
\* the last tap was meant for the segment that a drag had come to meanwhile.  Then
\* nothing enables it again; but that segment is the selected one, so that what is
\* posted is what was tapped.
DeafOnlyWhereTapped ==
    IF isUserInteractionEnabled THEN motion # "animated"
    ELSE motion = "animated" \/ (motion = "rest" /\ selector = At(target) /\ currentSegment = target)

\* A tap that the control went deaf for is heard: its segment becomes the selected
\* one, or the composer is left.
TapIsHeard ==
    \A segment \in Segments :
        (~isUserInteractionEnabled /\ target = segment)
        ~>
        (currentSegment = segment \/ composer = NoComposer)

=============================================================================
