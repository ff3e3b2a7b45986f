-------------------------- MODULE SegmentedControl --------------------------
(***************************************************************************)
(* SJFluidSegmentedControl, the chooser of the composer: a selector that   *)
(* is scrolled over a row of segments, by a tap beside it or by a drag.    *)
(*                                                                         *)
(* The selector is where the scroll view is; currentSegment, by which the  *)
(* composer posts, follows only in the callbacks that end an animation or  *)
(* a deceleration.  Positions count half segments, so that the selector    *)
(* can be between two segments, and one step beyond either end, where the  *)
(* scroll view bounces.  Callbacks and touches run on the main queue, and  *)
(* there is one finger.                                                    *)
(***************************************************************************)
EXTENDS Integers

CONSTANTS
    segmentsCount,
    NoTouch         \* where there is no finger beside the selector

ASSUME SegmentsAssumption ==
    /\ segmentsCount \in Nat \ {0, 1}
    /\ NoTouch \notin 0..(segmentsCount - 1)

VARIABLES
    currentSegment,             \* what the composer reads
    selector,                   \* where the selector is, in half segments
    motion,                     \* what moves the selector
    target,                     \* the segment it was last sent to
    touched,                    \* the segment a finger beside the selector is on
    isUserInteractionEnabled,
    unheard                     \* history: the last drag ended without a callback

chooserVars == <<currentSegment, selector, motion, target, touched,
                 isUserInteractionEnabled, unheard>>

----------------------------------------------------------------------------
Segments == 0..(segmentsCount - 1)

\* offsetFromSegment: the selector covers a segment.
At(segment) == 2 * segment

\* segmentFromOffset: half way between two segments counts as the first.
SegmentAt(position) == position \div 2

InRange == 0..At(segmentsCount - 1)

Positions == -1..(At(segmentsCount - 1) + 1)

ChooserTypeOK ==
    /\ currentSegment \in Segments /\ target \in Segments
    /\ selector \in Positions /\ touched \in Segments \cup {NoTouch}
    /\ motion \in {"rest", "dragged", "decelerating", "animated"}
    /\ isUserInteractionEnabled \in BOOLEAN /\ unheard \in BOOLEAN

\* A new control: its first layout puts the selector on the first segment.
ChooserInit ==
    /\ currentSegment = 0 /\ target = 0
    /\ selector = At(0) /\ motion = "rest" /\ touched = NoTouch
    /\ isUserInteractionEnabled = TRUE /\ unheard = FALSE

\* A new control in the place of an old one.
NewChooser ==
    /\ currentSegment' = 0 /\ target' = 0
    /\ selector' = At(0) /\ motion' = "rest" /\ touched' = NoTouch
    /\ isUserInteractionEnabled' = TRUE /\ unheard' = FALSE

----------------------------------------------------------------------------
\* A finger goes down beside the selector, on one of the views that lie above the
\* scroll view there: a selector on its way is not stopped.
TouchBeside(segment) ==
    /\ isUserInteractionEnabled /\ touched = NoTouch
    /\ motion = "decelerating" \/ (motion = "rest" /\ selector # At(segment))
    /\ touched' = segment
    /\ UNCHANGED <<currentSegment, selector, motion, target, isUserInteractionEnabled, unheard>>

\* It was no tap.
TouchCancelled ==
    /\ touched # NoTouch
    /\ touched' = NoTouch
    /\ UNCHANGED <<currentSegment, selector, motion, target, isUserInteractionEnabled, unheard>>

\* tapWasRecognized, when the finger goes up: no touch counts until the end of an
\* animation.  Where the selector has come to rest in the meantime there is none.
TapRecognized ==
    /\ touched # NoTouch
    /\ isUserInteractionEnabled' = FALSE
    /\ target' = touched /\ touched' = NoTouch
    /\ motion' = IF motion = "rest" /\ selector = At(touched) THEN "rest" ELSE "animated"
    /\ UNCHANGED <<currentSegment, selector, unheard>>

\* Mutant: the end of an animation only enables the control.
EndScrollingAnimationUnheard ==
    /\ motion = "animated"
    /\ motion' = "rest"
    /\ selector' = At(target)
    /\ isUserInteractionEnabled' = TRUE
    /\ unheard' = FALSE
    /\ UNCHANGED <<currentSegment, target, touched>>

\* scrollViewDidEndScrollingAnimation.
EndScrollingAnimation ==
    /\ motion = "animated"
    /\ motion' = "rest"
    /\ selector' = At(target)
    /\ currentSegment' = target
    /\ isUserInteractionEnabled' = TRUE
    /\ unheard' = FALSE
    /\ UNCHANGED <<target, touched>>

\* A finger on a selector at rest.
BeginDragging ==
    /\ isUserInteractionEnabled /\ motion = "rest" /\ touched = NoTouch
    /\ motion' = "dragged"
    /\ UNCHANGED <<currentSegment, selector, target, touched, isUserInteractionEnabled, unheard>>

\* A finger stops a selector that is on its way, anywhere.  UIKit may report the
\* end of the deceleration: out of range that is ignored; otherwise the segment
\* at the selector is the current one and, when it was not before, the selector
\* jumps to it (the observer of currentSegment).
Catch(position) ==
    /\ isUserInteractionEnabled /\ motion = "decelerating" /\ touched = NoTouch
    /\ motion' = "dragged"
    /\ \/ selector' = position /\ UNCHANGED currentSegment
       \/ /\ position \in InRange
          /\ currentSegment' = SegmentAt(position)
          /\ selector' = IF SegmentAt(position) = currentSegment THEN position
                         ELSE At(SegmentAt(position))
    /\ UNCHANGED <<target, touched, isUserInteractionEnabled, unheard>>

\* The selector follows the finger, and bounces beyond the ends.
Drag(position) ==
    /\ motion = "dragged"
    /\ selector' = position
    /\ UNCHANGED <<currentSegment, motion, target, touched, isUserInteractionEnabled, unheard>>

\* scrollViewWillEndDragging sends the selector to the segment nearest to where
\* its velocity would take it.  Where it already is it does not decelerate, and
\* none of the control's callbacks is called.
EndDragging(segment) ==
    /\ motion = "dragged"
    /\ target' = segment
    /\ motion' = IF selector = At(segment) THEN "rest" ELSE "decelerating"
    /\ unheard' = (selector = At(segment))
    /\ UNCHANGED <<currentSegment, selector, touched, isUserInteractionEnabled>>

\* Mutant: the current segment is only set when the selector comes from the left.
EndDeceleratingRightwards ==
    /\ motion = "decelerating"
    /\ motion' = "rest"
    /\ selector' = At(target)
    /\ currentSegment' = IF selector < At(target) THEN target ELSE currentSegment
    /\ unheard' = FALSE
    /\ UNCHANGED <<target, touched, isUserInteractionEnabled>>

\* Mutant: the range of line 1504 leaves out its two ends.
EndDeceleratingBetweenEnds ==
    /\ motion = "decelerating"
    /\ motion' = "rest"
    /\ selector' = At(target)
    /\ currentSegment' = IF target \in 1..(segmentsCount - 2) THEN target ELSE currentSegment
    /\ unheard' = FALSE
    /\ UNCHANGED <<target, touched, isUserInteractionEnabled>>

\* scrollViewDidEndDecelerating, at its target and so in range.
EndDecelerating ==
    /\ motion = "decelerating"
    /\ motion' = "rest"
    /\ selector' = At(target)
    /\ currentSegment' = target
    /\ unheard' = FALSE
    /\ UNCHANGED <<target, touched, isUserInteractionEnabled>>

ChooserNext ==
    \/ \E segment \in Segments : TouchBeside(segment)
    \/ TouchCancelled
    \/ TapRecognized
    \/ EndScrollingAnimation
    \/ BeginDragging
    \/ \E position \in Positions : Catch(position)
    \/ \E position \in Positions : Drag(position)
    \/ \E segment \in Segments : EndDragging(segment)
    \/ EndDecelerating
=============================================================================
