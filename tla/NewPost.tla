------------------------------ MODULE NewPost ------------------------------
(***************************************************************************)
(* NewPostController: the screen a post is written on, and what becomes of *)
(* the post between the tap on the button and the server.                  *)
(*                                                                         *)
(* The text view has no placeholder of its own.  The delegate methods fake *)
(* one with the text "Body of post" in light gray, and tell it from what   *)
(* the user wrote by that text and that colour alone.  A text is a         *)
(* sequence of chunks, one of which is the placeholder's text, so that the *)
(* user can write exactly that text too.                                   *)
(***************************************************************************)
EXTENDS Catalog

CONSTANTS
    Systems,    \* the titles the feed may pass on
    GameTypes,  \* the segments of gameTypeChooser in this instance
    Ranks,      \* the segments of rankChooser in this instance
    MaxText,    \* bound: the chunks of a text
    MaxTaps     \* bound: taps on the post button

ASSUME ComposerAssumption ==
    /\ Systems \subseteq SystemOptions
    /\ GameTypes \subseteq 0..3 /\ 0 \in GameTypes
    /\ Ranks \subseteq 0..6 /\ 0 \in Ranks
    /\ MaxText \in Nat \ {0} /\ MaxTaps \in Nat

VARIABLES
    open,           \* the composer is the top view controller
    system,         \* currentSelectedSystem, set by toCreatePost
    text,           \* postBody.text
    gray,           \* postBody.textColor == .lightGray
    editing,        \* postBody is the first responder
    rankSegment,    \* rankChooser.currentSegment
    gameSegment,    \* gameTypeChooser.currentSegment
    outbox,         \* writes the client has made and the server not answered
    server,         \* the posts of the database, in the order they arrived
    typed,          \* history: what the user has entered
    taps            \* history: how often the button was tapped

screenVars == <<open, system, text, gray, editing, rankSegment, gameSegment, typed>>
vars == <<open, system, text, gray, editing, rankSegment, gameSegment, outbox,
          server, typed, taps>>

----------------------------------------------------------------------------
Chunks == {"Body of post", "word"}

\* let placeholder
placeholder == <<"Body of post">>

Texts == UNION {[1..n -> Chunks] : n \in 0..MaxText}

Places == {<<SystemKey(s), ComposerGameTypes[g + 1]>> : s \in Systems, g \in GameTypes}

Written == [place : Places, rank : {PostTypes[r + 1] : r \in Ranks}, body : Texts]

\* text with the chunks after i up to j replaced by new.
Splice(t, i, j, new) == SubSeq(t, 1, i) \o new \o SubSeq(t, j + 1, Len(t))

TypeOK ==
    /\ open \in BOOLEAN /\ system \in Systems
    /\ text \in Texts /\ typed \in Texts
    /\ gray \in BOOLEAN /\ editing \in BOOLEAN
    /\ rankSegment \in Ranks /\ gameSegment \in GameTypes
    /\ outbox \in Seq(Written) /\ server \in Seq(Written)
    /\ taps \in 0..MaxTaps

Init ==
    /\ open = FALSE /\ system \in Systems
    /\ text = placeholder /\ gray = TRUE /\ editing = FALSE
    /\ rankSegment = 0 /\ gameSegment = 0
    /\ outbox = <<>> /\ server = <<>>
    /\ typed = <<>> /\ taps = 0

----------------------------------------------------------------------------
\* toCreatePost pushes a new controller; viewDidLoad makes the storyboard's
\* text gray, and the choosers start on their first segment.
Open(title) ==
    /\ ~open /\ open' = TRUE
    /\ system' = title
    /\ text' = placeholder /\ gray' = TRUE /\ editing' = FALSE
    /\ rankSegment' = 0 /\ gameSegment' = 0
    /\ typed' = <<>>
    /\ UNCHANGED <<outbox, server, taps>>

\* The back button; the writes belong to the client, not to the screen.
Close ==
    /\ open /\ open' = FALSE
    /\ editing' = FALSE
    /\ UNCHANGED <<system, text, gray, rankSegment, gameSegment, outbox, server, typed, taps>>

SelectRank(segment) ==
    /\ open
    /\ rankSegment' = segment
    /\ UNCHANGED <<open, system, text, gray, editing, gameSegment, outbox, server, typed, taps>>

SelectGameType(segment) ==
    /\ open
    /\ gameSegment' = segment
    /\ UNCHANGED <<open, system, text, gray, editing, rankSegment, outbox, server, typed, taps>>

\* textViewDidBeginEditing moves the cursor, which an edit chooses freely.
BeginEditing ==
    /\ open /\ ~editing
    /\ editing' = TRUE
    /\ UNCHANGED <<open, system, text, gray, rankSegment, gameSegment, outbox, server, typed, taps>>

\* textViewDidChangeSelection keeps the cursor before the placeholder.
Selectable(i, j) ==
    /\ i <= j /\ j <= Len(text)
    /\ (text = placeholder /\ gray) => j = 0

\* Mutant: the colour is not looked at.
TakesPlaceOfText(new) == new # <<>> /\ text = placeholder

\* shouldChangeTextIn: the first text entered takes the placeholder's place.
TakesPlace(new) == new # <<>> /\ text = placeholder /\ gray

\* Mutant: nothing is done about a text that was deleted to its end.
ChangedToNothing(t, isGray) ==
    IF t = placeholder /\ isGray THEN [text |-> <<>>, gray |-> FALSE]
    ELSE [text |-> t, gray |-> isGray]

\* textViewDidChange: what is left of a text and its colour after an edit.
Changed(t, isGray) ==
    IF t = placeholder /\ isGray THEN [text |-> <<>>, gray |-> FALSE]
    ELSE IF t = <<>> THEN [text |-> placeholder, gray |-> TRUE]
    ELSE [text |-> t, gray |-> isGray]

\* The user types, pastes, cuts or deletes: the system asks shouldChangeTextIn,
\* makes the change to the selection and calls textViewDidChange.
Edit(i, j, new) ==
    /\ open /\ editing
    /\ Selectable(i, j) /\ (i # j \/ new # <<>>)
    /\ LET base    == IF TakesPlace(new) THEN <<>> ELSE text
           changed == Changed(Splice(base, i, j, new), gray /\ ~TakesPlace(new))
       IN  /\ Len(Splice(base, i, j, new)) <= MaxText
           /\ text' = changed.text /\ gray' = changed.gray
    /\ typed' = Splice(typed, i, j, new)
    /\ UNCHANGED <<open, system, editing, rankSegment, gameSegment, outbox, server, taps>>

\* textViewDidEndEditing.
EndEditing ==
    /\ open /\ editing
    /\ editing' = FALSE
    /\ text' = IF text = <<>> THEN placeholder ELSE text
    /\ gray' = (gray \/ text = <<>>)
    /\ UNCHANGED <<open, system, rankSegment, gameSegment, outbox, server, typed, taps>>

\* Mutant: the system is written as it is titled.
PostPostTitled ==
    /\ open /\ taps < MaxTaps
    /\ taps' = taps + 1
    /\ outbox' = Append(outbox,
          [place |-> <<system, ComposerGameTypes[gameSegment + 1]>>,
           rank |-> PostTypes[rankSegment + 1], body |-> text])
    /\ UNCHANGED screenVars /\ UNCHANGED server

\* postPost(): nothing keeps the button from being tapped again, and the screen
\* stays open.
PostPost ==
    /\ open /\ taps < MaxTaps
    /\ taps' = taps + 1
    /\ outbox' = Append(outbox,
          [place |-> <<SystemKey(system), ComposerGameTypes[gameSegment + 1]>>,
           rank |-> PostTypes[rankSegment + 1], body |-> text])
    /\ UNCHANGED screenVars /\ UNCHANGED server

\* The client sends its writes in order; the server takes one ...
Accepted ==
    /\ outbox # <<>>
    /\ outbox' = Tail(outbox)
    /\ server' = Append(server, Head(outbox))
    /\ UNCHANGED screenVars /\ UNCHANGED taps

\* ... or refuses it, which postPost has no completion block to hear of.
Refused ==
    /\ outbox # <<>>
    /\ outbox' = Tail(outbox)
    /\ UNCHANGED screenVars /\ UNCHANGED <<server, taps>>

\* The process dies; persistence is not enabled, so its writes die with it.
Dies ==
    /\ open' = FALSE /\ editing' = FALSE
    /\ outbox' = <<>>
    /\ UNCHANGED <<system, text, gray, rankSegment, gameSegment, server, typed, taps>>

Next ==
    \/ \E title \in Systems : Open(title)
    \/ Close
    \/ \E segment \in Ranks : SelectRank(segment)
    \/ \E segment \in GameTypes : SelectGameType(segment)
    \/ BeginEditing
    \/ \E i, j \in 0..MaxText, new \in {<<>>, placeholder, <<"word">>} : Edit(i, j, new)
    \/ EndEditing
    \/ PostPost
    \/ Accepted
    \/ Refused
    \/ Dies

Spec == Init /\ [][Next]_vars

----------------------------------------------------------------------------
\* The delegate methods never take the user's text for the placeholder or the
\* placeholder for the user's text, even when the two are the same: the view is
\* gray exactly while the user has entered nothing, and otherwise shows what was
\* entered, to be posted as it is.
ShownIsTyped ==
    /\ gray <=> typed = <<>>
    /\ text = IF gray THEN placeholder ELSE typed

\* No post goes out without a text, although postPost does not look: whatever
\* order editing, clearing, leaving the text view and tapping come in.
NoEmptyPost ==
    /\ \A i \in DOMAIN outbox : outbox[i].body # <<>>
    /\ \A i \in DOMAIN server : server[i].body # <<>>

\* The faked placeholder is as good as a real one: the screen is a form whose text
\* view holds nothing while the text is gray, and what is posted is what the text
\* view and the choosers hold, stored in the order of the taps.
TheForm == INSTANCE Form WITH
    Hint    <- placeholder,
    Pieces  <- {<<>>, placeholder, <<"word">>},
    fields  <- [place |-> <<SystemKey(system), ComposerGameTypes[gameSegment + 1]>>,
                rank  |-> PostTypes[rankSegment + 1]],
    entered <- IF gray THEN <<>> ELSE text,
    waiting <- outbox,
    stored  <- server

IsAForm == TheForm!Spec

\* The composer calls its first game type "Singles" (line 161); the feed offers
\* "Duel", "Doubles", "Standard" and "Solo Standard" (PartnerPostsController,
\* line 92).  Whatever is posted is under a place the feed can select.
EveryPostReadable ==
    \A i \in DOMAIN server :
        \E s \in SystemOptions, g \in GameTypeOptions :
            server[i].place = <<SystemKey(s), GameTypeKey(g)>>

============================================================================
