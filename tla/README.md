# Teammate Finder in TLA+

Specifications, model-checking configurations and proofs for the iOS app in
`src/Teammate Finder/Teammate Finder/` (Rocket League Teammate Finder). Line
numbers below are of the Swift files there; `PPC` is
`PartnerPostsController.swift`.

## The system

The app shows posts of players who look for teammates, by system and game type,
in one table with a collapsible section per tier. It has one process with one
main queue; what makes it hard is everything that calls back into that queue
later (database reads, sign-in, UIKit), what UIKit and the disk remember on
their own, and a process that can die at any moment.

| Component | State it keeps | Operations | Hard parts |
|---|---|---|---|
| Post feed (`PPC`) | selection (30, 32), seven arrays of posts (35-41), `isHidden` (44); UIKit: row counts, header cells | `viewDidAppear`, `readDatabase` and its callback (110-173), data source (178-309), `expandPosts` (311), `reloadTable` (518) | overlapping reads, arrays emptied behind the table's back, answers without posts or with an error |
| Session (`User`, `SettingsController`, `AppDelegate`, `PPC` 402-471) | Auth's user, `User.currentUser`, its archive in UserDefaults, the screens | sign-in delegate call, log-out, archive, unarchive, navigation | three copies of the identity, `signOut` that throws, death between two steps, a late disk |
| Composer (`NewPostController`) | text view, choosers, the client's pending writes | the four text view delegate methods, choosers, `postPost` | a placeholder faked by text and colour, writes nobody waits for |
| Drop-downs (`PPC` 518-530, 554-686) | title, `isOpen` | touch, choice of an option | title, selection and read set one after the other; two lists at one place |
| Floating button (`PPC` 365-422) | `floatingButtonIsVisible`, `lastContentOffset` | drag, scroll, tap | a toggle driven by an offset of the last drag, over a table that other things move |
| Segmented control (pod `SJFluidSegmentedControl`) | `currentSegment`; UIKit: where the selector is | tap, drag, the callbacks that end them | what is posted by follows the selector only in callbacks |
| Database client and server (Firebase, binary) | reads and writes without an answer, the server's posts | send, serve, answer, reconnect | lost connections, resends, refusals, deaths |
| `HexConverter` | none | string to colour | parsing, bit fields |
| Statistics requests (`PPC` 476-514) | none | fire and forget | none |

They interact by direct calls on the main queue (drop-down to feed, feed to
composer and settings by pushing a screen), by shared static state
(`User.currentUser`), through the database (composers write what feeds read,
with database keys each side derives from lists of its own) and through
`viewDidAppear`, which makes the feed read again whenever another screen goes.

What makes each correct: the feed shows the posts of the selection, once each,
in their tier, and its table never contradicts its arrays; a session is one
identity and survives relaunches as the user left it; the composer posts what
was entered, where a feed finds it.

## Modules

| Module | Models |
|---|---|
| `Catalog` | titles, database keys, tiers: what feed and composer both name |
| `PostFeed` | the feed and the database reads it depends on |
| `MCPostFeed` | its instances for TLC |
| `PostFeedProofs` | theorems about `PostFeed` |
| `Session`, `MCSession`, `SessionProofs` | who is signed in and which screens that opens |
| `NewPost`, `MCNewPost`, `NewPostProofs` | the composer and its pending writes |
| `Feed` | what a feed promises, whatever table it is shown in |
| `Remembered` | what a session promises: one decision that is remembered |
| `Form` | what a composer promises: a text view with a hint, and fields |
| `Board` | what the app as a whole promises: a notice board |
| `PostFeedAnswers`, `PostFeedRefinement` | counting theorems about `PostFeed`; that it implements `Feed` |
| `FeedScreen` | drop-downs, floating button and the table they lie over |
| `SegmentedControl` | a chooser of the composer |
| `Screens`, `MCScreens`, `ScreensProofs` | feed and composer as the user handles them: `FeedScreen` and `SegmentedControl` together |
| `TeammateFinder`, `MCTeammateFinder`, `TeammateFinderProofs`, `TeammateFinderRefinement` | several devices over one database, and that each table implements `Feed` and all of them `Board` |

### PostFeed

One action is one event handled to its end on the main queue. `posts`,
`isHidden`, `system` and `gameType` are the controller's variables; `rows` and
`caret` are what UIKit shows, which only `Answer` (the reload, 167-169),
`ExpandPosts` (`insertRows`, `deleteRows`) and `ViewForHeader` change. A read is
split into `ReadDatabase`, part of the three actions that call it, and `Answer`
or `Cancelled`. A snapshot is any state of the database from the moment the
read was promised one to the answer (`Promised`: the client may let a later read
of the same place share the answer of an earlier one). `Answer` appends in every
order a dictionary may be iterated in. A tap is checked by `UpdateIsValid`,
which is UIKit's rule; an update against it makes the status `"raised"`. A row
outside its array makes it `"trapped"`. `Relaunch` is always possible. `heard`
is a history variable: the answers received since the arrays were last emptied.

A post stands for its body and is named by its position in `db`. A rank the
switch does not know (the `default` of line 160) is a value of `Ranks` that is no
array's name. The callback's cast to `[String: [String: String]]` (144) traps on
a place that holds anything else; only the composer writes there, always in that
shape, so that trap is left out. How rows are drawn, animations, images and texts are left out.

### Session

The feed is always at the bottom of the navigation stack and every other screen
is pushed from it alone, so `screen` is the top of the stack and `presented` what
is over it. Signing in is two steps, Auth's (`AuthSignsIn`) and the delegate's
(`DidSignIn`), with any death, or a cancelled screen, between them. `Flush` is
UserDefaults reaching the disk; `Relaunch` is a death and the next
`didFinishLaunchingWithOptions`. An archive brings back a user without
properties (`Archived`), because `encode` and `init?(coder:)` are empty.
`posters`, `wantsUser` and `lostWrite` are history variables.

### NewPost

A text is a sequence of chunks, one of which is the placeholder's text, so that
a user can enter that very text. `Edit` is one change by the user: the question
to `shouldChangeTextIn`, the change, the call of `textViewDidChange`, with
`Selectable` for what `textViewDidChangeSelection` allows. `typed` is a history
variable: what the same edits make of an ordinary text view. `PostPost` appends
to `outbox`; the server accepts or refuses the first write; a death loses them
(persistence is never enabled).

### Feed

An abstract feed: a place is chosen, which empties what is shown and asks one
question; an answer adds the posts of the place that was asked for, at least
those that were there when it was asked. Two modules implement it. `PostFeed`
maps `shown` to the number of cells of the arrays that hold a post
(`TimesShown`), and a post to a place if its rank is the name of an array
(`SeenAt`). `TeammateFinder` maps each device by itself (`DeviceFeed(d)`): the
feed's world is what that device's client can see, so that another device's
steps, or the server's consent, are posts written or nothing at all, a refusal
is a post withdrawn, and a death is a restart without the posts only the client
knew of.

### Remembered, Form, Board

The other three abstract specifications, each far from the code that implements it.

`Remembered` is two Booleans, whether the app goes by a user and whether the next
launch will, and four actions: sign in (from nobody), log out (from somebody),
write back, restart. `Session` maps them to `currentUser` and the archive on the
disk, so that Auth's own copy, the archive in memory and every failed or
cancelled step are invisible or one of the four.

`Form` is an ordinary text view with a hint. `NewPost` maps what was entered to
the text view's text while it is black and to nothing while it is gray; the four
delegate methods together are then one replacement of a selection. A hint is
submitted as text, which the code does and the specification says. What may be
chosen in the fields is left open: `Screens` has the choosers.

`Board` has the taps as notices, the database as the board, and the set of the
notices that will never be put up. `TeammateFinder` maps `lost` to the posts that
are in no outbox, not on their way and not in the database (`Lost`); a refusal, a
lost connection and a death may each be the end of several of them, of their own
device only; sending, sending again and a second copy that the server ignores
are invisible. A device sees the board, its own notices that are not lost, and
whatever it has been showing: an answer is never called back.

### FeedScreen, SegmentedControl, Screens

`FeedScreen` has the scroll view delegate (365-397) and the drop-downs. Both
lists unfold at one place (`didMoveToSuperview`, 574), the second in front, so
an option of the first can only be tapped while the second is folded.
`ResizeTable` is what moves the table without a finger: reloads, insertions and
deletions; UIKit puts a table beyond the end of its content back, which calls
`scrollViewDidScroll` like any drag. `ReloadTable` leaves out the read, which is
`PostFeed`'s.

`SegmentedControl` counts positions in half segments. An animation after a tap,
a deceleration and a finger that catches it are states of `motion`, and the
delegate methods that end them are actions.

A tap is two steps, because the selector may move between them. The finger goes
down beside the selector (`TouchBeside`), on one of the two views that lie over
the scroll view left and right of it and have the tap recognizers (338-395,
536-543); so a resting selector is not on the touched segment, and a decelerating
one is not stopped. When the finger goes up, `tapWasRecognized` (545-549) disables
the control and asks for an animated scroll, whatever has happened meanwhile
(`TapRecognized`), unless it was no tap (`TouchCancelled`). If the selector has
come to rest on the touched segment in between, that scroll moves nothing, UIKit
reports no end of an animation, and nothing enables the control again until the
composer is left. `DeafOnlyWhereTapped` says that this is the only way to be left
with a disabled control, and that its segment is then the selected one;
`TapIsHeard` that what was tapped is posted by. Assumed is one finger, and that a
decelerating selector is not just passing over a segment at the very moment its
tap is recognised.

A drag that is let go exactly on a segment does not decelerate: UIKit then calls
`scrollViewDidEndDragging`, which the control does not implement, so
`currentSegment` stays what it was. The history variable `unheard` remembers that
case, and `RestingIsSelected` says that it is the only one in which the composer
posts by another segment than the one under the selector. Rotations, a second
finger and a change of the data source are left out; one chooser stands for the
two, which share nothing.

`Screens` puts both together. While the composer is on top the feed cannot be
touched (`OnFeed`, `OnComposer`), but its table still moves. The floating button
is tapped only when it is on the screen.

### TeammateFinder

A post is named by the tap that made it, as `childByAutoId()` makes its key at
the tap. `outbox` is what a client waits for an answer to, `sent` those of them
that went out on this connection, `wire` those on their way, `acks` those the
answers on their way back are about. Writes are sets: nothing is assumed of the
order in which they are sent, served or answered, since the app relies on none.
`Reconnect` is a connection lost and a new one: any of the copies under way may
still get through (`stale`, `ServeStale`), at any later time and without an
answer, and everything that was not answered is sent again. The server takes or
refuses each copy; a write under a key that is there changes nothing (`Accepts`).
`Die` takes the outbox and what is on screen along, not what is on its way:
persistence is never enabled. Client and server are Firebase's, which is vendored
in binary, so they are modelled from what the app's calls rely on and marked
external, and no property is about them alone: each is about posts, feeds and
taps. Of a place only the system is kept: two places and what lies under them are
told apart by `PostFeed`.

## Runs

| Run | Shows |
|---|---|
| `feed` | The feed's safety. `NeverRaises`: no header tap makes UIKit raise. `TrapOnlyWhenCleared`: the subscript of `cellForRowAt` fails only while the arrays are empty. `CaretUpShowsRows`. `ArraysAreAnswers`: every post is in its tier's array once per answer that found it. `ExactWhenSerial`: reads that do not overlap give exactly the selected posts. `IsAFeed`: the controller implements `Feed`. `FreshPostIsKept`: nothing but a refusal, another read or a death comes between what the current read was promised and its array, and what has arrived stays, in step and without a trap, until the next read. |
| `feed_live` | `FreshPostArrives`: a post that was there when the current read began arrives, with the table in step. |
| `feed_collapsed`, `feed_selection`, `feed_trap` | Three disagreements (below). |
| `session` | `SettingsNeedsUser`, `IdentityNeverMixed`, `DecisionSurvives`; `IsRemembered`: the session implements `Remembered`. |
| `session_restored`, `session_posting` | Two disagreements. |
| `composer` | `ShownIsTyped`, `NoEmptyPost`; `IsAForm`: the composer implements `Form`. |
| `composer_readable` | One disagreement. |
| `screens` | `ButtonFollowsDrag`: the toggle of `movePostButton` never gets out of step with the drags, however reloads move the table. `PostsGoUnderTheTitle`: the composer's copy of the system is what the feed is titled with. `RestingIsSelected` (above). `TapIsHeard`: the segment of a tap the control was disabled for becomes the selected one, or the composer was left. `DeafOnlyWhereTapped`: a control that takes no touch is being animated, so that an end of it will be reported, or has the tapped segment selected and under the selector. |
| `app` | `OnePostPerTap`: resends never make a second post. `OthersSeeAccepted`: only its author can see a post that may still be refused. `LostStaysLost`: a post that is in no outbox, not on its way and not in the database never appears again. `EveryTapIsDecided`: every tap's post gets to the database or is lost for good. `EveryDeviceIsAFeed`: each device's table implements `Feed`. `IsABoard`: all devices together implement `Board`. |

The disagreements, each a run that TLC must find violated:

- `feed_collapsed`: "Section collapsed or not" (`PPC` 43) is not what `isHidden`
  says after a tap while the arrays are empty: the flag is flipped (312), the
  early return (335) leaves the rows.
- `feed_selection`: the titles name one selection, an answer to an earlier one is
  appended under them (138).
- `feed_trap`: rows of the last reload are asked for after `readDatabase` emptied
  the arrays, also when the answer has no posts or is an error; the subscript of
  line 304 traps.
- `session_restored`: `User.swift` 50 and 56 speak of user properties; a restored
  user has none.
- `session_posting`: the alert says that one needs to log in to post (`PPC` 413);
  the composer opens all the same (416-421) and posts.
- `composer_readable`: "Singles" is written under `solo`
  (`NewPostController.swift` 26), which no selection of the feed reads.

### Seeded faults

An operator whose comment begins with "Mutant:" is not part of a specification.
It is the next definition of its kind with a fault a change to the code could
bring in (a missing reset, a dropped early return, a reload of too few
sections); `PROJECT.json` names for every property the fault that breaks it.
`ArchivedWithUid` is worth a look: writing the uid in `encode`, the obvious
repair of `session_restored`, breaks `IdentityNeverMixed` unless a launch also
compares it with Auth's account.

### Bounds

`MaxReads` = 3 reads between two launches: two in flight and one answered is the
smallest case in which arrays, table and selection can all disagree; the third
makes an answer arrive across two changes. `MaxPosts` = 2: two posts of one tier
(order, duplicates), of two tiers (a reload that concerns another section) or
of two places. Two sections and two systems stand for seven and three: the code
treats them alike, and `UpdateIsValid` needs one section besides the tapped one.
An unknown rank is in the safety run only. `feed_live` uses two reads.
`MaxDeaths` = 2 in `session`: one death to lose a change, one more after the
next decision; two accounts for a second sign-in. `MaxText` = 2 chunks: the
placeholder's text alone, and with something before or after; `MaxTaps` = 2.

`screens`: two options for each drop-down (a swapped assignment needs one other
value), three segments (one with neighbours on both sides), a table of up to two
steps longer than the screen with a bounce of one at either end: the offset of
the last drag can lie above, at and below every later one.

`app`: two devices, `phone`, which posts and looks, and `tablet`, which looks;
two taps, so that one post can overtake another or take its key; one copy of each
write left over from lost connections (`MaxStale`), beside the live one: with
both under way the second to come must change nothing. The device that only looks
has two reads open, which makes the answer to the first come after the second;
the author has one (`MCMaxReads`), because a second adds nothing that the other
device does not show and triples the states.
One author is enough for `OthersSeeAccepted` and for the writes of one client; two clients share nothing but `db`, whose order no property depends on.
The theorems hold for any number of each. Deaths and lost connections are not
bounded.

Deadlock is checked everywhere.

### Fairness

Three specifications have fairness; nothing is assumed of users, of other
devices or of the life of a process.

- `PostFeed!FairSpec`: weak fairness of the answer to each read. The client
  retries a read until the server answers or refuses; `Cancelled` stays possible
  and is one of the exceptions of `FreshPostArrives`.
- `Screens!FairSpec`: weak fairness of the end of an animation, which UIKit
  always reports. Decelerations are not assumed to end: a finger may catch them.
- `TeammateFinder!FairSpec`: weak fairness of `Exchange(d)` for each device that
  posts (while there is something to send, serve or hear, one of it happens,
  whichever), and that it does not lose its connection for ever:
  `<>[][~Reconnect(d)]_vars`. A connection that is lost whenever a copy has been
  sent would keep a write undecided, and the client promises no more than to try
  again. Both are assumptions about Firebase, not about the app. A process may die
  at any time; its writes are then lost, which is a decision, too.

## Proofs

For every value of the constants, checked by TLAPS:

- `PostFeedProofs`: `Typing` (`TypeOK`), and with the inductive invariant
  `TableInv` the theorems `TapsNeverRaise`, `TrapsOnlyWhenCleared` and
  `CaretsUpShowRows`. The argument is `TableInStep`: emptying the arrays breaks
  the agreement of rows and data source, but as long as all arrays are empty the
  early return of `expandPosts` keeps every tap away from UIKit, and the first
  post can only come with a reload, which restores it. `NeverRaises` alone is not
  inductive, because it says nothing of the rows.
- `SessionProofs`: the inductive invariant `SessionInv` adds that the sign-in
  screen is only up while nobody is signed in, that an outstanding delegate call
  is for Auth's account, and that user and archive exist together; then
  `SettingsOnlySignedIn`, `OneIdentity` and `DecisionsSurvive`.
- `NewPostProofs`: `ShownIsTyped` is inductive with `TypeOK`, because in both
  colours an edit of what is shown is the edit of what was typed; `NoEmptyPost`
  follows with it. `PlaceholderNeverTaken` and `NothingEmptyPosted`.
- `SessionTyping` and `ComposerTyping` are the types of both, as parts of the
  same invariants.
- `SessionIsRemembered` and `ComposerIsAForm` are their refinements, step by step
  under those invariants. The session's needs that a sign-in is only handed over
  while nobody is signed in; the composer's, that an edit's selection lies in what
  was typed, where the gray text is none.
- `PostFeedAnswers`: the arrays by counting. `AnswersInv` says that a post
  has as many cells in its tier's array as answers have found it since the arrays
  were emptied, none in another, that all of this is finite, and that reads and
  answers carry the numbers they were given. The work is in the
  lemmas: any order of a finite set has each element in one slot, and appending
  such an order by tier adds one cell for each post found and none for any other. `CellsAreAnswers` (`ArraysAreAnswers`) follows;
  `SerialReadsAreExact` (`ExactWhenSerial`) because one answer
  gives each post it found one cell, and the latest read is of the current
  selection. `FreshPostsAreKept` (`FreshPostIsKept`) joins both invariants of the
  feed: an array only grows between two reads (`ArraysGrow`), a read that was
  promised a post brings it with its answer (`DueStays`, `AnswerBrings`), and with a post in any
  array the table is in step, so that no row can trap (`HeldRuns`).
- `PostFeedRefinement`: `TableIsAFeed`. Every action of the controller is a step
  of `Feed` under the mapping, or changes nothing it mentions; the step of
  `Answer` is the counting lemma again.
- `ScreensProofs`: `ButtonFollows`, `PostsUnderTitle`, `RestingSelected` and
  `ScreensTyping`. The first needs that every scroll leaves the button where the
  new offset says (`ScrollKeeps`), and that a drag begins at the offset it
  compares with; the second that title and selection go together
  (`TitlesInv`), which is why it is not inductive alone. `DeafWhereTapped`:
  `DeafOnlyWhereTapped` needs that a finger beside the selector holds off drags,
  so that a selector that rests where the finger is has come there by a
  deceleration and was heard (`DeafInv`).
- `TeammateFinderProofs`: the invariant `AppInv`. The server's part is short: a
  post enters the database only where it is not (`OnePostPerTap` is inductive with
  the types), and a waiting write is in its author's outbox alone (`OwnWrites`).
  The work is in the feeds (`FeedInv`): what a read was promised is, until the
  answer, in the view of its device, through answers, refusals and deaths, and
  what a table shows of others was in a view that is the database's. From it
  `TapMakesOnePost`, `OthersSeeOnlyAccepted`, `AppTyping`, and the action property
  `NothingComesBack`, by what each step can put on its way that was not there.
- `TeammateFinderRefinement`: `EveryTableIsAFeed`, for any number of devices,
  from `AppInv`. `AppIsABoard`, from `AppInv` and that what is in an outbox or on
  its way was tapped on that device (`OwnAfloat`): without it one device's death
  could lose another's post. Each step is first reduced to what it does to the
  posts afloat; what sinks and is not in the database is what the board loses
  (`SinkingLoses`).

They rest on the named assumptions of the modules about their constants (which
TLC evaluates in every run) and on nothing else. Only model-checked, because
liveness under fairness is out of the prover's reach: `FreshPostArrives`,
`TapIsHeard` and `EveryTapIsDecided`. The safety behind them is proved:
`FreshPostIsKept` (nothing else takes the place of what is due),
`DeafOnlyWhereTapped` (there is an animation to end, or nothing left to hear) and
`LostStaysLost` (a decision is final).

## Not modelled

- Layout, animation, images, printing, the cells and the detail screen: no state
  that a property could be about.
- The statistics requests (`PPC` 476-514), which print a status code, and
  Facebook's application callbacks.
- `User.loadUser` (`User.swift` 37) and `HexConverter`: nothing calls them, so
  there is no behaviour of the app to model.
- Of `SJFluidSegmentedControl`: rotation, a second finger, a new data source,
  shadows and appearance.
- The vendored pods, which are nearly all lines of the repository (BoringSSL,
  gRPC, Protobuf, leveldb, the Facebook and Google SDKs). They are third-party
  code with projects of their own; the app's own program is the Swift code in
  `src/Teammate Finder/Teammate Finder/`, and that is what these modules cover.
  Firebase, the one the app's correctness depends on, is there as binary
  frameworks without source.
- The composition of `Session` with the others: who is signed in changes nothing
  of what is read or written (`session_posting` shows it), so there is no
  property that needs both.

## Plan

Done: all modules above. What is left would refine them: rotations of the
segmented control (`updateLayoutDependantValues` while a selector moves), and a
second author in `app`.
