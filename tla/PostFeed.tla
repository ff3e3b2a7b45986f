------------------------------ MODULE PostFeed ------------------------------
(***************************************************************************)
(* PartnerPostsController: the feed of teammate posts.                     *)
(*                                                                         *)
(* The controller keeps seven arrays of post bodies, one per tier, and a   *)
(* UITableView with one collapsible section per tier.  readDatabase empties*)
(* the arrays and starts an asynchronous single read of the database; the  *)
(* read's callback appends what it finds and reloads the table.  Nothing   *)
(* ties a callback to the read that is current when it fires, and UIKit    *)
(* keeps its own copy of the row counts between reloads, so the arrays,    *)
(* the selection and the table can disagree.                               *)
(*                                                                         *)
(* Everything runs on the main queue: an action is one event handled to    *)
(* its end.  A post stands for its body and is named by its position in db.*)
(***************************************************************************)
EXTENDS Catalog, SequencesExt

CONSTANTS
    Systems,    \* the options of systemDropDown in this instance
    GameTypes,  \* the options of gameTypeDropDown in this instance
    Sections,   \* the tiers in this instance
    Ranks,      \* the rank keys found in the database, known or not
    MaxReads,   \* bound: reads started between two launches
    MaxPosts    \* bound: posts ever written to the database

ASSUME FeedAssumption ==
    /\ Systems \subseteq SystemOptions /\ "PS4" \in Systems
    /\ GameTypes \subseteq GameTypeOptions /\ "Duel" \in GameTypes
    /\ Sections \subseteq TierSections
    /\ MaxReads \in Nat /\ MaxPosts \in Nat

VARIABLES
    system,     \* currentSelectedSystem
    gameType,   \* currentSelectedGameType
    posts,      \* bronzePosts ... grandChampionPosts, by database key
    isHidden,   \* isHidden, by section
    rows,       \* the number of rows UITableView believes a section has
    caret,      \* the caret image of a section's header
    onScreen,   \* the feed is the top view controller
    status,     \* "running", or how the process died
    db,         \* the posts in the database, in the order they were written
    reads,      \* observeSingleEvent calls not yet called back
    readNo,     \* how many reads this launch has started
    heard       \* history: the answers received since the arrays were emptied

vars == << system, gameType, posts, isHidden, rows, caret, onScreen, status,
           db, reads, readNo, heard >>

----------------------------------------------------------------------------
Arrays == {ArrayOf(s) : s \in Sections}

Places == {<<SystemKey(s), GameTypeKey(g)>> : s \in Systems, g \in GameTypes}

\* ref.child(system).child(gameType) for the current selection.
Place == <<SystemKey(system), GameTypeKey(gameType)>>

NoPosts == [a \in Arrays |-> <<>>]

\* tableView(_:numberOfRowsInSection:) over given flags and arrays.
RowsOf(s, hidden, arrays) ==
    IF hidden[s] THEN 0 ELSE Len(arrays[ArrayOf(s)])

TypeOK ==
    /\ system \in Systems
    /\ gameType \in GameTypes
    /\ posts \in [Arrays -> Seq(Nat)]
    /\ isHidden \in [Sections -> BOOLEAN]
    /\ rows \in [Sections -> Nat]
    /\ caret \in [Sections -> {"up", "down"}]
    /\ onScreen \in BOOLEAN
    /\ status \in {"running", "trapped", "raised"}
    /\ db \in Seq([place : Places, rank : Ranks])
    /\ readNo \in Nat
    /\ reads \subseteq [no : 1..readNo, place : Places, since : 0..Len(db)]
    /\ heard \subseteq [no : 1..readNo, place : Places, upto : 0..Len(db)]

----------------------------------------------------------------------------
\* viewDidLoad's state; the first viewDidAppear has not come yet.
Init ==
    /\ system = "PS4" /\ gameType = "Duel"
    /\ posts = NoPosts
    /\ isHidden = [s \in Sections |-> TRUE]
    /\ rows = [s \in Sections |-> 0]
    /\ caret = [s \in Sections |-> "down"]
    /\ onScreen = FALSE
    /\ status = "running"
    /\ reads = {} /\ readNo = 0 /\ heard = {}
    /\ db = <<>>

\* How old the snapshot of a new read of place may be.  The client may answer
\* a query that is already waiting together with a later one of the same place,
\* so the later one can get what the earlier one was promised.
Promised(place) == {Len(db)} \cup {r.since : r \in {q \in reads : q.place = place}}

\* Mutant: silverPosts = [] (line 112) is missing.
ReadDatabaseKeepsSilver ==
    /\ readNo < MaxReads
    /\ posts' = [NoPosts EXCEPT ![ArrayOf(1)] = posts[ArrayOf(1)]]
    /\ readNo' = readNo + 1
    /\ \E since \in Promised(Place') :
          reads' = reads \cup {[no |-> readNo + 1, place |-> Place', since |-> since]}
    /\ heard' = {}

\* readDatabase(): empties the arrays at once, leaves the table alone, and
\* asks for the place selected now, i.e. after the caller's assignment.
ReadDatabase ==
    /\ readNo < MaxReads
    /\ posts' = NoPosts
    /\ readNo' = readNo + 1
    /\ \E since \in Promised(Place') :
          reads' = reads \cup {[no |-> readNo + 1, place |-> Place', since |-> since]}
    /\ heard' = {}

\* viewDidAppear: at launch and whenever another screen goes away.
ViewDidAppear ==
    /\ status = "running" /\ ~onScreen
    /\ onScreen' = TRUE
    /\ UNCHANGED <<system, gameType>>
    /\ ReadDatabase
    /\ UNCHANGED <<isHidden, rows, caret, status, db>>

\* A post, the composer, the settings or the sign-in screen covers the feed.
Leave ==
    /\ status = "running" /\ onScreen
    /\ onScreen' = FALSE
    /\ UNCHANGED <<system, gameType, posts, isHidden, rows, caret, status, db,
                   reads, readNo, heard>>

\* Mutant: readDatabase() is called before currentSelectedSystem is assigned.
SelectSystemReadsFirst(title) ==
    /\ status = "running" /\ onScreen
    /\ system' = title /\ gameType' = gameType
    /\ readNo < MaxReads
    /\ posts' = NoPosts
    /\ readNo' = readNo + 1
    /\ reads' = reads \cup {[no |-> readNo + 1, place |-> Place, since |-> Len(db)]}
    /\ heard' = {}
    /\ UNCHANGED <<isHidden, rows, caret, onScreen, status, db>>

\* reloadTable(string:dropDownButton:) from systemDropDown ...
SelectSystem(title) ==
    /\ status = "running" /\ onScreen
    /\ system' = title /\ gameType' = gameType
    /\ ReadDatabase
    /\ UNCHANGED <<isHidden, rows, caret, onScreen, status, db>>

\* Mutant: the copied case still assigns currentSelectedSystem.
SelectGameTypeCopied(title) ==
    /\ status = "running" /\ onScreen
    /\ system' = title /\ gameType' = gameType
    /\ ReadDatabase
    /\ UNCHANGED <<isHidden, rows, caret, onScreen, status, db>>

\* ... and from gameTypeDropDown.
SelectGameType(title) ==
    /\ status = "running" /\ onScreen
    /\ gameType' = title /\ system' = system
    /\ ReadDatabase
    /\ UNCHANGED <<isHidden, rows, caret, onScreen, status, db>>

\* What a snapshot of the first n posts holds for a read.
Found(r, n) == {i \in 1..n : db[i].place = r.place}

\* Mutant: a copied case of the switch, silver posts are appended to bronze.
AppendedToBronze(found) ==
    LET To(i)  == IF db[i].rank = ArrayOf(1) THEN ArrayOf(0) ELSE db[i].rank
        Of(a)  == {i \in found : To(i) = a}
        Orders == [Arrays -> UNION {SetToSeqs(Of(a)) : a \in Arrays}]
    IN  {[a \in Arrays |-> posts[a] \o order[a]] :
            order \in {o \in Orders : \A a \in Arrays : o[a] \in SetToSeqs(Of(a))}}

\* The posts of a snapshot that have a known rank, appended to their arrays in
\* the arbitrary order a dictionary is iterated in; other ranks are skipped.
Appended(found) ==
    LET Of(a)  == {i \in found : db[i].rank = a}
        Orders == [Arrays -> UNION {SetToSeqs(Of(a)) : a \in Arrays}]
    IN  {[a \in Arrays |-> posts[a] \o order[a]] :
            order \in {o \in Orders : \A a \in Arrays : o[a] \in SetToSeqs(Of(a))}}

\* Mutant: only the sections that have posts are reloaded.
AnswerReloadsFilled(r, n) ==
    /\ status = "running"
    /\ n \in r.since..Len(db)
    /\ reads' = reads \ {r}
    /\ heard' = heard \cup {[no |-> r.no, place |-> r.place, upto |-> n]}
    /\ \/ /\ Found(r, n) = {}
          /\ UNCHANGED <<posts, rows, caret>>
       \/ /\ Found(r, n) # {}
          /\ posts' \in Appended(Found(r, n))
          /\ rows' = [s \in Sections |-> IF posts'[ArrayOf(s)] = <<>> THEN rows[s]
                                         ELSE RowsOf(s, isHidden, posts')]
          /\ caret' = [s \in Sections |-> "down"]
    /\ UNCHANGED <<system, gameType, isHidden, onScreen, status, db, readNo>>

\* The read's callback.  The snapshot is one the server had between the call
\* and now.  A place without posts is not a dictionary: the callback returns
\* before the reload.  The cast of what a post holds to [String: [String: String]]
\* (line 144) traps on any other shape; only the composer writes there, and in
\* this one, so that trap is left out.
Answer(r, n) ==
    /\ status = "running"
    /\ n \in r.since..Len(db)
    /\ reads' = reads \ {r}
    /\ heard' = heard \cup {[no |-> r.no, place |-> r.place, upto |-> n]}
    /\ \/ /\ Found(r, n) = {}
          /\ UNCHANGED <<posts, rows, caret>>
       \/ /\ Found(r, n) # {}
          /\ posts' \in Appended(Found(r, n))
          /\ rows' = [s \in Sections |-> RowsOf(s, isHidden, posts')]
          /\ caret' = [s \in Sections |-> "down"]
    /\ UNCHANGED <<system, gameType, isHidden, onScreen, status, db, readNo>>

\* The read's error closure only prints.
Cancelled(r) ==
    /\ status = "running"
    /\ reads' = reads \ {r}
    /\ UNCHANGED <<system, gameType, posts, isHidden, rows, caret, onScreen,
                   status, db, readNo, heard>>

\* UITableView's check after insertRows or deleteRows: in every section the
\* data source's new count is the old one plus what the update says (only
\* section s changes, by all the rows of its array).
UpdateIsValid(s, hidden) ==
    \A t \in Sections :
        LET n     == Len(posts[ArrayOf(s)])
            after == RowsOf(t, hidden, posts)
        IN  IF t # s THEN after = rows[t]
            ELSE IF hidden[s] THEN after + n = rows[s]
            ELSE after = rows[s] + n

\* Mutant: without the early return of line 335.
ExpandPostsAlways(s) ==
    LET hidden == [isHidden EXCEPT ![s] = ~@]
    IN  /\ status = "running" /\ onScreen
        /\ isHidden' = hidden
        /\ status' = IF UpdateIsValid(s, hidden) THEN status ELSE "raised"
        /\ rows' = [t \in Sections |-> RowsOf(t, hidden, posts)]
        /\ caret' = [caret EXCEPT ![s] = IF hidden[s] THEN "down" ELSE "up"]
        /\ UNCHANGED <<system, gameType, posts, onScreen, db, reads, readNo, heard>>

\* Mutant: the caret is turned together with the flag, before the early return.
ExpandPostsCaretFirst(s) ==
    LET hidden == [isHidden EXCEPT ![s] = ~@]
    IN  /\ status = "running" /\ onScreen
        /\ isHidden' = hidden
        /\ caret' = [caret EXCEPT ![s] = IF hidden[s] THEN "down" ELSE "up"]
        /\ \/ /\ posts[ArrayOf(s)] = <<>>
              /\ UNCHANGED <<rows, status>>
           \/ /\ posts[ArrayOf(s)] # <<>>
              /\ status' = IF UpdateIsValid(s, hidden) THEN status ELSE "raised"
              /\ rows' = [t \in Sections |-> RowsOf(t, hidden, posts)]
        /\ UNCHANGED <<system, gameType, posts, onScreen, db, reads, readNo, heard>>

\* expandPosts: a tap on a section header.
ExpandPosts(s) ==
    LET hidden == [isHidden EXCEPT ![s] = ~@]
    IN  /\ status = "running" /\ onScreen
        /\ isHidden' = hidden
        /\ \/ /\ posts[ArrayOf(s)] = <<>>
              /\ UNCHANGED <<rows, caret, status>>
           \/ /\ posts[ArrayOf(s)] # <<>>
              /\ status' = IF UpdateIsValid(s, hidden) THEN status ELSE "raised"
              /\ rows' = [t \in Sections |-> RowsOf(t, hidden, posts)]
              /\ caret' = [caret EXCEPT ![s] = IF hidden[s] THEN "down" ELSE "up"]
        /\ UNCHANGED <<system, gameType, posts, onScreen, db, reads, readNo, heard>>

\* tableView(_:cellForRowAt:): the table asks for any row it believes in.
CellForRow(s, row) ==
    /\ status = "running" /\ onScreen
    /\ row < rows[s]
    /\ status' = IF row < Len(posts[ArrayOf(s)]) THEN status ELSE "trapped"
    /\ UNCHANGED <<system, gameType, posts, isHidden, rows, caret, onScreen, db,
                   reads, readNo, heard>>

\* tableView(_:viewForHeaderInSection:): a header scrolled into view is a new
\* cell with the storyboard's caret, whatever the section's state.
ViewForHeader(s) ==
    /\ status = "running" /\ onScreen
    /\ caret' = [caret EXCEPT ![s] = "down"]
    /\ UNCHANGED <<system, gameType, posts, isHidden, rows, onScreen, status,
                   db, reads, readNo, heard>>

\* A composer, on this device or another, has written a post.
Post(place, rank) ==
    /\ Len(db) < MaxPosts
    /\ db' = Append(db, [place |-> place, rank |-> rank])
    /\ UNCHANGED <<system, gameType, posts, isHidden, rows, caret, onScreen,
                   status, reads, readNo, heard>>

\* The process is killed or has died, and the app is started again.
Relaunch ==
    /\ system' = "PS4" /\ gameType' = "Duel"
    /\ posts' = NoPosts
    /\ isHidden' = [s \in Sections |-> TRUE]
    /\ rows' = [s \in Sections |-> 0]
    /\ caret' = [s \in Sections |-> "down"]
    /\ onScreen' = FALSE
    /\ status' = "running"
    /\ reads' = {} /\ readNo' = 0 /\ heard' = {}
    /\ UNCHANGED db

Next ==
    \/ ViewDidAppear
    \/ Leave
    \/ \E title \in Systems : SelectSystem(title)
    \/ \E title \in GameTypes : SelectGameType(title)
    \/ \E r \in reads : \E n \in r.since..Len(db) : Answer(r, n)
    \/ \E r \in reads : Cancelled(r)
    \/ \E s \in Sections : ExpandPosts(s)
    \/ \E s \in Sections : \E row \in 0..rows[s] : CellForRow(s, row)
    \/ \E s \in Sections : ViewForHeader(s)
    \/ \E place \in Places, rank \in Ranks : Post(place, rank)
    \/ Relaunch

Spec == Init /\ [][Next]_vars

\* The database answers every read it does not refuse; users owe nothing.
Answers(no) ==
    \E r \in reads : r.no = no /\ \E n \in r.since..Len(db) : Answer(r, n)

FairSpec == Spec /\ \A no \in 1..MaxReads : WF_vars(Answers(no))

----------------------------------------------------------------------------
\* UIKit never finds a batch update inconsistent (NSInternalInconsistency-
\* Exception in expandPosts, lines 346 and 350): although the arrays are emptied
\* behind the table's back, a header tap only reaches insertRows or deleteRows
\* when every section's row count is what the data source says.
NeverRaises == status # "raised"

\* Why it holds: as soon as one array has a post, all sections were reloaded
\* after the last time the arrays were emptied, and kept in step since.
TableInStep ==
    (\E a \in Arrays : posts[a] # <<>>) =>
        \A s \in Sections : rows[s] = RowsOf(s, isHidden, posts)

\* cellForRowAt's subscript (line 304) can only fail between the emptying of
\* the arrays in readDatabase and the next reload: with a post in any array no
\* row the table believes in is out of range.
TrapOnlyWhenCleared == status = "trapped" => posts = NoPosts

\* The caret of a header never points up over a section without rows: an
\* expanded look is set with the insertion and undone by every reload.
CaretUpShowsRows == \A s \in Sections : caret[s] = "up" => rows[s] > 0

\* The arrays hold exactly the answers heard since they were emptied: a post is
\* in its tier's array once for each answer that found it, and nowhere else.
ArraysAreAnswers ==
    \A a \in Arrays, i \in DOMAIN db :
        Cardinality({k \in DOMAIN posts[a] : posts[a][k] = i}) =
            IF db[i].rank # a THEN 0
            ELSE Cardinality({h \in heard : h.place = db[i].place /\ i <= h.upto})

\* Reads that do not overlap give the right feed: when only the latest read has
\* been answered since the arrays were emptied, each array holds the posts of
\* the selected system, game type and tier, each of them once.
ExactWhenSerial ==
    \A h \in heard :
        (heard = {h} /\ h.no = readNo) =>
            \A a \in Arrays :
                posts[a] \in SetToSeqs({i \in 1..h.upto :
                                           db[i].place = Place /\ db[i].rank = a})

----------------------------------------------------------------------------
\* How often a post is in the arrays, whichever array it is in.
Cells(arrays, i) ==
    {c \in UNION {{a} \X DOMAIN arrays[a] : a \in Arrays} : arrays[c[1]][c[2]] = i}

\* The posts among the first n that a read of a place finds an array for.
Known(n, place) == {i \in 1..n : db[i].place = place /\ db[i].rank \in Arrays}

\* The abstract feed counts a post wherever it is stored, and sees a post only
\* when its rank has an array.
SeenAt ==
    [i \in 1..MaxPosts |->
        IF i \in DOMAIN db /\ db[i].rank \in Arrays THEN db[i].place ELSE <<>>]

TimesShown == [i \in 1..MaxPosts |-> Cardinality(Cells(posts, i))]

Question(r) == [no |-> r.no, place |-> r.place, since |-> Known(r.since, r.place)]

AsFeed == INSTANCE Feed WITH
    Posts   <- 1..MaxPosts,
    Home    <- <<"ps4", "duel">>,
    Nowhere <- <<>>,
    Asks    <- 1..MaxReads,
    where   <- SeenAt,
    place   <- Place,
    shown   <- TimesShown,
    asked   <- {Question(r) : r \in reads}

\* readDatabase, its callback and the drop-downs keep what a feed promises:
\* emptied arrays at every new selection, and for every answer each post of the
\* place that was asked for, once, and no other post.
IsAFeed == AsFeed!Spec

\* The current read is waiting and was promised the post, which has an array.
Due(i, no) ==
    /\ status = "running" /\ readNo = no
    /\ \E r \in reads : r.no = no /\ i \in Found(r, r.since)
    /\ db[i].rank \in Arrays

\* The post is in its tier's array, and the table in step with the arrays.
Arrived(i) ==
    /\ i \in DOMAIN db
    /\ \E a \in Arrays : a = db[i].rank /\ i \in Range(posts[a])
    /\ TableInStep

\* A read was refused: it is not waiting, and has had no answer.
Refused(no) == \A q \in reads \cup heard : q.no # no

\* A post the database held when the current read was promised its snapshot
\* gets into its tier's array, with the table in step, unless the user starts
\* another read, the database refuses this one, or the app dies.
FreshPostArrives ==
    \A i \in 1..MaxPosts, no \in 1..MaxReads :
        Due(i, no) ~> Arrived(i) \/ readNo # no \/ Refused(no) \/ status # "running"

\* Nothing else comes between: late answers to earlier reads, taps on headers,
\* other posts and other screens neither drop what is due (readDatabase's callback,
\* line 138) nor, once it has arrived, take it away, put the table out of step
\* or make it trap, before the next read.
FreshPostIsKept ==
    [][\A i \in 1..MaxPosts, no \in 1..MaxReads :
          /\ Due(i, no) =>
                (Due(i, no) \/ Arrived(i) \/ readNo # no \/ Refused(no) \/ status # "running")'
          /\ Arrived(i) /\ readNo = no /\ status = "running" =>
                ((Arrived(i) /\ status = "running") \/ readNo # no)']_vars

\* The comment at line 43 says of isHidden "Section collapsed or not".  It does
\* not survive a tap between the emptying of the arrays and the reload: the flag
\* is flipped, the early return at line 335 leaves the rows.
CollapsedShowsNothing == \A s \in Sections : isHidden[s] => rows[s] = 0

\* The titles of the drop-downs (lines 86, 91 and 610) name the feed that is
\* shown.  An answer to an earlier selection is appended all the same.
SelectionOnly ==
    reads = {} =>
        \A a \in Arrays : \A k \in DOMAIN posts[a] : db[posts[a][k]].place = Place

\* cellForRowAt (line 304) takes every row the table asks for to be an index of
\* its tier's array.
NeverTraps == status # "trapped"

============================================================================
