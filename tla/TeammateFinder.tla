--------------------------- MODULE TeammateFinder ---------------------------
(***************************************************************************)
(* The whole app: several devices, each with its feed and its composer,    *)
(* over one database.                                                      *)
(*                                                                         *)
(* A write is made under a key of its own, childByAutoId(), is seen by its *)
(* own client at once, and waits in the client's memory until the server   *)
(* has answered it.  A client that lost its connection sends again what was*)
(* not answered, while the first copy may still be on its way; a process   *)
(* that dies takes its waiting writes along, but not what is on its way.   *)
(* postPost hears of none of this.  No order is assumed of what is sent,   *)
(* served or answered: the app relies on none.                             *)
(*                                                                         *)
(* A post is named by the tap that made it.  Of its place only the system  *)
(* is kept, and of a table how often it shows a post: PostFeed has the rest*)
(* of both, NewPost the text, Screens the touches in between.              *)
(***************************************************************************)
EXTENDS Catalog, Functions

CONSTANTS
    Devices,    \* the devices the app runs on
    Authors,    \* those among them that have somebody who posts
    Systems,    \* the options of systemDropDown in this instance
    MaxReads,   \* bound: reads each device has open
    MaxTaps,    \* bound: taps on the post button, on all devices
    MaxStale,   \* bound: copies of a write left over from lost connections
    NoComposer  \* the composer's system while there is no composer

ASSUME AppAssumption ==
    /\ Authors \subseteq Devices
    /\ Systems \subseteq SystemOptions /\ "PS4" \in Systems
    /\ NoComposer \notin Systems
    /\ MaxReads \in [Devices -> Nat] /\ MaxTaps \in Nat /\ MaxStale \in Nat

VARIABLES
    selected,   \* currentSelectedSystem of each device's feed
    shown,      \* how often each post is in the arrays of each device
    asked,      \* the reads each device has not had an answer to
    composer,   \* currentSelectedSystem of the composer on top of the feed
    taps,       \* the posts: who tapped, and the place that was written to
    outbox,     \* the writes each client has had no answer to
    sent,       \* those of them it has sent on this connection
    wire,       \* those of them that are on their way to the server
    acks,       \* those of them the answers on their way back are about
    stale,      \* how many copies of a write are on their way from lost connections
    db          \* the posts the server has accepted, in the order they came

feedVars == <<selected, shown, asked>>
clientVars == <<outbox, sent, wire, acks, stale>>
vars == <<feedVars, composer, taps, clientVars, db>>

----------------------------------------------------------------------------
Posts == 1..MaxTaps

Places == {SystemKey(s) : s \in Systems}

\* Each post, no time.
NoPosts == [i \in Posts |-> 0]

\* The writes of a device that can reach the server without being sent again.
OnTheWay(d) == wire[d] \cup {i \in Posts : stale[d][i] > 0}

\* Mutant: a read sees what is on its way to the server, too.
ViewOfAll(d) ==
    Range(db) \cup outbox[d] \cup UNION {OnTheWay(e) : e \in Devices}

\* What the client of a device reads: the server's posts and its own writes.
View(d) == Range(db) \cup outbox[d]

ViewOf(d, place) == {i \in View(d) : taps[i].place = place}

TypeOK ==
    /\ selected \in [Devices -> Systems]
    /\ shown \in [Devices -> [Posts -> Nat]]
    /\ asked \in [Devices -> SUBSET [no : Nat, place : Places, since : SUBSET Posts]]
    /\ composer \in [Devices -> Systems \cup {NoComposer}]
    /\ taps \in Seq([author : Authors, place : Places]) /\ Len(taps) <= MaxTaps
    /\ outbox \in [Devices -> SUBSET DOMAIN taps]
    /\ sent \in [Devices -> SUBSET DOMAIN taps] /\ \A d \in Devices : sent[d] \subseteq outbox[d]
    /\ wire \in [Devices -> SUBSET DOMAIN taps]
    /\ acks \in [Devices -> SUBSET DOMAIN taps]
    /\ stale \in [Devices -> [Posts -> 0..MaxStale]]
    /\ db \in Seq(DOMAIN taps)

Init ==
    /\ selected = [d \in Devices |-> "PS4"]
    /\ shown = [d \in Devices |-> NoPosts]
    /\ asked = [d \in Devices |-> {}]
    /\ composer = [d \in Devices |-> NoComposer]
    /\ taps = <<>>
    /\ outbox = [d \in Devices |-> {}] /\ sent = [d \in Devices |-> {}]
    /\ wire = [d \in Devices |-> {}] /\ acks = [d \in Devices |-> {}]
    /\ stale = [d \in Devices |-> NoPosts]
    /\ db = <<>>

----------------------------------------------------------------------------
\* Mutant: the arrays are not emptied.
ReadDatabaseKeepsArrays(d, s) ==
    LET place == SystemKey(s)
    IN  /\ selected' = [selected EXCEPT ![d] = s]
        /\ \E no \in 1..MaxReads[d] \ {r.no : r \in asked[d]},
              since \in {ViewOf(d, place)} \cup {r.since : r \in {q \in asked[d] : q.place = place}} :
              asked' = [asked EXCEPT ![d] = @ \cup {[no |-> no, place |-> place, since |-> since]}]
        /\ UNCHANGED shown

\* readDatabase of a device whose feed has system s selected.  A query already
\* waiting may be answered together with the new one.
ReadDatabase(d, s) ==
    LET place == SystemKey(s)
    IN  /\ selected' = [selected EXCEPT ![d] = s]
        /\ shown' = [shown EXCEPT ![d] = NoPosts]
        /\ \E no \in 1..MaxReads[d] \ {r.no : r \in asked[d]},
              since \in {ViewOf(d, place)} \cup {r.since : r \in {q \in asked[d] : q.place = place}} :
              asked' = [asked EXCEPT ![d] = @ \cup {[no |-> no, place |-> place, since |-> since]}]

\* The feed appears, or a system is selected in it.
Choose(d, s) ==
    /\ composer[d] = NoComposer
    /\ ReadDatabase(d, s)
    /\ UNCHANGED <<composer, taps, clientVars, db>>

\* The callback: what it finds is appended to what is there.
Answer(d, r) ==
    /\ asked' = [asked EXCEPT ![d] = @ \ {r}]
    /\ \E late \in SUBSET (ViewOf(d, r.place) \ r.since) :
          shown' = [shown EXCEPT ![d] =
                       [i \in Posts |-> @[i] + IF i \in r.since \cup late THEN 1 ELSE 0]]
    /\ UNCHANGED <<selected, composer, taps, clientVars, db>>

\* The read's error closure only prints.
Cancelled(d, r) ==
    /\ asked' = [asked EXCEPT ![d] = @ \ {r}]
    /\ UNCHANGED <<selected, shown, composer, taps, clientVars, db>>

\* Mutant: the composer is given the system's key and not its title.
ToCreatePostKeyed(d) ==
    /\ d \in Authors /\ composer[d] = NoComposer
    /\ composer' = [composer EXCEPT ![d] = SystemKey(selected[d])]
    /\ UNCHANGED <<feedVars, taps, clientVars, db>>

\* The composer goes by the system the feed has selected when it is pushed.
ToCreatePost(d) ==
    /\ d \in Authors /\ composer[d] = NoComposer
    /\ composer' = [composer EXCEPT ![d] = selected[d]]
    /\ UNCHANGED <<feedVars, taps, clientVars, db>>

\* The composer goes away and the feed appears.
Back(d) ==
    /\ composer[d] # NoComposer
    /\ composer' = [composer EXCEPT ![d] = NoComposer]
    /\ ReadDatabase(d, selected[d])
    /\ UNCHANGED <<taps, clientVars, db>>

\* Mutant: the key is the number of posts there are, and not childByAutoId().
PostPostNumbered(d) ==
    /\ composer[d] # NoComposer /\ Len(taps) < MaxTaps
    /\ taps' = Append(taps, [author |-> d, place |-> SystemKey(composer[d])])
    /\ outbox' = [outbox EXCEPT ![d] = @ \cup {Len(db) + 1}]
    /\ UNCHANGED <<feedVars, composer, sent, wire, acks, stale, db>>

\* postPost, as often as the button is tapped.
PostPost(d) ==
    /\ composer[d] # NoComposer /\ Len(taps) < MaxTaps
    /\ taps' = Append(taps, [author |-> d, place |-> SystemKey(composer[d])])
    /\ outbox' = [outbox EXCEPT ![d] = @ \cup {Len(taps) + 1}]
    /\ UNCHANGED <<feedVars, composer, sent, wire, acks, stale, db>>

----------------------------------------------------------------------------
\* The client sends a write, without waiting for the answers to others.
Send(d) ==
    \E i \in outbox[d] \ sent[d] :
        /\ sent' = [sent EXCEPT ![d] = @ \cup {i}]
        /\ wire' = [wire EXCEPT ![d] = @ \cup {i}]
        /\ UNCHANGED <<feedVars, composer, taps, outbox, acks, stale, db>>

\* Mutant: the key is made when a write is sent, and not at the tap, so that every
\* copy makes a post of its own.
AcceptsEveryCopy(i) == db' = Append(db, i)

\* A write under a key that is there already changes nothing.
Accepts(i) == db' = IF i \in Range(db) THEN db ELSE Append(db, i)

\* The server takes a write or refuses it, and answers.
Serve(d) ==
    \E i \in wire[d] :
        /\ Accepts(i) \/ UNCHANGED db
        /\ wire' = [wire EXCEPT ![d] = @ \ {i}]
        /\ acks' = [acks EXCEPT ![d] = @ \cup {i}]
        /\ UNCHANGED <<feedVars, composer, taps, outbox, sent, stale>>

\* A copy from a lost connection, with nobody there for the answer.
ServeStale(d) ==
    \E i \in Posts :
        /\ stale[d][i] > 0
        /\ Accepts(i) \/ UNCHANGED db
        /\ stale' = [stale EXCEPT ![d][i] = @ - 1]
        /\ UNCHANGED <<feedVars, composer, taps, outbox, sent, wire, acks>>

\* A refused write is taken back: reads under way need not find it any more.
TakesBack(d, i) ==
    asked' = [asked EXCEPT ![d] = {[r EXCEPT !.since = @ \ {i}] : r \in asked[d]}]

\* The client hears what became of one of its writes.
Hear(d) ==
    \E i \in acks[d] :
        /\ outbox' = [outbox EXCEPT ![d] = @ \ {i}]
        /\ sent' = [sent EXCEPT ![d] = @ \ {i}]
        /\ acks' = [acks EXCEPT ![d] = @ \ {i}]
        /\ IF i \in Range(db) THEN UNCHANGED asked ELSE TakesBack(d, i)
        /\ UNCHANGED <<selected, shown, composer, taps, wire, stale, db>>

\* A connection ends, and of the writes on their way some are lost with it.
Cut(d) ==
    /\ wire' = [wire EXCEPT ![d] = {}]
    /\ acks' = [acks EXCEPT ![d] = {}]
    /\ \E rest \in SUBSET {i \in wire[d] : stale[d][i] < MaxStale} :
          stale' = [stale EXCEPT ![d] = [i \in Posts |-> @[i] + IF i \in rest THEN 1 ELSE 0]]

\* Mutant: what was sent on the lost connection is not sent again.
ReconnectResumes(d) ==
    /\ sent[d] # {}
    /\ Cut(d)
    /\ UNCHANGED <<feedVars, composer, taps, outbox, sent, db>>

\* The connection is lost, and there is a new one.
Reconnect(d) ==
    /\ sent[d] # {}
    /\ sent' = [sent EXCEPT ![d] = {}]
    /\ Cut(d)
    /\ UNCHANGED <<feedVars, composer, taps, outbox, db>>

\* The process dies and the app is started again.
Die(d) ==
    /\ selected' = [selected EXCEPT ![d] = "PS4"]
    /\ shown' = [shown EXCEPT ![d] = NoPosts]
    /\ asked' = [asked EXCEPT ![d] = {}]
    /\ composer' = [composer EXCEPT ![d] = NoComposer]
    /\ outbox' = [outbox EXCEPT ![d] = {}]
    /\ sent' = [sent EXCEPT ![d] = {}]
    /\ Cut(d)
    /\ UNCHANGED <<taps, db>>

Exchange(d) == Send(d) \/ Serve(d) \/ ServeStale(d) \/ Hear(d)

Next ==
    \E d \in Devices :
        \/ \E s \in Systems : Choose(d, s)
        \/ \E r \in asked[d] : Answer(d, r) \/ Cancelled(d, r)
        \/ ToCreatePost(d)
        \/ Back(d)
        \/ PostPost(d)
        \/ Exchange(d)
        \/ Reconnect(d)
        \/ Die(d)

Spec == Init /\ [][Next]_vars

\* While there is something for a client or the server to do about the writes of
\* a device, one of them does something in the end, whatever it is; and a device
\* that has something to send gets, in the end, a connection that lives until the
\* answers.  Nothing is asked of the people, and none of them is kept from ending
\* the process.  Only authors ever have anything to send.
FairSpec ==
    /\ Spec
    /\ \A d \in Authors : WF_vars(Exchange(d)) /\ <>[][~Reconnect(d)]_vars

----------------------------------------------------------------------------
\* A write that was neither accepted nor can be any more.
Lost(i) ==
    /\ i \in DOMAIN taps /\ i \notin Range(db)
    /\ \A d \in Devices : i \notin outbox[d] \cup OnTheWay(d)

\* However often a client sends a write again (postPost, NewPostController line
\* 85: the key is made at the tap), one tap makes at most one post.
OnePostPerTap == \A j, k \in DOMAIN db : db[j] = db[k] => j = k

\* A feed shows somebody else's post only when the server has accepted it: only
\* the author's own feed can show a post that will be refused.
OthersSeeAccepted ==
    \A d \in Devices, i \in DOMAIN taps :
        shown[d][i] > 0 /\ taps[i].author # d => i \in Range(db)

\* No post comes back from the dead: what is in no outbox, not on its way and not
\* in the database stays out of it, whatever other devices and launches do.
LostStaysLost == [][\A i \in Posts : Lost(i) => Lost(i)']_vars

\* Every tap is decided in the end: its post is in the database, or lost for good
\* because it was refused or its process died.  postPost waits for neither.  The
\* taps being bounded, and a decision final (LostStaysLost), that is a time, ever
\* again, when none is undecided.
EveryTapIsDecided ==
    []<>(\A i \in DOMAIN taps : i \in Range(db) \/ Lost(i))

\* Each device's table is a feed of what its client can see.
DeviceFeed(d) == INSTANCE Feed WITH
    Home    <- "ps4",
    Nowhere <- "nowhere",
    Asks    <- 1..MaxReads[d],
    where   <- [i \in Posts |-> IF i \in View(d) THEN taps[i].place ELSE "nowhere"],
    place   <- SystemKey(selected[d]),
    shown   <- shown[d],
    asked   <- asked[d]

EveryDeviceIsAFeed ==
    /\ \A d \in Devices : DeviceFeed(d)!Init
    /\ [][\A d \in Devices : UNCHANGED DeviceFeed(d)!vars \/ DeviceFeed(d)!Next]_vars

\* Composers, clients, server and feeds together are one notice board: a tap is
\* one post or, for good, none, whatever is sent again or dies, a post is only
\* ever lost by its author's device, and what feeds show is on the board or their
\* own.
TheBoard == INSTANCE Board WITH
    board <- db,
    lost  <- {i \in DOMAIN taps : Lost(i)},
    seen  <- [d \in Devices |-> {i \in Posts : shown[d][i] > 0}]

IsABoard == TheBoard!Spec

=============================================================================
