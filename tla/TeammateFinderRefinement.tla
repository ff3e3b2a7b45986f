---------------------- MODULE TeammateFinderRefinement ----------------------
(***************************************************************************)
(* TeammateFinder implements Feed, once for each device: what the client   *)
(* of a device can see is the feed's world, the server's consent to the    *)
(* posts of others a post written, a refusal a post withdrawn, and a       *)
(* process that dies a restart without what only it knew of.               *)
(***************************************************************************)
EXTENDS TeammateFinderProofs

\* The mapping of a device, one name for each variable of Feed.
Where(d) == [i \in Posts |-> IF i \in View(d) THEN taps[i].place ELSE "nowhere"]

----------------------------------------------------------------------------
\* A place is no place where nothing can be shown.
LEMMA PlacesAreSomewhere == "nowhere" \notin Places
<1> SUFFICES ASSUME NEW s \in Systems PROVE SystemKey(s) # "nowhere"
  BY DEF Places
<1>1. s \in SystemOptions
  BY AppAssumption DEF AppAssumption
<1>2. CASE s = "PS4"
  BY <1>2 DEF SystemKey
<1>3. CASE s = "PC"
  BY <1>3 DEF SystemKey
<1>4. CASE s = "Xbox One"
  BY <1>4 DEF SystemKey
<1> QED
  BY <1>1, <1>2, <1>3, <1>4 DEF SystemOptions

\* The posts of a place, abstractly and in the view of the device.
LEMMA AtIsView ==
    ASSUME AppInv, NEW d \in Devices, NEW p \in Places
    PROVE  DeviceFeed(d)!At(p) = ViewOf(d, p)
<1>1. View(d) \subseteq Posts
  BY ViewHolds, TapsArePosts DEF AppInv
<1>2. p # "nowhere"
  BY PlacesAreSomewhere
<1>3. ASSUME NEW i \in Posts
      PROVE  (IF i \in View(d) THEN taps[i].place ELSE "nowhere") = p <=> i \in View(d) /\ taps[i].place = p
  BY <1>2
<1> QED
  BY <1>1, <1>3 DEF DeviceFeed!At, ViewOf

\* What a device can see changes only with its view.
LEMMA WhereStays ==
    ASSUME AppInv, NEW d \in Devices, View(d)' = View(d),
           \A i \in DOMAIN taps : taps'[i] = taps[i]
    PROVE  Where(d)' = Where(d)
<1>1. View(d) \subseteq DOMAIN taps
  BY ViewHolds DEF AppInv
<1> QED
  BY <1>1 DEF Where

\* One post more in the view is one post written.
LEMMA WhereGrows ==
    ASSUME AppInv, NEW d \in Devices, NEW i \in Posts, i \notin View(d),
           View(d)' = View(d) \cup {i},
           \A j \in DOMAIN taps : taps'[j] = taps[j],
           taps'[i].place \in Places,
           UNCHANGED <<selected, shown, asked>>
    PROVE  DeviceFeed(d)!Next
<1>1. View(d) \subseteq DOMAIN taps
  BY ViewHolds DEF AppInv
<1> PICK p \in Places : taps'[i].place = p
  OBVIOUS
<1>2. Where(d)' = [Where(d) EXCEPT ![i] = p]
  BY <1>1 DEF Where
<1>3. Where(d)[i] = "nowhere"
  BY DEF Where
<1>4. DeviceFeed(d)!Written(i, p)
  BY <1>2, <1>3 DEF DeviceFeed!Written, Where
<1> QED
  BY <1>4 DEF DeviceFeed!Next

\* A step outside the table and the view of a device is none of its feed.
LEMMA FeedStands ==
    ASSUME NEW d \in Devices, Where(d)' = Where(d), selected'[d] = selected[d],
           shown'[d] = shown[d], asked'[d] = asked[d]
    PROVE  UNCHANGED DeviceFeed(d)!vars
BY Zenon DEF DeviceFeed!vars, Where
----------------------------------------------------------------------------
\* Asking the database is choosing a place.
LEMMA ReadIsChoose ==
    ASSUME AppInv, NEW d \in Devices, NEW s \in Systems, ReadDatabase(d, s),
           UNCHANGED <<taps, outbox, db>>
    PROVE  DeviceFeed(d)!Next
<1> DEFINE p == SystemKey(s)
<1>1. PICK no \in 1..MaxReads[d],
            since \in {ViewOf(d, p)} \cup {r.since : r \in {q \in asked[d] : q.place = p}} :
          /\ no \notin {r.no : r \in asked[d]}
          /\ asked' = [asked EXCEPT ![d] = @ \cup {[no |-> no, place |-> p, since |-> since]}]
  BY DEF ReadDatabase
<1>2. /\ selected' = [selected EXCEPT ![d] = s]
      /\ shown' = [shown EXCEPT ![d] = NoPosts]
  BY DEF ReadDatabase
<1>3. /\ selected'[d] = s /\ shown'[d] = NoPosts
      /\ asked'[d] = asked[d] \cup {[no |-> no, place |-> p, since |-> since]}
  BY <1>1, <1>2 DEF AppInv, FeedInv, FeedTypes
<1>4. p \in Places
  BY KeyIsPlace
<1>5. DeviceFeed(d)!At(p) = ViewOf(d, p)
  BY <1>4, AtIsView
<1>6. Where(d)' = Where(d)
  <2>1. View(d)' = View(d)
    BY DEF View
  <2> QED
    BY <2>1, WhereStays
<1> HIDE DEF p
<1>7. /\ no \in 1..MaxReads[d] \ {q.no : q \in asked[d]}
      /\ since \in {DeviceFeed(d)!At(p)} \cup {q.since : q \in {r \in asked[d] : r.place = p}}
  BY <1>1, <1>5
<1>8. SystemKey(selected'[d]) = p
  BY <1>3 DEF p
<1>9. DeviceFeed(d)!Choose(p)
  <2>1. shown'[d] = [i \in Posts |-> 0]
    BY <1>3 DEF NoPosts
  <2>2. \E n \in 1..MaxReads[d] \ {q.no : q \in asked[d]},
           f \in {DeviceFeed(d)!At(p)} \cup {q.since : q \in {r \in asked[d] : r.place = p}} :
           asked'[d] = asked[d] \cup {[no |-> n, place |-> p, since |-> f]}
    BY <1>3, <1>7
  <2> QED
    BY <1>6, <1>8, <2>1, <2>2 DEF DeviceFeed!Choose, DeviceFeed!Nothing, Where
<1> QED
  BY <1>4, <1>9 DEF DeviceFeed!Next

\* The callback's answer, and its error.
LEMMA AnswerIsAnswer ==
    ASSUME AppInv, NEW d \in Devices, NEW r \in asked[d], Answer(d, r) \/ Cancelled(d, r)
    PROVE  DeviceFeed(d)!Next
<1> USE DEF AppInv
<1>1. asked' = [asked EXCEPT ![d] = @ \ {r}] /\ UNCHANGED <<selected, taps, outbox, db>>
  BY DEF Answer, Cancelled, clientVars
<1>2. asked'[d] = asked[d] \ {r} /\ selected'[d] = selected[d]
  BY <1>1 DEF FeedInv, FeedTypes
<1>3. Where(d)' = Where(d)
  <2>1. View(d)' = View(d)
    BY <1>1 DEF View
  <2> QED
    BY <1>1, <2>1, WhereStays
<1>4. CASE Cancelled(d, r)
  <2>1. shown'[d] = shown[d]
    BY <1>4 DEF Cancelled
  <2>2. DeviceFeed(d)!Refused(r)
    BY <1>2, <1>3, <2>1 DEF DeviceFeed!Refused, Where
  <2> QED
    BY <2>2 DEF DeviceFeed!Next
<1>5. CASE Answer(d, r)
  <2>1. PICK late \in SUBSET (ViewOf(d, r.place) \ r.since) :
            shown' = [shown EXCEPT ![d] =
                         [i \in Posts |-> @[i] + IF i \in r.since \cup late THEN 1 ELSE 0]]
    BY <1>5 DEF Answer
  <2> DEFINE found == r.since \cup late
  <2>2. r.place \in Places /\ r.since \subseteq ViewOf(d, r.place)
    BY DEF FeedInv, FeedTypes, PromisesHold
  <2>3. DeviceFeed(d)!At(r.place) = ViewOf(d, r.place)
    BY <2>2, AtIsView
  <2>4. r.since \subseteq found /\ found \subseteq DeviceFeed(d)!At(r.place)
    BY <2>1, <2>2, <2>3
  <2>5. shown'[d] = [i \in Posts |-> shown[d][i] + IF i \in found THEN 1 ELSE 0]
    BY <2>1 DEF FeedInv, FeedTypes
  <2> HIDE DEF found
  <2>6. DeviceFeed(d)!Answered(r)
    BY <1>2, <1>3, <2>4, <2>5 DEF DeviceFeed!Answered, Where
  <2> QED
    BY <2>6 DEF DeviceFeed!Next
<1> QED
  BY <1>4, <1>5

\* A tap on the device is a post written, as its own client sees it.
LEMMA PostIsWritten ==
    ASSUME AppInv, NEW d \in Devices, NEW e \in Devices, PostPost(e)
    PROVE  DeviceFeed(d)!Next \/ UNCHANGED DeviceFeed(d)!vars
<1> USE DEF AppInv
<1>1. PICK i \in Posts \ DOMAIN taps :
          /\ taps'[i].place \in Places
          /\ outbox' = [outbox EXCEPT ![e] = @ \cup {i}]
  BY PostKeepsClients DEF FeedInv
<1>2. \A j \in DOMAIN taps : taps'[j] = taps[j]
  BY PostKeepsClients DEF FeedInv
<1>3. UNCHANGED <<selected, shown, asked, db>>
  BY DEF PostPost, feedVars
<1>4. CASE e = d
  <2>1. outbox'[d] = outbox[d] \cup {i}
    BY <1>1, <1>4 DEF ClientTypes
  <2>2. View(d)' = View(d) \cup {i}
    BY <1>3, <2>1 DEF View
  <2>3. i \notin View(d)
    BY <1>1, ViewHolds
  <2> QED
    BY <1>1, <1>2, <1>3, <2>2, <2>3, WhereGrows
<1>5. CASE e # d
  <2>1. View(d)' = View(d)
    BY <1>1, <1>3, <1>5 DEF View, ClientTypes
  <2> QED
    BY <1>2, <1>3, <2>1, WhereStays, FeedStands
<1> QED
  BY <1>4, <1>5

\* The server's consent is a post written for those who did not know of it, and
\* again so for a device that has heard of a refusal of another copy.
LEMMA ServeIsWritten ==
    ASSUME AppInv, NEW d \in Devices, NEW e \in Devices, Serve(e) \/ ServeStale(e)
    PROVE  DeviceFeed(d)!Next \/ UNCHANGED DeviceFeed(d)!vars
<1> USE DEF AppInv
<1>1. /\ UNCHANGED <<selected, shown, asked, taps, outbox>>
      /\ \E i \in OnTheWay(e) : Range(db') = Range(db) \cup {i} \/ UNCHANGED db
  BY ServeKeepsClients
<1>2. PICK i \in OnTheWay(e) : Range(db') = Range(db) \cup {i} \/ UNCHANGED db
  BY <1>1
<1>3. i \in Posts /\ taps[i].place \in Places
  <2>1. i \in DOMAIN taps
    BY OnTheWayTapped
  <2>2. taps \in Seq([author : Authors, place : Places])
    BY DEF ClientTypes
  <2>3. taps[i] \in [author : Authors, place : Places]
    BY <2>1, <2>2, TapsArePosts, ElementOfSeq
  <2> QED
    BY <2>1, <2>3, TapsArePosts
<1>4. CASE Range(db') = Range(db) \cup {i} /\ i \notin View(d)
  <2>1. View(d)' = View(d) \cup {i}
    BY <1>1, <1>4 DEF View
  <2> QED
    BY <1>1, <1>3, <1>4, <2>1, WhereGrows
<1>5. CASE UNCHANGED db \/ i \in View(d)
  <2>1. View(d)' = View(d)
    BY <1>1, <1>2, <1>5 DEF View
  <2> QED
    BY <1>1, <2>1, WhereStays, FeedStands
<1> QED
  BY <1>2, <1>4, <1>5

\* A refusal the client hears of is a post withdrawn; consent changes nothing.
LEMMA HearIsWithdrawn ==
    ASSUME AppInv, NEW d \in Devices, NEW e \in Devices, Hear(e)
    PROVE  DeviceFeed(d)!Next \/ UNCHANGED DeviceFeed(d)!vars
<1> USE DEF AppInv
<1>1. PICK h \in acks[e] :
          /\ outbox' = [outbox EXCEPT ![e] = @ \ {h}]
          /\ IF h \in Range(db) THEN UNCHANGED asked ELSE TakesBack(e, h)
          /\ UNCHANGED <<selected, shown, taps, db>>
  BY DEF Hear
<1>2. outbox \in [Devices -> SUBSET DOMAIN taps] /\ h \in DOMAIN taps
  BY DEF ClientTypes
<1>3. asked \in [Devices -> SUBSET [no : Nat, place : Places, since : SUBSET Posts]]
  BY DEF FeedInv, FeedTypes
<1>4. CASE e # d
  <2>1. outbox'[d] = outbox[d] /\ asked'[d] = asked[d]
    BY <1>1, <1>2, <1>3, <1>4 DEF TakesBack
  <2>2. View(d)' = View(d)
    BY <1>1, <2>1 DEF View
  <2> QED
    BY <1>1, <2>1, <2>2, WhereStays, FeedStands
<1>5. CASE e = d
  <2>1. outbox'[d] = outbox[d] \ {h}
    BY <1>1, <1>2, <1>5
  <2>2. CASE h \in Range(db)
    <3>1. View(d)' = View(d) /\ asked'[d] = asked[d]
      BY <1>1, <2>1, <2>2 DEF View
    <3> QED
      BY <1>1, <3>1, WhereStays, FeedStands
  <2>3. CASE h \notin Range(db)
    <3>1. View(d)' = View(d) \ {h}
      BY <1>1, <2>1, <2>3 DEF View
    <3>2. asked'[d] = {[q EXCEPT !.since = @ \ {h}] : q \in asked[d]}
      BY <1>1, <1>3, <1>5, <2>3 DEF TakesBack
    <3>3. h \in Posts
      BY <1>2, TapsArePosts
    <3>4. Where(d)' = [Where(d) EXCEPT ![h] = "nowhere"]
      BY <1>1, <3>1, <3>3 DEF Where
    <3> PICK i \in Posts : i = h
      BY <3>3
    <3>5. DeviceFeed(d)!Withdrawn(i)
      BY <1>1, <3>2, <3>4 DEF DeviceFeed!Withdrawn, Where
    <3> QED
      BY <3>5 DEF DeviceFeed!Next
  <2> QED
    BY <2>2, <2>3
<1> QED
  BY <1>4, <1>5

\* A process that dies starts over without what only it knew of.
LEMMA DieIsRestart ==
    ASSUME AppInv, NEW d \in Devices, NEW e \in Devices, Die(e)
    PROVE  DeviceFeed(d)!Next \/ UNCHANGED DeviceFeed(d)!vars
<1> USE DEF AppInv
<1>1. /\ selected' = [selected EXCEPT ![e] = "PS4"]
      /\ shown' = [shown EXCEPT ![e] = NoPosts]
      /\ asked' = [asked EXCEPT ![e] = {}]
      /\ outbox' = [outbox EXCEPT ![e] = {}]
      /\ UNCHANGED <<taps, db>>
  BY DEF Die
<1>2. CASE e # d
  <2>1. /\ selected'[d] = selected[d] /\ shown'[d] = shown[d] /\ asked'[d] = asked[d]
        /\ outbox'[d] = outbox[d]
    BY <1>1, <1>2 DEF FeedInv, FeedTypes, ClientTypes
  <2>2. View(d)' = View(d)
    BY <1>1, <2>1 DEF View
  <2> QED
    BY <1>1, <2>1, <2>2, WhereStays, FeedStands
<1>3. CASE e = d
  <2>1. /\ selected'[d] = "PS4" /\ shown'[d] = NoPosts /\ asked'[d] = {}
        /\ outbox'[d] = {}
    BY <1>1, <1>3 DEF FeedInv, FeedTypes, ClientTypes
  <2>2. View(d)' = Range(db)
    BY <1>1, <2>1 DEF View
  <2> DEFINE lost == Posts \ Range(db)
  <2>3. Range(db) \subseteq View(d)
    BY DEF View
  <2>4. Where(d)' = [i \in Posts |-> IF i \in lost THEN "nowhere" ELSE Where(d)[i]]
    BY <1>1, <2>2, <2>3 DEF Where
  <2>5. SystemKey(selected'[d]) = "ps4"
    BY <2>1 DEF SystemKey
  <2>6. DeviceFeed(d)!Restart
    <3>1. shown'[d] = DeviceFeed(d)!Nothing
      BY <2>1 DEF NoPosts, DeviceFeed!Nothing
    <3>2. lost \in SUBSET Posts
      OBVIOUS
    <3> HIDE DEF lost
    <3> QED
      BY <2>1, <2>4, <2>5, <3>1, <3>2 DEF DeviceFeed!Restart, Where
  <2> QED
    BY <2>6 DEF DeviceFeed!Next
<1> QED
  BY <1>2, <1>3

----------------------------------------------------------------------------
\* Steps of any device, seen from one of them.
LEMMA StepIsFeedStep ==
    ASSUME AppInv, [Next]_vars, NEW d \in Devices
    PROVE  DeviceFeed(d)!Next \/ UNCHANGED DeviceFeed(d)!vars
<1> USE DEF AppInv
<1>1. ASSUME NEW e \in Devices, FeedStep(e)
      PROVE  DeviceFeed(d)!Next \/ UNCHANGED DeviceFeed(d)!vars
  <2>1. UNCHANGED <<taps, outbox, db>>
    BY <1>1, FeedStepsLeaveClients
  <2>2. Where(d)' = Where(d)
    <3>1. View(d)' = View(d)
      BY <2>1 DEF View
    <3> QED
      BY <2>1, <3>1, WhereStays
  <2>3. CASE e # d
    <3>1. selected'[d] = selected[d] /\ shown'[d] = shown[d] /\ asked'[d] = asked[d]
      <4>1. /\ selected' = selected \/ \E s \in Systems : selected' = [selected EXCEPT ![e] = s]
            /\ shown' = shown \/ \E f : shown' = [shown EXCEPT ![e] = f]
            /\ asked' = asked \/ \E q : asked' = [asked EXCEPT ![e] = q]
        <5>1. selected \in [Devices -> Systems]
          BY DEF FeedInv, FeedTypes
        <5> QED
          BY <1>1, <5>1
             DEF FeedStep, Choose, Back, ReadDatabase, Answer, Cancelled, ToCreatePost, feedVars
      <4> QED
        BY <2>3, <4>1 DEF FeedInv, FeedTypes
    <3> QED
      BY <2>2, <3>1, FeedStands
  <2>4. CASE e = d
    <3>1. ASSUME NEW s \in Systems, Choose(d, s) PROVE DeviceFeed(d)!Next
      BY <2>1, <3>1, ReadIsChoose DEF Choose
    <3>2. ASSUME NEW r \in asked[d], Answer(d, r) \/ Cancelled(d, r) PROVE DeviceFeed(d)!Next
      BY <3>2, AnswerIsAnswer
    <3>3. ASSUME Back(d) PROVE DeviceFeed(d)!Next
      <4>1. PICK s \in Systems : s = selected[d]
        BY DEF FeedInv, FeedTypes
      <4>2. ReadDatabase(d, s)
        BY <3>3, <4>1 DEF Back
      <4> QED
        BY <2>1, <4>2, ReadIsChoose
    <3>4. ASSUME ToCreatePost(d) PROVE UNCHANGED DeviceFeed(d)!vars
      <4>1. UNCHANGED <<selected, shown, asked>>
        BY <3>4 DEF ToCreatePost, feedVars
      <4> QED
        BY <2>2, <4>1, FeedStands
    <3> QED
      BY <1>1, <2>4, <3>1, <3>2, <3>3, <3>4 DEF FeedStep
  <2> QED
    BY <2>3, <2>4
<1>2. ASSUME NEW e \in Devices, Send(e) \/ Reconnect(e) PROVE UNCHANGED DeviceFeed(d)!vars
  <2>1. UNCHANGED <<selected, shown, asked, taps, outbox, db>>
    BY <1>2 DEF Send, Reconnect, feedVars
  <2>2. View(d)' = View(d)
    BY <2>1 DEF View
  <2> QED
    BY <2>1, <2>2, WhereStays, FeedStands
<1>3. CASE UNCHANGED vars
  <2>1. UNCHANGED <<selected, shown, asked, taps, outbox, db>>
    BY <1>3 DEF vars, feedVars, clientVars
  <2>2. View(d)' = View(d)
    BY <2>1 DEF View
  <2> QED
    BY <2>1, <2>2, WhereStays, FeedStands
<1> QED
  BY <1>1, <1>2, <1>3, PostIsWritten, ServeIsWritten, HearIsWithdrawn, DieIsRestart
     DEF Next, FeedStep, Exchange

LEMMA InitIsFeedInit ==
    ASSUME Init, NEW d \in Devices
    PROVE  DeviceFeed(d)!Init
BY DEF Init, DeviceFeed!Init, DeviceFeed!Nothing, NoPosts, View, Range, Posts, SystemKey

\* Every device's table is a feed of what its client can see: for any number of
\* devices, the steps of the one, of the others and of the server are steps of
\* Feed or none.
THEOREM EveryTableIsAFeed == Spec => EveryDeviceIsAFeed
<1>1. Init => \A d \in Devices : DeviceFeed(d)!Init
  BY InitIsFeedInit
<1>2. AppInv /\ [Next]_vars =>
         [\A d \in Devices : UNCHANGED DeviceFeed(d)!vars \/ DeviceFeed(d)!Next]_vars
  BY StepIsFeedStep
<1> QED
  BY <1>1, <1>2, AppSafety, PTL DEF Spec, EveryDeviceIsAFeed

----------------------------------------------------------------------------
\* The app as one notice board.  What can still get to the database of a device's
\* posts is in its outbox or on its way.
Afloat(d) == outbox[d] \cup OnTheWay(d)

\* ... and was tapped on it.
OwnAfloat == \A d \in Devices : \A i \in Afloat(d) : i \in DOMAIN taps /\ taps[i].author = d

BoardInv == AppInv /\ OwnAfloat

\* The mapping, one name for each variable of Board.
LostPosts == {i \in DOMAIN taps : Lost(i)}

Seen == [d \in Devices |-> {i \in Posts : shown[d][i] > 0}]

LEMMA LostIsNotAfloat ==
    /\ \A i : Lost(i) <=>
           i \in DOMAIN taps /\ i \notin Range(db) /\ \A d \in Devices : i \notin Afloat(d)
    /\ \A i : Lost(i)' <=>
           i \in DOMAIN taps' /\ i \notin Range(db') /\ \A d \in Devices : i \notin Afloat(d)'
BY DEF Lost, Afloat

----------------------------------------------------------------------------
\* What each step of a client or the server does to what is afloat.
LEMMA PostSetsAfloat ==
    ASSUME FeedTypes, ClientTypes, NEW d \in Devices, PostPost(d)
    PROVE  /\ \E i \in Posts \ DOMAIN taps :
                 /\ DOMAIN taps' = DOMAIN taps \cup {i} /\ taps'[i].author = d
                 /\ Afloat(d)' = Afloat(d) \cup {i}
           /\ \A e \in Devices : e # d => Afloat(e)' = Afloat(e)
<1>1. PICK i \in Posts \ DOMAIN taps :
          /\ DOMAIN taps' = DOMAIN taps \cup {i} /\ taps'[i].author = d
          /\ outbox' = [outbox EXCEPT ![d] = @ \cup {i}]
  BY PostKeepsClients
<1>2. \A e \in Devices : OnTheWay(e)' = OnTheWay(e)
  BY DEF PostPost, OnTheWay
<1>3. /\ outbox'[d] = outbox[d] \cup {i}
      /\ \A e \in Devices : e # d => outbox'[e] = outbox[e]
  BY <1>1 DEF ClientTypes
<1> QED
  BY <1>1, <1>2, <1>3 DEF Afloat

LEMMA SendKeepsAfloat ==
    ASSUME ClientTypes, NEW d \in Devices, Send(d)
    PROVE  \A e \in Devices : Afloat(e)' = Afloat(e)
<1>1. PICK i \in outbox[d] : wire' = [wire EXCEPT ![d] = @ \cup {i}]
  BY DEF Send
<1>2. outbox' = outbox /\ stale' = stale
  BY DEF Send
<1>3. /\ wire'[d] = wire[d] \cup {i}
      /\ \A e \in Devices : e # d => wire'[e] = wire[e]
  BY <1>1 DEF ClientTypes
<1> QED
  BY <1>2, <1>3 DEF Afloat, OnTheWay

LEMMA ServeTakesOne ==
    ASSUME ClientTypes, NEW d \in Devices, Serve(d) \/ ServeStale(d)
    PROVE  /\ \E i \in Afloat(d) :
                 /\ Accepts(i) \/ UNCHANGED db
                 /\ Afloat(d)' \subseteq Afloat(d) /\ Afloat(d) \subseteq Afloat(d)' \cup {i}
           /\ \A e \in Devices : e # d => Afloat(e)' = Afloat(e)
<1>1. outbox' = outbox
  BY DEF Serve, ServeStale
<1>2. CASE Serve(d)
  <2>1. PICK i \in wire[d] : (Accepts(i) \/ UNCHANGED db) /\ wire' = [wire EXCEPT ![d] = @ \ {i}]
    BY <1>2 DEF Serve
  <2>2. stale' = stale
    BY <1>2 DEF Serve
  <2>3. wire'[d] = wire[d] \ {i} /\ \A e \in Devices : e # d => wire'[e] = wire[e]
    BY <2>1 DEF ClientTypes
  <2> QED
    BY <1>1, <2>1, <2>2, <2>3 DEF Afloat, OnTheWay
<1>3. CASE ServeStale(d)
  <2>1. PICK i \in Posts : /\ stale[d][i] > 0 /\ (Accepts(i) \/ UNCHANGED db)
                           /\ stale' = [stale EXCEPT ![d][i] = @ - 1]
    BY <1>3 DEF ServeStale
  <2>2. wire' = wire
    BY <1>3 DEF ServeStale
  <2>3. /\ \A j \in Posts : j # i => stale'[d][j] = stale[d][j]
        /\ \A e \in Devices : e # d => stale'[e] = stale[e]
    BY <2>1 DEF ClientTypes
  <2> QED
    BY <1>1, <2>1, <2>2, <2>3 DEF Afloat, OnTheWay
<1> QED
  BY <1>2, <1>3

LEMMA OthersSink ==
    ASSUME ClientTypes, NEW d \in Devices, Hear(d) \/ Reconnect(d) \/ Die(d)
    PROVE  /\ Afloat(d)' \subseteq Afloat(d)
           /\ \A e \in Devices : e # d => Afloat(e)' = Afloat(e)
<1>1. /\ outbox \in [Devices -> SUBSET DOMAIN taps] /\ wire \in [Devices -> SUBSET DOMAIN taps]
      /\ stale \in [Devices -> [Posts -> 0..MaxStale]]
  BY DEF ClientTypes
<1>2. CASE Hear(d)
  <2>1. wire' = wire /\ stale' = stale /\ \E i : outbox' = [outbox EXCEPT ![d] = @ \ {i}]
    BY <1>2 DEF Hear
  <2>2. /\ outbox'[d] \subseteq outbox[d]
        /\ \A e \in Devices : e # d => outbox'[e] = outbox[e]
    BY <1>1, <2>1
  <2> QED
    BY <2>1, <2>2 DEF Afloat, OnTheWay
<1>3. CASE Reconnect(d) \/ Die(d)
  <2>1. \A e \in Devices : OnTheWay(e)' \subseteq OnTheWay(e) /\ outbox'[e] \subseteq outbox[e]
    BY <1>3, CutKeepsClients
  <2>2. /\ wire' = [wire EXCEPT ![d] = {}]
        /\ \E f : stale' = [stale EXCEPT ![d] = f]
        /\ outbox' = outbox \/ outbox' = [outbox EXCEPT ![d] = {}]
    BY <1>3 DEF Reconnect, Die, Cut
  <2>3. \A e \in Devices : e # d => outbox'[e] = outbox[e] /\ wire'[e] = wire[e] /\ stale'[e] = stale[e]
    BY <1>1, <2>2
  <2> QED
    BY <2>1, <2>3 DEF Afloat, OnTheWay
<1> QED
  BY <1>2, <1>3

\* What is afloat was tapped on its device.
LEMMA OwnAfloatStep == BoardInv /\ [Next]_vars => OwnAfloat'
<1> SUFFICES ASSUME BoardInv, [Next]_vars, NEW e \in Devices, NEW i \in Afloat(e)'
             PROVE  i \in DOMAIN taps' /\ taps'[i].author = e
  BY DEF OwnAfloat
<1> USE DEF BoardInv, AppInv
<1>1. ASSUME i \in Afloat(e), taps' = taps PROVE i \in DOMAIN taps' /\ taps'[i].author = e
  BY <1>1 DEF OwnAfloat
<1>2. ASSUME NEW d \in Devices, PostPost(d)
      PROVE  i \in DOMAIN taps' /\ taps'[i].author = e
  <2>1. PICK j \in Posts \ DOMAIN taps :
            /\ DOMAIN taps' = DOMAIN taps \cup {j} /\ taps'[j].author = d
            /\ Afloat(d)' = Afloat(d) \cup {j}
    BY <1>2, PostSetsAfloat DEF FeedInv
  <2>2. /\ \A e1 \in Devices : e1 # d => Afloat(e1)' = Afloat(e1)
        /\ \A k \in DOMAIN taps : taps'[k] = taps[k]
    BY <1>2, PostSetsAfloat, PostKeepsClients DEF FeedInv
  <2>3. i \in Afloat(e) \/ (e = d /\ i = j)
    BY <2>1, <2>2
  <2> QED
    BY <2>1, <2>2, <2>3 DEF OwnAfloat
<1>3. ASSUME NEW d \in Devices, Send(d) PROVE i \in Afloat(e) /\ taps' = taps
  BY <1>3, SendKeepsAfloat DEF Send
<1>4. ASSUME NEW d \in Devices, Serve(d) \/ ServeStale(d) PROVE i \in Afloat(e) /\ taps' = taps
  BY <1>4, ServeTakesOne DEF Serve, ServeStale
<1>5. ASSUME NEW d \in Devices, Hear(d) \/ Reconnect(d) \/ Die(d)
      PROVE  i \in Afloat(e) /\ taps' = taps
  BY <1>5, OthersSink DEF Hear, Reconnect, Die
<1>6. ASSUME UNCHANGED <<taps, outbox, wire, stale>> PROVE i \in Afloat(e) /\ taps' = taps
  BY <1>6 DEF Afloat, OnTheWay
<1>7. ASSUME NEW d \in Devices, FeedStep(d) PROVE UNCHANGED <<taps, outbox, wire, stale>>
  BY <1>7, FeedStepsLeaveClients
<1>8. CASE UNCHANGED vars
  BY <1>1, <1>6, <1>8 DEF vars, clientVars
<1> QED
  BY <1>1, <1>2, <1>3, <1>4, <1>5, <1>6, <1>7, <1>8 DEF Next, FeedStep, Exchange

----------------------------------------------------------------------------
\* The steps of the board.  A device that lets some of its posts sink loses those
\* of them that were not put up.
LEMMA SinkingLoses ==
    ASSUME BoardInv, NEW d \in Devices, UNCHANGED <<taps, db>>,
           Afloat(d)' \subseteq Afloat(d),
           \A e \in Devices : e # d => Afloat(e)' = Afloat(e)
    PROVE  TheBoard!LosesSome(d)
<1> DEFINE some == LostPosts' \ LostPosts
<1>1. LostPosts \subseteq LostPosts'
  BY LostIsNotAfloat DEF LostPosts
<1>2. ASSUME NEW i \in some
      PROVE  i \in DOMAIN taps /\ i \notin Range(db) /\ taps[i].author = d
  <2>1. i \in DOMAIN taps /\ i \notin Range(db) /\ \A e \in Devices : i \notin Afloat(e)'
    <3>1. i \in LostPosts'
      OBVIOUS
    <3>2. Lost(i)'
      BY <3>1 DEF LostPosts
    <3> QED
      BY <3>2, LostIsNotAfloat
  <2>2. PICK e \in Devices : i \in Afloat(e)
    BY <2>1, LostIsNotAfloat DEF LostPosts
  <2>3. e = d
    BY <2>1, <2>2
  <2> QED
    BY <2>1, <2>2, <2>3 DEF BoardInv, OwnAfloat
<1>0. TheBoard!Range(db) = Range(db)
  BY DEF TheBoard!Range, Range
<1>3. some \in SUBSET (TheBoard!Pending \cap TheBoard!By(d))
  BY <1>0, <1>2, Zenon DEF TheBoard!Pending, TheBoard!By, LostPosts
<1>4. LostPosts' = LostPosts \cup some
  BY <1>1
<1> HIDE DEF some
<1> QED
  BY <1>3, <1>4, Zenon DEF TheBoard!LosesSome, LostPosts

\* What is lost does not change while nothing sinks.
LEMMA LostStands ==
    ASSUME DOMAIN taps' = DOMAIN taps, db' = db,
           \A e \in Devices : Afloat(e)' = Afloat(e)
    PROVE  LostPosts' = LostPosts
<1>1. ASSUME NEW i PROVE Lost(i)' <=> Lost(i)
  <2>1. Lost(i) <=>
           i \in DOMAIN taps /\ i \notin Range(db) /\ \A e \in Devices : i \notin Afloat(e)
    BY LostIsNotAfloat
  <2>2. Lost(i)' <=>
           i \in DOMAIN taps' /\ i \notin Range(db') /\ \A e \in Devices : i \notin Afloat(e)'
    BY LostIsNotAfloat
  <2> QED
    BY <2>1, <2>2
<1> QED
  BY <1>1 DEF LostPosts

\* A device that only changes what it shows looks at the board.
LEMMA ShowingLooks ==
    ASSUME BoardInv, NEW d \in Devices, NEW f, shown' = [shown EXCEPT ![d] = f],
           UNCHANGED <<taps, outbox, wire, stale, db>>,
           \A i \in Posts : f[i] > 0 => shown[d][i] > 0 \/ i \in View(d)
    PROVE  TheBoard!Look(d)
<1> DEFINE new == {i \in Posts : f[i] > 0}
<1>1. LostPosts' = LostPosts
  BY LostStands DEF Afloat, OnTheWay
<1>2. shown \in [Devices -> [Posts -> Nat]]
  BY DEF BoardInv, AppInv, FeedInv, FeedTypes
<1>3. Seen' = [Seen EXCEPT ![d] = new]
  BY <1>2 DEF Seen
<1>4. ASSUME NEW i \in new PROVE i \in Seen[d] \cup Range(db) \cup (TheBoard!By(d) \ LostPosts)
  <2>1. CASE shown[d][i] > 0
    BY <2>1 DEF Seen
  <2>2. CASE i \in outbox[d]
    <3>1. i \in DOMAIN taps /\ taps[i].author = d /\ i \in Afloat(d)
      BY <2>2 DEF BoardInv, OwnAfloat, Afloat
    <3>2. i \notin LostPosts
      BY <3>1, LostIsNotAfloat DEF LostPosts
    <3> QED
      BY <3>1, <3>2 DEF TheBoard!By
  <2> QED
    BY <2>1, <2>2 DEF View
<1>5. new \in SUBSET (Seen[d] \cup Range(db) \cup (TheBoard!By(d) \ LostPosts))
  BY <1>4, Zenon
<1>6. taps' = taps /\ db' = db /\ TheBoard!Range(db) = Range(db)
  BY DEF TheBoard!Range, Range
<1> HIDE DEF new
<1> QED
  BY <1>1, <1>3, <1>5, <1>6, Zenon DEF TheBoard!Look, TheBoard!By, Seen, LostPosts

\* The feed's reads and their answers.
LEMMA FeedLooks ==
    ASSUME BoardInv, NEW d \in Devices, FeedStep(d)
    PROVE  TheBoard!Look(d) \/ UNCHANGED <<taps, db, LostPosts, Seen>>
<1>1. UNCHANGED <<taps, outbox, wire, stale, db>>
  BY FeedStepsLeaveClients
<1>2. ASSUME NEW s, ReadDatabase(d, s) PROVE TheBoard!Look(d)
  <2>1. shown' = [shown EXCEPT ![d] = NoPosts]
    BY <1>2 DEF ReadDatabase
  <2>2. \A i \in Posts : ~(NoPosts[i] > 0)
    BY DEF NoPosts
  <2> QED
    BY <1>1, <2>1, <2>2, ShowingLooks
<1>3. ASSUME NEW r \in asked[d], Answer(d, r) PROVE TheBoard!Look(d)
  <2>1. PICK late \in SUBSET (ViewOf(d, r.place) \ r.since) :
           shown' = [shown EXCEPT ![d] =
                        [i \in Posts |-> @[i] + IF i \in r.since \cup late THEN 1 ELSE 0]]
    BY <1>3 DEF Answer
  <2> DEFINE f == [i \in Posts |-> shown[d][i] + IF i \in r.since \cup late THEN 1 ELSE 0]
  <2>2. r.since \cup late \subseteq View(d)
    <3>1. r.since \subseteq ViewOf(d, r.place)
      BY DEF BoardInv, AppInv, FeedInv, PromisesHold
    <3> QED
      BY <3>1 DEF ViewOf
  <2>3. \A i \in Posts : shown[d][i] \in Nat
    BY DEF BoardInv, AppInv, FeedInv, FeedTypes
  <2>4. \A i \in Posts : f[i] > 0 => shown[d][i] > 0 \/ i \in View(d)
    BY <2>2, <2>3
  <2>5. shown' = [shown EXCEPT ![d] = f]
    BY <2>1
  <2> HIDE DEF f
  <2> QED
    BY <1>1, <2>4, <2>5, ShowingLooks
<1>4. ASSUME UNCHANGED shown PROVE UNCHANGED <<taps, db, LostPosts, Seen>>
  <2>1. LostPosts' = LostPosts
    BY <1>1, LostStands DEF Afloat, OnTheWay
  <2> QED
    BY <1>1, <1>4, <2>1 DEF Seen
<1>5. ASSUME NEW r \in asked[d], Cancelled(d, r) PROVE UNCHANGED shown
  BY <1>5 DEF Cancelled
<1>6. ASSUME ToCreatePost(d) PROVE UNCHANGED shown
  BY <1>6 DEF ToCreatePost, feedVars
<1>7. ASSUME NEW s \in Systems, Choose(d, s) PROVE ReadDatabase(d, s)
  BY <1>7 DEF Choose
<1>8. ASSUME Back(d) PROVE ReadDatabase(d, selected[d])
  BY <1>8 DEF Back
<1> QED
  BY <1>2, <1>3, <1>4, <1>5, <1>6, <1>7, <1>8 DEF FeedStep

\* A tap is a new notice, which is waiting and so not lost.
LEMMA PostTaps ==
    ASSUME BoardInv, NEW d \in Devices, PostPost(d)
    PROVE  d \in Authors /\ TheBoard!Tap(d)
<1> USE DEF BoardInv, AppInv
<1>0. PICK i \in Posts \ DOMAIN taps :
          DOMAIN taps' = DOMAIN taps \cup {i} /\ Afloat(d)' = Afloat(d) \cup {i}
  BY PostSetsAfloat DEF FeedInv
<1>1. /\ taps' = Append(taps, [author |-> d, place |-> SystemKey(composer[d])])
      /\ UNCHANGED <<shown, db>>
  BY DEF PostPost, feedVars
<1>2. d \in Authors /\ SystemKey(composer[d]) \in Places
  <2>1. composer[d] \in Systems /\ d \in Authors
    BY DEF FeedInv, FeedTypes, PostPost
  <2> QED
    BY <2>1, KeyIsPlace
<1>3. DOMAIN taps' = DOMAIN taps \cup {i} /\ i \notin DOMAIN taps
  BY <1>0
<1>4. Afloat(d)' = Afloat(d) \cup {i} /\ \A e \in Devices : e # d => Afloat(e)' = Afloat(e)
  BY <1>0, PostSetsAfloat DEF FeedInv
<1>5. LostPosts' = LostPosts
  <2>1. ASSUME NEW j \in DOMAIN taps PROVE Lost(j)' <=> Lost(j)
    BY <1>1, <1>3, <1>4, LostIsNotAfloat
  <2>2. ~Lost(i)'
    <3>1. i \in Afloat(d)'
      BY <1>4
    <3>2. Lost(i)' => i \notin Afloat(d)'
      BY LostIsNotAfloat
    <3> QED
      BY <3>1, <3>2
  <2> QED
    BY <1>3, <2>1, <2>2 DEF LostPosts
<1>6. Seen' = Seen
  BY <1>1 DEF Seen
<1> QED
  BY <1>1, <1>2, <1>5, <1>6, Zenon DEF TheBoard!Tap, LostPosts, Seen

\* What the server takes is put up; what it refuses may be lost.
LEMMA ServePublishes ==
    ASSUME BoardInv, NEW d \in Devices, Serve(d) \/ ServeStale(d)
    PROVE  \/ \E i \in TheBoard!Pending : TheBoard!Publish(i)
           \/ TheBoard!Lose(d)
           \/ UNCHANGED <<taps, db, LostPosts, Seen>>
<1> USE DEF BoardInv, AppInv
<1>0. TheBoard!Range(db) = Range(db)
  BY DEF TheBoard!Range, Range
<1>1. UNCHANGED <<taps, shown>>
  BY DEF Serve, ServeStale, feedVars
<1>2. Seen' = Seen
  BY <1>1 DEF Seen
<1>3. PICK i \in Afloat(d) :
          /\ Accepts(i) \/ UNCHANGED db
          /\ Afloat(d)' \subseteq Afloat(d) /\ Afloat(d) \subseteq Afloat(d)' \cup {i}
  BY ServeTakesOne
<1>4. /\ Afloat(d)' \subseteq Afloat(d) /\ Afloat(d) \subseteq Afloat(d)' \cup {i}
      /\ \A e \in Devices : e # d => Afloat(e)' = Afloat(e)
  BY <1>3, ServeTakesOne
<1>5. i \in DOMAIN taps /\ ~Lost(i)
  BY <1>4, LostIsNotAfloat DEF OwnAfloat
<1>6. CASE UNCHANGED db
  <2>1. TheBoard!LosesSome(d)
    BY <1>1, <1>4, <1>6, SinkingLoses
  <2> QED
    BY <1>1, <1>2, <1>6, <2>1, Zenon DEF TheBoard!Lose, Seen
<1>7. CASE i \notin Range(db) /\ db' = Append(db, i)
  <2>1. Range(db') = Range(db) \cup {i}
    <3>1. Accepts(i)
      BY <1>7, Zenon DEF Accepts
    <3> QED
      BY <1>5, <3>1, ServeGrows
  <2>2. ASSUME NEW j \in DOMAIN taps PROVE Lost(j)' <=> Lost(j)
    <3>1. CASE j = i
      <4>1. Lost(j)' => j \notin Range(db')
        BY LostIsNotAfloat
      <4> QED
        BY <1>5, <2>1, <3>1, <4>1
    <3>2. CASE j # i
      <4>1. \A e \in Devices : j \in Afloat(e)' <=> j \in Afloat(e)
        BY <1>4, <3>2
      <4>2. Lost(j)' <=>
               j \in DOMAIN taps' /\ j \notin Range(db') /\ \A e \in Devices : j \notin Afloat(e)'
        BY LostIsNotAfloat
      <4>3. Lost(j) <=>
               j \in DOMAIN taps /\ j \notin Range(db) /\ \A e \in Devices : j \notin Afloat(e)
        BY LostIsNotAfloat
      <4> QED
        BY <1>1, <2>1, <3>2, <4>1, <4>2, <4>3
    <3> QED
      BY <3>1, <3>2
  <2>3. LostPosts' = LostPosts
    BY <1>1, <2>2 DEF LostPosts
  <2>4. i \in TheBoard!Pending
    BY <1>0, <1>5, <1>7 DEF TheBoard!Pending
  <2>5. TheBoard!Publish(i)
    BY <1>1, <1>2, <1>7, <2>3, Zenon DEF TheBoard!Publish, LostPosts, Seen
  <2> QED
    BY <2>4, <2>5
<1>8. UNCHANGED db \/ (i \notin Range(db) /\ db' = Append(db, i))
  BY <1>3, Zenon DEF Accepts
<1> QED
  BY <1>6, <1>7, <1>8

\* A refusal that is heard, a lost connection and a dead process lose posts of
\* their device only.
LEMMA OthersLose ==
    ASSUME BoardInv, NEW d \in Devices, Hear(d) \/ Reconnect(d) \/ Die(d)
    PROVE  TheBoard!Lose(d) \/ TheBoard!Restart(d)
<1>1. UNCHANGED <<taps, db>>
  BY DEF Hear, Reconnect, Die
<1>2. TheBoard!LosesSome(d)
  BY <1>1, OthersSink, SinkingLoses DEF BoardInv, AppInv
<1>3. CASE Hear(d) \/ Reconnect(d)
  <2>1. shown' = shown
    BY <1>3 DEF Hear, Reconnect, feedVars
  <2>2. Seen' = Seen
    BY <2>1 DEF Seen
  <2> QED
    BY <1>1, <1>2, <2>2, Zenon DEF TheBoard!Lose, Seen
<1>4. CASE Die(d)
  <2>1. shown' = [shown EXCEPT ![d] = NoPosts]
    BY <1>4 DEF Die
  <2>2. shown \in [Devices -> [Posts -> Nat]]
    BY DEF BoardInv, AppInv, FeedInv, FeedTypes
  <2>3. {i \in Posts : NoPosts[i] > 0} = {}
    BY DEF NoPosts
  <2>4. shown'[d] = NoPosts /\ \A e \in Devices : e # d => shown'[e] = shown[e]
    BY <2>1, <2>2
  <2>5. Seen' = [Seen EXCEPT ![d] = {}]
    BY <2>3, <2>4 DEF Seen
  <2> QED
    BY <1>1, <1>2, <2>5, Zenon DEF TheBoard!Restart, Seen
<1> QED
  BY <1>3, <1>4

\* The whole app implements the notice board (IsABoard of TeammateFinder): from
\* the tap of postPost over sending, serving, refusing, sending again and dying
\* to the tables of readDatabase, every step is one of the board's or invisible.
LEMMA BoardStep == BoardInv /\ [Next]_vars => [TheBoard!Next]_(TheBoard!vars)
<1> SUFFICES ASSUME BoardInv, [Next]_vars
             PROVE  TheBoard!Next \/ UNCHANGED <<taps, db, LostPosts, Seen>>
  BY Zenon DEF TheBoard!vars, LostPosts, Seen
<1>1. ASSUME NEW d \in Devices, FeedStep(d)
      PROVE  TheBoard!Next \/ UNCHANGED <<taps, db, LostPosts, Seen>>
  BY <1>1, FeedLooks, Zenon DEF TheBoard!Next
<1>2. ASSUME NEW d \in Devices, PostPost(d) PROVE TheBoard!Next
  BY <1>2, PostTaps, Zenon DEF TheBoard!Next
<1>3. ASSUME NEW d \in Devices, Serve(d) \/ ServeStale(d)
      PROVE  TheBoard!Next \/ UNCHANGED <<taps, db, LostPosts, Seen>>
  BY <1>3, ServePublishes, Zenon DEF TheBoard!Next
<1>4. ASSUME NEW d \in Devices, Hear(d) \/ Reconnect(d) \/ Die(d) PROVE TheBoard!Next
  BY <1>4, OthersLose, Zenon DEF TheBoard!Next
<1>5. ASSUME UNCHANGED <<taps, shown, db>>, \A e \in Devices : Afloat(e)' = Afloat(e)
      PROVE  UNCHANGED <<taps, db, LostPosts, Seen>>
  <2>1. LostPosts' = LostPosts
    BY <1>5, LostStands
  <2> QED
    BY <1>5, <2>1 DEF Seen
<1>6. ASSUME NEW d \in Devices, Send(d) PROVE UNCHANGED <<taps, db, LostPosts, Seen>>
  <2>1. UNCHANGED <<taps, shown, db>>
    BY <1>6 DEF Send, feedVars
  <2>2. \A e \in Devices : Afloat(e)' = Afloat(e)
    BY <1>6, SendKeepsAfloat DEF BoardInv, AppInv
  <2> QED
    BY <1>5, <2>1, <2>2
<1>7. CASE UNCHANGED vars
  <2>1. UNCHANGED <<taps, shown, db, outbox, wire, stale>>
    BY <1>7 DEF vars, feedVars, clientVars
  <2> QED
    BY <1>5, <2>1 DEF Afloat, OnTheWay
<1> QED
  BY <1>1, <1>2, <1>3, <1>4, <1>6, <1>7, Zenon DEF Next, FeedStep, Exchange

LEMMA BoardBegins == Init => OwnAfloat /\ TheBoard!Init
<1> SUFFICES ASSUME Init PROVE OwnAfloat /\ TheBoard!Init
  OBVIOUS
<1>1. /\ taps = <<>> /\ db = <<>> /\ shown = [d \in Devices |-> NoPosts]
      /\ \A d \in Devices : outbox[d] = {} /\ wire[d] = {} /\ stale[d] = NoPosts
  BY DEF Init
<1>2. Range(<<>>) = {} /\ DOMAIN <<>> = {}
  BY DEF Range
<1>3. \A i \in Posts : ~(NoPosts[i] > 0)
  BY DEF NoPosts
<1>4. OwnAfloat
  BY <1>1, <1>2, <1>3 DEF OwnAfloat, Afloat, OnTheWay
<1>5. LostPosts = {}
  BY <1>1, <1>2 DEF LostPosts
<1>6. Seen = [d \in Devices |-> {}]
  BY <1>1, <1>3 DEF Seen
<1> QED
  BY <1>1, <1>4, <1>5, <1>6, Zenon DEF TheBoard!Init, LostPosts, Seen

\* The app is a notice board: whatever is sent twice, refused, lost on the way or
\* takes its process along, a tap of postPost is one post on it or, for good, none.
THEOREM AppIsABoard == Spec => IsABoard
<1>1. Init => BoardInv
  BY InitApp, BoardBegins DEF BoardInv
<1>2. BoardInv /\ [Next]_vars => BoardInv'
  BY AppInvStep, OwnAfloatStep DEF BoardInv
<1>3. Init => TheBoard!Init
  BY BoardBegins
<1>4. BoardInv /\ [Next]_vars => [TheBoard!Next]_(TheBoard!vars)
  BY BoardStep
<1> QED
  BY <1>1, <1>2, <1>3, <1>4, PTL DEF Spec, IsABoard, TheBoard!Spec
=============================================================================
