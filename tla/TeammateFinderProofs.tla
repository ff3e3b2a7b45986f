------------------------ MODULE TeammateFinderProofs ------------------------
(***************************************************************************)
(* Theorems about TeammateFinder, for any number of devices, taps, systems,*)
(* reads and copies left over.  The argument rests on where posts can come *)
(* from: into an outbox from a tap on that device, on the way and into the *)
(* database from an outbox, into a table from the database or from the     *)
(* device's own outbox.                                                    *)
(***************************************************************************)
EXTENDS TeammateFinder, SequenceTheorems, TLAPS

\* TypeOK in two halves.  The first also says who has a composer at all, the
\* second that every copy left over is of a tap.
FeedTypes ==
    /\ selected \in [Devices -> Systems]
    /\ shown \in [Devices -> [Posts -> Nat]]
    /\ asked \in [Devices -> SUBSET [no : Nat, place : Places, since : SUBSET Posts]]
    /\ composer \in [Devices -> Systems \cup {NoComposer}]
    /\ \A d \in Devices : composer[d] # NoComposer => d \in Authors

ClientTypes ==
    /\ taps \in Seq([author : Authors, place : Places]) /\ Len(taps) <= MaxTaps
    /\ outbox \in [Devices -> SUBSET DOMAIN taps]
    /\ sent \in [Devices -> SUBSET DOMAIN taps] /\ \A d \in Devices : sent[d] \subseteq outbox[d]
    /\ wire \in [Devices -> SUBSET DOMAIN taps]
    /\ acks \in [Devices -> SUBSET DOMAIN taps]
    /\ stale \in [Devices -> [Posts -> 0..MaxStale]]
    /\ \A d \in Devices, i \in Posts : stale[d][i] > 0 => i \in DOMAIN taps
    /\ db \in Seq(DOMAIN taps)

\* The steps that leave the clients and the server alone.
FeedStep(d) ==
    \/ \E s \in Systems : Choose(d, s)
    \/ \E r \in asked[d] : Answer(d, r) \/ Cancelled(d, r)
    \/ ToCreatePost(d)
    \/ Back(d)

LEMMA FeedStepsLeaveClients ==
    ASSUME NEW d \in Devices, FeedStep(d)
    PROVE  UNCHANGED <<taps, outbox, sent, wire, acks, stale, db>>
BY DEF FeedStep, Choose, Answer, Cancelled, ToCreatePost, Back, clientVars

\* A place the app can write to.
LEMMA KeyIsPlace == ASSUME NEW s \in Systems PROVE SystemKey(s) \in Places
BY DEF Places

LEMMA TapsArePosts ==
    ASSUME ClientTypes
    PROVE  DOMAIN taps \subseteq Posts /\ DOMAIN taps = 1..Len(taps) /\ Len(taps) \in Nat
<1>1. /\ taps \in Seq([author : Authors, place : Places]) /\ Len(taps) <= MaxTaps
      /\ MaxTaps \in Nat
  BY AppAssumption DEF ClientTypes, AppAssumption
<1>2. DOMAIN taps = 1..Len(taps) /\ Len(taps) \in Nat
  BY <1>1, LenProperties
<1> QED
  BY <1>1, <1>2 DEF Posts

\* What postPost does to the types: there is one more tap to speak of.
LEMMA PostKeepsClients ==
    ASSUME FeedTypes, ClientTypes, NEW d \in Devices, PostPost(d)
    PROVE  /\ ClientTypes' /\ DOMAIN taps \subseteq DOMAIN taps'
           /\ \A i \in DOMAIN taps : taps'[i] = taps[i]
           /\ \E i \in Posts \ DOMAIN taps :
                 /\ DOMAIN taps' = DOMAIN taps \cup {i}
                 /\ taps'[i].author = d /\ taps'[i].place \in Places
                 /\ outbox' = [outbox EXCEPT ![d] = @ \cup {i}]
<1> DEFINE tap == [author |-> d, place |-> SystemKey(composer[d])]
<1>1. /\ taps' = Append(taps, tap) /\ Len(taps) < MaxTaps
      /\ outbox' = [outbox EXCEPT ![d] = @ \cup {Len(taps) + 1}]
      /\ UNCHANGED <<sent, wire, acks, stale, db>>
  BY DEF PostPost
<1>2. /\ tap \in [author : Authors, place : Places]
      /\ tap.author = d /\ tap.place \in Places
  <2>1. composer[d] \in Systems /\ d \in Authors
    BY DEF FeedTypes, PostPost
  <2> QED
    BY <2>1, KeyIsPlace
<1>3. /\ taps' \in Seq([author : Authors, place : Places]) /\ Len(taps') = Len(taps) + 1
      /\ Len(taps) \in Nat /\ DOMAIN taps = 1..Len(taps) /\ DOMAIN taps' = 1..Len(taps')
      /\ \A i \in DOMAIN taps : taps'[i] = taps[i]
      /\ taps'[Len(taps) + 1] = tap
  <2> HIDE DEF tap
  <2>1. taps \in Seq([author : Authors, place : Places])
    BY DEF ClientTypes
  <2> QED
    BY <1>1, <1>2, <2>1
<1>4. Len(taps') <= MaxTaps
  BY <1>1, <1>3, AppAssumption DEF AppAssumption
<1>5. PICK i \in Posts \ DOMAIN taps : i = Len(taps) + 1 /\ DOMAIN taps' = DOMAIN taps \cup {i}
  <2>1. Len(taps) + 1 \in Posts
    BY <1>1, <1>3, AppAssumption DEF AppAssumption, Posts
  <2> QED
    BY <1>3, <2>1
<1>6. DOMAIN taps \subseteq DOMAIN taps'
  BY <1>3
<1> HIDE DEF tap
<1>7. /\ outbox' \in [Devices -> SUBSET DOMAIN taps']
      /\ \A e \in Devices : outbox[e] \subseteq outbox'[e]
      /\ outbox' = [outbox EXCEPT ![d] = @ \cup {i}]
  BY <1>1, <1>5, <1>6 DEF ClientTypes
<1>8. /\ sent' \in [Devices -> SUBSET DOMAIN taps']
      /\ wire' \in [Devices -> SUBSET DOMAIN taps']
      /\ acks' \in [Devices -> SUBSET DOMAIN taps']
  BY <1>1, <1>6 DEF ClientTypes
<1>9. \A e \in Devices : sent'[e] \subseteq outbox'[e]
  BY <1>1, <1>7 DEF ClientTypes
<1>10. db' \in Seq(DOMAIN taps')
  <2>1. Len(db) \in Nat /\ db \in [1..Len(db) -> DOMAIN taps]
    BY LenProperties DEF ClientTypes
  <2>2. db \in [1..Len(db) -> DOMAIN taps']
    BY <1>6, <2>1
  <2> QED
    BY <1>1, <2>1, <2>2, SeqDef
<1>11. /\ stale' \in [Devices -> [Posts -> 0..MaxStale]]
       /\ \A e \in Devices, j \in Posts : stale'[e][j] > 0 => j \in DOMAIN taps'
  BY <1>1, <1>6 DEF ClientTypes
<1>12. ClientTypes'
  BY <1>3, <1>4, <1>7, <1>8, <1>9, <1>10, <1>11, Zenon DEF ClientTypes
<1>13. taps'[i].author = d /\ taps'[i].place \in Places
  BY <1>2, <1>3, <1>5
<1> QED
  BY <1>3, <1>5, <1>6, <1>7, <1>12, <1>13, Zenon

----------------------------------------------------------------------------
LEMMA SendKeepsClients ==
    ASSUME ClientTypes, NEW d \in Devices, Send(d)
    PROVE  ClientTypes' /\ \A e \in Devices : OnTheWay(e)' \subseteq OnTheWay(e) \cup outbox[e]
<1>1. PICK i \in outbox[d] :
          /\ sent' = [sent EXCEPT ![d] = @ \cup {i}]
          /\ wire' = [wire EXCEPT ![d] = @ \cup {i}]
          /\ UNCHANGED <<taps, outbox, acks, stale, db>>
  BY DEF Send
<1>2. /\ sent' \in [Devices -> SUBSET DOMAIN taps] /\ \A e \in Devices : sent'[e] \subseteq outbox[e]
      /\ wire' \in [Devices -> SUBSET DOMAIN taps]
      /\ \A e \in Devices : wire'[e] \subseteq wire[e] \cup outbox[e]
  BY <1>1 DEF ClientTypes
<1>3. ClientTypes'
  BY <1>1, <1>2 DEF ClientTypes
<1>4. \A e \in Devices : OnTheWay(e)' \subseteq OnTheWay(e) \cup outbox[e]
  BY <1>1, <1>2 DEF OnTheWay
<1> QED
  BY <1>3, <1>4

\* What is on its way was tapped.
LEMMA OnTheWayTapped ==
    ASSUME ClientTypes, NEW d \in Devices
    PROVE  OnTheWay(d) \subseteq DOMAIN taps
BY DEF ClientTypes, OnTheWay

\* Nothing that is in the database leaves it.
LEMMA ServeGrows ==
    ASSUME ClientTypes, NEW i \in DOMAIN taps, Accepts(i)
    PROVE  /\ db' \in Seq(DOMAIN taps)
           /\ Range(db') = Range(db) \cup {i}
           /\ OnePostPerTap => OnePostPerTap'
<1>1. CASE i \in Range(db)
  BY <1>1 DEF Accepts, ClientTypes, OnePostPerTap
<1>2. CASE i \notin Range(db)
  <2>1. db' = Append(db, i) /\ db \in Seq(DOMAIN taps)
    BY <1>2 DEF Accepts, ClientTypes
  <2>2. /\ db' \in Seq(DOMAIN taps) /\ Len(db) \in Nat
        /\ DOMAIN db = 1..Len(db) /\ DOMAIN db' = 1..(Len(db) + 1)
        /\ \A k \in 1..Len(db) : db'[k] = db[k]
        /\ db'[Len(db) + 1] = i
    BY <2>1
  <2>3. Range(db') \subseteq Range(db) \cup {i}
    BY <2>2 DEF Range
  <2>4. Range(db) \subseteq Range(db')
    BY <2>2 DEF Range
  <2>5. i \in Range(db')
    BY <2>2 DEF Range
  <2>6. ASSUME OnePostPerTap PROVE OnePostPerTap'
    <3>1. \A k \in 1..Len(db) : db'[k] # i
      BY <1>2, <2>2 DEF Range
    <3> SUFFICES ASSUME NEW j \in DOMAIN db', NEW k \in DOMAIN db', db'[j] = db'[k]
                 PROVE  j = k
      BY DEF OnePostPerTap
    <3>2. CASE j \in 1..Len(db) /\ k \in 1..Len(db)
      BY <2>2, <2>6, <3>2 DEF OnePostPerTap
    <3>3. CASE j = Len(db) + 1 \/ k = Len(db) + 1
      BY <2>2, <3>1, <3>3
    <3> QED
      BY <2>2, <3>2, <3>3
  <2> QED
    BY <2>2, <2>3, <2>4, <2>5, <2>6
<1> QED
  BY <1>1, <1>2

\* The server takes or refuses a copy that was on its way, of this connection or
\* of an earlier one.
LEMMA ServeKeepsClients ==
    ASSUME ClientTypes, NEW d \in Devices, Serve(d) \/ ServeStale(d)
    PROVE  /\ ClientTypes'
           /\ UNCHANGED <<selected, shown, asked, composer, taps, outbox>>
           /\ \A e \in Devices : OnTheWay(e)' \subseteq OnTheWay(e)
           /\ OnePostPerTap => OnePostPerTap'
           /\ \E i \in OnTheWay(d) :
                 \/ Accepts(i) /\ Range(db') = Range(db) \cup {i}
                 \/ UNCHANGED db
<1>1. PICK i \in OnTheWay(d) : Accepts(i) \/ UNCHANGED db
  BY DEF Serve, ServeStale, OnTheWay
<1>2. UNCHANGED <<selected, shown, asked, composer, taps, outbox, sent>>
  BY DEF Serve, ServeStale, feedVars
<1>3. i \in DOMAIN taps
  BY OnTheWayTapped
<1>4. /\ db' \in Seq(DOMAIN taps)
      /\ OnePostPerTap => OnePostPerTap'
      /\ \/ Accepts(i) /\ Range(db') = Range(db) \cup {i}
         \/ UNCHANGED db
  <2>1. CASE Accepts(i)
    BY <1>3, <2>1, ServeGrows
  <2>2. CASE UNCHANGED db
    BY <2>2 DEF ClientTypes, OnePostPerTap
  <2> QED
    BY <1>1, <2>1, <2>2
<1>5. /\ wire' \in [Devices -> SUBSET DOMAIN taps] /\ acks' \in [Devices -> SUBSET DOMAIN taps]
      /\ \A e \in Devices : wire'[e] \subseteq wire[e]
  <2>1. CASE Serve(d)
    BY <2>1 DEF Serve, ClientTypes
  <2>2. CASE ServeStale(d)
    BY <2>2 DEF ServeStale, ClientTypes
  <2> QED
    BY <2>1, <2>2
<1>6. /\ stale' \in [Devices -> [Posts -> 0..MaxStale]]
      /\ \A e \in Devices, j \in Posts : stale'[e][j] > 0 => stale[e][j] > 0
  <2>1. CASE Serve(d)
    BY <2>1 DEF Serve, ClientTypes
  <2>2. CASE ServeStale(d)
    <3>1. PICK j \in Posts : /\ stale[d][j] > 0
                             /\ stale' = [stale EXCEPT ![d][j] = @ - 1]
      BY <2>2 DEF ServeStale
    <3>2. stale \in [Devices -> [Posts -> 0..MaxStale]] /\ MaxStale \in Nat
      BY AppAssumption DEF ClientTypes, AppAssumption
    <3>3. stale[d][j] \in 0..MaxStale /\ stale[d][j] - 1 \in 0..MaxStale
      BY <3>1, <3>2
    <3>4. stale' \in [Devices -> [Posts -> 0..MaxStale]]
      BY <3>1, <3>2, <3>3
    <3>5. \A e \in Devices, k \in Posts : stale'[e][k] = stale[e][k] \/ (e = d /\ k = j)
      BY <3>1, <3>2
    <3> QED
      BY <3>1, <3>4, <3>5
  <2> QED
    BY <2>1, <2>2
<1>7. ClientTypes'
  BY <1>2, <1>4, <1>5, <1>6 DEF ClientTypes
<1>8. \A e \in Devices : OnTheWay(e)' \subseteq OnTheWay(e)
  BY <1>5, <1>6 DEF OnTheWay
<1> QED
  BY <1>2, <1>4, <1>7, <1>8

LEMMA HearKeepsClients ==
    ASSUME ClientTypes, NEW d \in Devices, Hear(d)
    PROVE  /\ ClientTypes'
           /\ UNCHANGED <<selected, shown, composer, taps, wire, stale, db>>
           /\ \A e \in Devices : outbox'[e] \subseteq outbox[e]
<1>1. PICK i \in acks[d] :
          /\ outbox' = [outbox EXCEPT ![d] = @ \ {i}]
          /\ sent' = [sent EXCEPT ![d] = @ \ {i}]
          /\ acks' = [acks EXCEPT ![d] = @ \ {i}]
          /\ UNCHANGED <<selected, shown, composer, taps, wire, stale, db>>
  BY DEF Hear
<1>2. /\ outbox' \in [Devices -> SUBSET DOMAIN taps] /\ sent' \in [Devices -> SUBSET DOMAIN taps]
      /\ acks' \in [Devices -> SUBSET DOMAIN taps]
      /\ \A e \in Devices : outbox'[e] \subseteq outbox[e] /\ sent'[e] \subseteq outbox'[e]
  BY <1>1 DEF ClientTypes
<1> QED
  BY <1>1, <1>2 DEF ClientTypes

\* With a connection, or with a process, go the answers, and nothing is on its way
\* that was not.
LEMMA CutKeepsClients ==
    ASSUME ClientTypes, NEW d \in Devices, Reconnect(d) \/ Die(d)
    PROVE  /\ ClientTypes'
           /\ \A e \in Devices : OnTheWay(e)' \subseteq OnTheWay(e) /\ outbox'[e] \subseteq outbox[e]
<1>1. PICK rest \in SUBSET {i \in wire[d] : stale[d][i] < MaxStale} :
          stale' = [stale EXCEPT ![d] = [i \in Posts |-> @[i] + IF i \in rest THEN 1 ELSE 0]]
  BY DEF Reconnect, Die, Cut
<1>2. /\ wire' = [wire EXCEPT ![d] = {}] /\ acks' = [acks EXCEPT ![d] = {}]
      /\ sent' = [sent EXCEPT ![d] = {}]
      /\ outbox' = outbox \/ outbox' = [outbox EXCEPT ![d] = {}]
      /\ UNCHANGED <<taps, db>>
  BY DEF Reconnect, Die, Cut
<1>3. /\ stale \in [Devices -> [Posts -> 0..MaxStale]] /\ MaxStale \in Nat
      /\ rest \subseteq DOMAIN taps /\ rest \subseteq wire[d]
  BY AppAssumption DEF ClientTypes, AppAssumption
<1>4. \A i \in Posts : (stale[d][i] + IF i \in rest THEN 1 ELSE 0) \in 0..MaxStale
  BY <1>3
<1>5. /\ stale' \in [Devices -> [Posts -> 0..MaxStale]]
      /\ \A e \in Devices : e # d => stale'[e] = stale[e]
      /\ \A i \in Posts : i \notin rest => stale'[d][i] = stale[d][i]
  <2>1. stale'[d] = [i \in Posts |-> stale[d][i] + IF i \in rest THEN 1 ELSE 0]
    BY <1>1, <1>3
  <2>2. \A i \in Posts : i \notin rest => stale'[d][i] = stale[d][i] + 0 /\ stale[d][i] \in Nat
    BY <1>3, <2>1
  <2>3. stale'[d] \in [Posts -> 0..MaxStale]
    BY <1>4, <2>1
  <2>4. /\ stale' \in [Devices -> [Posts -> 0..MaxStale]]
        /\ \A e \in Devices : e # d => stale'[e] = stale[e]
    BY <1>1, <1>3, <2>1, <2>3
  <2> QED
    BY <2>2, <2>4
<1>6. /\ wire' \in [Devices -> SUBSET DOMAIN taps] /\ acks' \in [Devices -> SUBSET DOMAIN taps]
      /\ sent' \in [Devices -> SUBSET DOMAIN taps] /\ outbox' \in [Devices -> SUBSET DOMAIN taps]
      /\ \A e \in Devices : /\ wire'[e] \subseteq wire[e] /\ outbox'[e] \subseteq outbox[e]
                            /\ sent'[e] \subseteq outbox'[e]
  BY <1>2 DEF ClientTypes
<1>7. \A e \in Devices, i \in Posts : stale'[e][i] > 0 => stale[e][i] > 0 \/ i \in wire[e]
  BY <1>3, <1>5
<1>8. \A e \in Devices, i \in Posts : stale'[e][i] > 0 => i \in DOMAIN taps
  BY <1>7 DEF ClientTypes
<1>9. ClientTypes'
  BY <1>2, <1>5, <1>6, <1>8 DEF ClientTypes
<1>10. \A e \in Devices : OnTheWay(e)' \subseteq OnTheWay(e)
  BY <1>6, <1>7 DEF OnTheWay
<1> QED
  BY <1>6, <1>9, <1>10

----------------------------------------------------------------------------
\* A client only ever sends what was tapped on its device.
OwnWrites == \A d \in Devices : \A i \in outbox[d] : taps[i].author = d

\* What a read was promised is still there to be found.
PromisesHold ==
    \A d \in Devices : \A r \in asked[d] : r.since \subseteq ViewOf(d, r.place)

ShownTapped == \A d \in Devices, i \in Posts : shown[d][i] > 0 => i \in DOMAIN taps

FeedInv == FeedTypes /\ PromisesHold /\ ShownTapped /\ OthersSeeAccepted

\* A client sees posts; those of others only from the database.
LEMMA ViewHolds ==
    ASSUME ClientTypes, NEW d \in Devices
    PROVE  /\ View(d) \subseteq DOMAIN taps
           /\ \A p : ViewOf(d, p) \subseteq View(d)
           /\ OwnWrites => \A i \in View(d) : taps[i].author # d => i \in Range(db)
<1>1. outbox[d] \subseteq DOMAIN taps /\ db \in Seq(DOMAIN taps)
  BY DEF ClientTypes
<1>2. \A k \in DOMAIN db : db[k] \in DOMAIN taps
  BY <1>1, LenProperties
<1>3. View(d) \subseteq DOMAIN taps
  BY <1>1, <1>2 DEF View, Range
<1>4. \A p : ViewOf(d, p) \subseteq View(d)
  BY DEF ViewOf
<1>5. ASSUME OwnWrites, NEW i \in View(d), taps[i].author # d PROVE i \in Range(db)
  BY <1>5, Zenon DEF View, OwnWrites
<1> QED
  BY <1>3, <1>4, <1>5

\* The view only grows with the database, the taps and the outbox.
LEMMA ViewGrows ==
    ASSUME ClientTypes, NEW d \in Devices, Range(db) \subseteq Range(db'),
           outbox[d] \subseteq outbox'[d],
           \A i \in DOMAIN taps : taps'[i] = taps[i]
    PROVE  \A p : ViewOf(d, p) \subseteq ViewOf(d, p)'
<1> SUFFICES ASSUME NEW p, NEW i \in ViewOf(d, p) PROVE i \in ViewOf(d, p)'
  OBVIOUS
<1>1. i \in View(d) /\ taps[i].place = p /\ i \in DOMAIN taps
  BY ViewHolds DEF ViewOf
<1>2. i \in View(d)'
  BY <1>1 DEF View
<1>3. taps'[i].place = p
  BY <1>1
<1> QED
  BY <1>2, <1>3 DEF ViewOf

----------------------------------------------------------------------------
\* Asking the database: the table is empty and the new promise is what is there.
LEMMA ReadKeepsFeed ==
    ASSUME FeedInv, ClientTypes, NEW d \in Devices, NEW s \in Systems, ReadDatabase(d, s),
           UNCHANGED <<taps, outbox, db>>,
           composer' \in [Devices -> Systems \cup {NoComposer}],
           \A e \in Devices : composer'[e] # NoComposer => e \in Authors
    PROVE  FeedInv'
<1> DEFINE place == SystemKey(s)
<1>1. PICK no \in 1..MaxReads[d],
            since \in {ViewOf(d, place)} \cup {r.since : r \in {q \in asked[d] : q.place = place}} :
          asked' = [asked EXCEPT ![d] = @ \cup {[no |-> no, place |-> place, since |-> since]}]
  BY DEF ReadDatabase
<1>2. /\ selected' = [selected EXCEPT ![d] = s]
      /\ shown' = [shown EXCEPT ![d] = NoPosts]
  BY DEF ReadDatabase
<1>3. since \subseteq ViewOf(d, place)
  BY <1>1 DEF FeedInv, PromisesHold
<1>4. since \subseteq Posts
  BY <1>3, ViewHolds, TapsArePosts
<1>5. NoPosts \in [Posts -> Nat] /\ \A i \in Posts : ~(NoPosts[i] > 0)
  BY DEF NoPosts
<1>6. [no |-> no, place |-> place, since |-> since] \in [no : Nat, place : Places, since : SUBSET Posts]
  <2>1. place \in Places
    BY KeyIsPlace
  <2>2. no \in Nat
    BY AppAssumption DEF AppAssumption
  <2> QED
    BY <1>4, <2>1, <2>2
<1>7. /\ asked' \in [Devices -> SUBSET [no : Nat, place : Places, since : SUBSET Posts]]
      /\ asked'[d] = asked[d] \cup {[no |-> no, place |-> place, since |-> since]}
      /\ \A e \in Devices : e # d => asked'[e] = asked[e]
  <2> HIDE DEF place
  <2> QED
    BY <1>1, <1>6 DEF FeedInv, FeedTypes
<1>8. /\ shown' \in [Devices -> [Posts -> Nat]] /\ shown'[d] = NoPosts
      /\ \A e \in Devices : e # d => shown'[e] = shown[e]
  BY <1>2, <1>5 DEF FeedInv, FeedTypes
<1>9. FeedTypes'
  BY <1>2, <1>7, <1>8 DEF FeedInv, FeedTypes
<1>10. \A e \in Devices, p \in Places : ViewOf(e, p)' = ViewOf(e, p)
  BY DEF ViewOf, View
<1>11. PromisesHold'
  <2> SUFFICES ASSUME NEW e \in Devices, NEW r \in asked'[e]
               PROVE  r.since \subseteq ViewOf(e, r.place)'
    BY DEF PromisesHold
  <2>1. CASE r \in asked[e]
    <3>1. r.since \subseteq ViewOf(e, r.place) /\ r.place \in Places
      BY <2>1 DEF FeedInv, FeedTypes, PromisesHold
    <3> QED
      BY <1>10, <3>1
  <2>2. CASE r \notin asked[e]
    <3>1. e = d /\ r = [no |-> no, place |-> place, since |-> since]
      BY <1>7, <2>2
    <3>2. r.since = since /\ r.place = place /\ place \in Places
      BY <3>1, KeyIsPlace
    <3> QED
      BY <1>3, <1>10, <3>1, <3>2, Zenon
  <2> QED
    BY <2>1, <2>2
<1>12. ShownTapped' /\ OthersSeeAccepted'
  <2>1. ASSUME NEW e \in Devices, NEW i \in Posts, shown'[e][i] > 0
        PROVE  e # d /\ shown[e][i] > 0
    BY <1>5, <1>8, <2>1
  <2>2. ShownTapped'
    BY <2>1 DEF ShownTapped, FeedInv
  <2>3. OthersSeeAccepted'
    BY <2>1, TapsArePosts DEF OthersSeeAccepted, FeedInv
  <2> QED
    BY <2>2, <2>3
<1> QED
  BY <1>9, <1>11, <1>12 DEF FeedInv

\* An answer adds posts of the view, a refusal nothing.
LEMMA AnswerKeepsFeed ==
    ASSUME FeedInv, ClientTypes, OwnWrites, NEW d \in Devices, NEW r \in asked[d],
           Answer(d, r) \/ Cancelled(d, r)
    PROVE  FeedInv'
<1>1. /\ asked' = [asked EXCEPT ![d] = @ \ {r}]
      /\ UNCHANGED <<selected, composer, taps, outbox, db>>
  BY DEF Answer, Cancelled, clientVars
<1>2. /\ asked' \in [Devices -> SUBSET [no : Nat, place : Places, since : SUBSET Posts]]
      /\ \A e \in Devices : asked'[e] \subseteq asked[e]
  BY <1>1 DEF FeedInv, FeedTypes
<1>3. PromisesHold'
  <2>1. \A e \in Devices, p \in Places : ViewOf(e, p)' = ViewOf(e, p)
    BY <1>1 DEF ViewOf, View
  <2> SUFFICES ASSUME NEW e \in Devices, NEW q \in asked'[e]
               PROVE  q.since \subseteq ViewOf(e, q.place)'
    BY DEF PromisesHold
  <2>2. q \in asked[e] /\ q.place \in Places
    BY <1>2 DEF FeedInv, FeedTypes
  <2>3. q.since \subseteq ViewOf(e, q.place)
    BY <2>2, Zenon DEF FeedInv, PromisesHold
  <2> QED
    BY <2>1, <2>2, <2>3
<1>4. shown \in [Devices -> [Posts -> Nat]]
  BY DEF FeedInv, FeedTypes
<1>5. /\ shown' \in [Devices -> [Posts -> Nat]]
      /\ \A e \in Devices, i \in Posts :
             shown'[e][i] > 0 => shown[e][i] > 0 \/ (e = d /\ i \in View(d))
  <2>1. CASE Answer(d, r)
    <3>1. PICK late \in SUBSET (ViewOf(d, r.place) \ r.since) :
              shown' = [shown EXCEPT ![d] =
                           [i \in Posts |-> @[i] + IF i \in r.since \cup late THEN 1 ELSE 0]]
      BY <2>1 DEF Answer
    <3>2. r.since \cup late \subseteq View(d)
      BY <3>1, ViewHolds DEF FeedInv, PromisesHold
    <3>3. /\ [i \in Posts |-> shown[d][i] + IF i \in r.since \cup late THEN 1 ELSE 0] \in [Posts -> Nat]
      BY <1>4
    <3>4. /\ shown' \in [Devices -> [Posts -> Nat]]
          /\ \A i \in Posts : shown'[d][i] = shown[d][i] + IF i \in r.since \cup late THEN 1 ELSE 0
          /\ \A e \in Devices : e # d => shown'[e] = shown[e]
      BY <1>4, <3>1, <3>3
    <3>5. ASSUME NEW i \in Posts, i \notin View(d) PROVE shown'[d][i] = shown[d][i]
      <4>1. i \notin r.since \cup late
        BY <3>2, <3>5
      <4>2. shown'[d][i] = shown[d][i] + 0 /\ shown[d][i] \in Nat
        BY <1>4, <3>4, <4>1
      <4> QED
        BY <4>2
    <3> QED
      BY <3>4, <3>5
  <2>2. CASE Cancelled(d, r)
    BY <1>4, <2>2 DEF Cancelled
  <2> QED
    BY <2>1, <2>2
<1>6. FeedTypes'
  BY <1>1, <1>2, <1>5 DEF FeedInv, FeedTypes
<1>7. ShownTapped'
  <2>1. View(d) \subseteq DOMAIN taps
    BY ViewHolds
  <2> QED
    BY <1>1, <1>5, <2>1 DEF ShownTapped, FeedInv
<1>8. OthersSeeAccepted'
  <2>1. \A i \in View(d) : taps[i].author # d => i \in Range(db)
    BY ViewHolds
  <2> SUFFICES ASSUME NEW e \in Devices, NEW i \in DOMAIN taps, shown'[e][i] > 0,
                      taps[i].author # e
               PROVE  i \in Range(db)
    BY <1>1 DEF OthersSeeAccepted
  <2>2. i \in Posts
    BY TapsArePosts
  <2>3. CASE shown[e][i] > 0
    BY <2>3 DEF OthersSeeAccepted, FeedInv
  <2>4. CASE e = d /\ i \in View(d)
    BY <2>1, <2>4
  <2> QED
    BY <1>5, <2>2, <2>3, <2>4
<1> QED
  BY <1>3, <1>6, <1>7, <1>8 DEF FeedInv
\* Steps that touch no table and take nothing away.
LEMMA GrowthKeepsFeed ==
    ASSUME FeedInv, ClientTypes, ClientTypes', UNCHANGED <<selected, shown, asked>>,
           composer' \in [Devices -> Systems \cup {NoComposer}],
           \A d \in Devices : composer'[d] # NoComposer => d \in Authors,
           Range(db) \subseteq Range(db'),
           \A d \in Devices : outbox[d] \subseteq outbox'[d],
           DOMAIN taps \subseteq DOMAIN taps',
           \A i \in DOMAIN taps : taps'[i] = taps[i]
    PROVE  FeedInv'
<1>1. FeedTypes'
  BY DEF FeedInv, FeedTypes
<1>2. PromisesHold'
  <2> SUFFICES ASSUME NEW d \in Devices, NEW r \in asked[d]
               PROVE  r.since \subseteq ViewOf(d, r.place)'
    BY DEF PromisesHold
  <2>1. \A p : ViewOf(d, p) \subseteq ViewOf(d, p)'
    BY ViewGrows
  <2>2. r.since \subseteq ViewOf(d, r.place)
    BY DEF FeedInv, PromisesHold
  <2> QED
    BY <2>1, <2>2
<1>3. ShownTapped'
  BY DEF FeedInv, ShownTapped
<1>4. OthersSeeAccepted'
  <2> SUFFICES ASSUME NEW d \in Devices, NEW i \in DOMAIN taps', shown[d][i] > 0,
                      taps'[i].author # d
               PROVE  i \in Range(db')
    BY DEF OthersSeeAccepted
  <2>1. i \in Posts
    <3>1. /\ taps' \in Seq([author : Authors, place : Places]) /\ Len(taps') <= MaxTaps
          /\ MaxTaps \in Nat
      BY AppAssumption DEF ClientTypes, AppAssumption
    <3>2. DOMAIN taps' = 1..Len(taps') /\ Len(taps') \in Nat
      BY <3>1, LenProperties
    <3> QED
      BY <3>1, <3>2 DEF Posts
  <2>2. i \in DOMAIN taps
    BY <2>1 DEF FeedInv, ShownTapped
  <2>3. taps[i].author # d
    BY <2>2
  <2> QED
    BY <2>2, <2>3 DEF FeedInv, OthersSeeAccepted
<1> QED
  BY <1>1, <1>2, <1>3, <1>4 DEF FeedInv

\* A write that is answered leaves the outbox: it is in the database, or no read
\* is promised it any more.
LEMMA HearKeepsFeed ==
    ASSUME FeedInv, ClientTypes, NEW d \in Devices, Hear(d)
    PROVE  FeedInv'
<1>1. PICK h \in acks[d] :
          /\ outbox' = [outbox EXCEPT ![d] = @ \ {h}]
          /\ IF h \in Range(db) THEN UNCHANGED asked ELSE TakesBack(d, h)
          /\ UNCHANGED <<selected, shown, composer, taps, db>>
  BY DEF Hear
<1>2. outbox \in [Devices -> SUBSET DOMAIN taps]
  BY DEF ClientTypes
<1>3. /\ \A p : \A i \in ViewOf(d, p) : i # h \/ h \in Range(db) => i \in ViewOf(d, p)'
      /\ \A e \in Devices : e # d => \A p : ViewOf(e, p)' = ViewOf(e, p)
  <2>1. outbox'[d] = outbox[d] \ {h} /\ \A e \in Devices : e # d => outbox'[e] = outbox[e]
    BY <1>1, <1>2
  <2>2. \A i \in View(d) : i # h \/ h \in Range(db) => i \in View(d)'
    BY <1>1, <2>1 DEF View
  <2>3. \A e \in Devices : e # d => View(e)' = View(e)
    BY <1>1, <2>1 DEF View
  <2>4. \A p : \A i \in ViewOf(d, p) : i # h \/ h \in Range(db) => i \in ViewOf(d, p)'
    BY <1>1, <2>2, Zenon DEF ViewOf
  <2>5. ASSUME NEW e \in Devices, e # d, NEW p PROVE ViewOf(e, p)' = ViewOf(e, p)
    BY <1>1, <2>3, <2>5 DEF ViewOf
  <2> QED
    BY <2>4, <2>5
<1>4. asked \in [Devices -> SUBSET [no : Nat, place : Places, since : SUBSET Posts]]
  BY DEF FeedInv, FeedTypes
<1>5. /\ asked' \in [Devices -> SUBSET [no : Nat, place : Places, since : SUBSET Posts]]
      /\ PromisesHold'
  <2>1. CASE h \in Range(db)
    <3>1. asked' = asked
      BY <1>1, <2>1
    <3> SUFFICES ASSUME NEW e \in Devices, NEW r \in asked[e]
                 PROVE  r.since \subseteq ViewOf(e, r.place)'
      BY <1>4, <3>1 DEF PromisesHold
    <3>2. r.since \subseteq ViewOf(e, r.place)
      BY DEF FeedInv, PromisesHold
    <3> QED
      BY <1>3, <2>1, <3>2
  <2>2. CASE h \notin Range(db)
    <3> DEFINE Less(r) == [r EXCEPT !.since = @ \ {h}]
    <3>1. asked' = [asked EXCEPT ![d] = {Less(r) : r \in asked[d]}]
      BY <1>1, <2>2 DEF TakesBack
    <3>2. \A r \in asked[d] :
             /\ Less(r) \in [no : Nat, place : Places, since : SUBSET Posts]
             /\ Less(r).place = r.place /\ Less(r).since = r.since \ {h}
      BY <1>4
    <3> HIDE DEF Less
    <3>3. {Less(r) : r \in asked[d]} \in SUBSET [no : Nat, place : Places, since : SUBSET Posts]
      BY <3>2
    <3>4. /\ asked' \in [Devices -> SUBSET [no : Nat, place : Places, since : SUBSET Posts]]
          /\ asked'[d] = {Less(r) : r \in asked[d]}
          /\ \A e \in Devices : e # d => asked'[e] = asked[e]
      BY <1>4, <3>1, <3>3
    <3>5. ASSUME NEW e \in Devices, NEW q \in asked'[e]
          PROVE  q.since \subseteq ViewOf(e, q.place)'
      <4>1. CASE e = d
        <5>1. PICK r \in asked[d] : q = Less(r)
          BY <3>4, <4>1
        <5>2. r.since \subseteq ViewOf(d, r.place)
          BY DEF FeedInv, PromisesHold
        <5>3. q.place = r.place /\ q.since = r.since \ {h}
          BY <3>2, <5>1
        <5>4. r.since \ {h} \subseteq ViewOf(d, r.place)'
          BY <1>3, <5>2
        <5> QED
          BY <4>1, <5>3, <5>4, Zenon
      <4>2. CASE e # d
        <5>1. q \in asked[e]
          BY <3>4, <4>2
        <5>2. q.since \subseteq ViewOf(e, q.place)
          BY <5>1 DEF FeedInv, PromisesHold
        <5> QED
          BY <1>3, <4>2, <5>2
      <4> QED
        BY <4>1, <4>2
    <3> QED
      BY <3>4, <3>5 DEF PromisesHold
  <2> QED
    BY <2>1, <2>2
<1>6. FeedTypes' /\ ShownTapped' /\ OthersSeeAccepted'
  BY <1>1, <1>5 DEF FeedInv, FeedTypes, ShownTapped, OthersSeeAccepted
<1> QED
  BY <1>5, <1>6 DEF FeedInv

\* A launch shows nothing and has asked for nothing.
LEMMA DieKeepsFeed ==
    ASSUME FeedInv, ClientTypes, NEW d \in Devices, Die(d)
    PROVE  FeedInv'
<1>1. /\ selected' = [selected EXCEPT ![d] = "PS4"]
      /\ shown' = [shown EXCEPT ![d] = NoPosts]
      /\ asked' = [asked EXCEPT ![d] = {}]
      /\ composer' = [composer EXCEPT ![d] = NoComposer]
      /\ outbox' = [outbox EXCEPT ![d] = {}]
      /\ UNCHANGED <<taps, db>>
  BY DEF Die
<1>2. NoPosts \in [Posts -> Nat] /\ \A i \in Posts : ~(NoPosts[i] > 0)
  BY DEF NoPosts
<1>3. "PS4" \in Systems
  BY AppAssumption DEF AppAssumption
<1>4. /\ asked' \in [Devices -> SUBSET [no : Nat, place : Places, since : SUBSET Posts]]
      /\ asked'[d] = {} /\ \A e \in Devices : e # d => asked'[e] = asked[e]
  BY <1>1 DEF FeedInv, FeedTypes
<1>5. /\ shown' \in [Devices -> [Posts -> Nat]]
      /\ shown'[d] = NoPosts /\ \A e \in Devices : e # d => shown'[e] = shown[e]
  BY <1>1, <1>2 DEF FeedInv, FeedTypes
<1>6. FeedTypes'
  BY <1>1, <1>3, <1>4, <1>5 DEF FeedInv, FeedTypes
<1>7. PromisesHold'
  <2> SUFFICES ASSUME NEW e \in Devices, NEW r \in asked'[e]
               PROVE  r.since \subseteq ViewOf(e, r.place)'
    BY DEF PromisesHold
  <2>1. e # d /\ r \in asked[e]
    BY <1>4
  <2>2. \A p : ViewOf(e, p)' = ViewOf(e, p)
    <3>1. outbox'[e] = outbox[e]
      BY <1>1, <2>1 DEF ClientTypes
    <3> QED
      BY <1>1, <3>1 DEF ViewOf, View
  <2> QED
    BY <2>1, <2>2 DEF FeedInv, PromisesHold
<1>8. ShownTapped' /\ OthersSeeAccepted'
  <2>1. ASSUME NEW e \in Devices, NEW i \in Posts, shown'[e][i] > 0
        PROVE  shown[e][i] > 0
    BY <1>2, <1>5, <2>1
  <2>2. ShownTapped'
    BY <1>1, <2>1 DEF FeedInv, ShownTapped
  <2>3. OthersSeeAccepted'
    BY <1>1, <2>1, TapsArePosts DEF FeedInv, OthersSeeAccepted
  <2> QED
    BY <2>2, <2>3
<1> QED
  BY <1>6, <1>7, <1>8 DEF FeedInv
----------------------------------------------------------------------------
\* What is in an outbox came from a tap on its device.
LEMMA OwnWritesStep ==
    ASSUME FeedTypes, ClientTypes, OwnWrites, NEW d \in Devices,
           PostPost(d) \/ (taps' = taps /\ \A e \in Devices : outbox'[e] \subseteq outbox[e])
    PROVE  OwnWrites'
<1>1. CASE PostPost(d)
  <2>1. PICK i \in Posts \ DOMAIN taps :
            taps'[i].author = d /\ outbox' = [outbox EXCEPT ![d] = @ \cup {i}]
    BY <1>1, PostKeepsClients
  <2>2. \A j \in DOMAIN taps : taps'[j] = taps[j]
    BY <1>1, PostKeepsClients
  <2>3. \A e \in Devices : \A j \in outbox'[e] : j \in outbox[e] \/ (e = d /\ j = i)
    BY <2>1 DEF ClientTypes
  <2>4. \A e \in Devices : outbox[e] \subseteq DOMAIN taps
    BY DEF ClientTypes
  <2> QED
    BY <2>1, <2>2, <2>3, <2>4 DEF OwnWrites
<1>2. CASE taps' = taps /\ \A e \in Devices : outbox'[e] \subseteq outbox[e]
  BY <1>2 DEF OwnWrites
<1> QED
  BY <1>1, <1>2

\* The inductive invariant.
AppInv ==
    /\ ClientTypes
    /\ OnePostPerTap
    /\ OwnWrites
    /\ FeedInv

LEMMA InitApp == Init => AppInv
<1> SUFFICES ASSUME Init PROVE AppInv
  OBVIOUS
<1> USE DEF Init
<1>1. <<>> \in Seq([author : Authors, place : Places]) /\ Len(<<>>) = 0 /\ DOMAIN <<>> = {}
  OBVIOUS
<1>2. <<>> \in Seq(DOMAIN taps) /\ 0 <= MaxTaps
  BY AppAssumption DEF AppAssumption
<1>3. /\ NoPosts \in [Posts -> Nat] /\ NoPosts \in [Posts -> 0..MaxStale]
      /\ \A i \in Posts : ~(NoPosts[i] > 0)
  BY AppAssumption DEF NoPosts, AppAssumption
<1>4. ClientTypes
  BY <1>1, <1>2, <1>3 DEF ClientTypes
<1>5. OnePostPerTap /\ OwnWrites
  BY <1>1 DEF OnePostPerTap, OwnWrites
<1>6. FeedInv
  BY <1>1, <1>3, AppAssumption
     DEF FeedInv, FeedTypes, PromisesHold, ShownTapped, OthersSeeAccepted, AppAssumption
<1> QED
  BY <1>4, <1>5, <1>6 DEF AppInv

LEMMA AppInvStep == AppInv /\ [Next]_vars => AppInv'
<1> SUFFICES ASSUME AppInv, [Next]_vars PROVE AppInv'
  OBVIOUS
<1> USE DEF AppInv
<1>1. CASE UNCHANGED vars
  <2>1. UNCHANGED <<selected, shown, asked, composer, taps, outbox, sent, wire, acks, stale, db>>
    BY <1>1 DEF vars, feedVars, clientVars
  <2>2. ClientTypes' /\ OnePostPerTap' /\ OwnWrites'
    BY <2>1 DEF ClientTypes, OnePostPerTap, OwnWrites
  <2>3. FeedInv'
    BY <2>1 DEF FeedInv, FeedTypes, PromisesHold, ViewOf, View, ShownTapped, OthersSeeAccepted
  <2> QED
    BY <2>2, <2>3
<1>2. ASSUME NEW d \in Devices, FeedStep(d) PROVE AppInv'
  <2>1. UNCHANGED <<taps, outbox, sent, wire, acks, stale, db>>
    BY <1>2, FeedStepsLeaveClients
  <2>2. ClientTypes' /\ OnePostPerTap' /\ OwnWrites'
    BY <2>1 DEF ClientTypes, OnePostPerTap, OwnWrites
  <2>3. /\ composer \in [Devices -> Systems \cup {NoComposer}]
        /\ \A e \in Devices : composer[e] # NoComposer => e \in Authors
        /\ selected \in [Devices -> Systems]
    BY DEF FeedInv, FeedTypes
  <2>4. ASSUME NEW s \in Systems, Choose(d, s) PROVE FeedInv'
    <3>1. ReadDatabase(d, s) /\ composer' = composer
      BY <2>4 DEF Choose
    <3> QED
      BY <2>1, <2>3, <3>1, ReadKeepsFeed
  <2>5. ASSUME NEW r \in asked[d], Answer(d, r) \/ Cancelled(d, r) PROVE FeedInv'
    BY <2>5, AnswerKeepsFeed
  <2>6. ASSUME ToCreatePost(d) PROVE FeedInv'
    <3>1. /\ UNCHANGED <<selected, shown, asked>> /\ d \in Authors
          /\ composer' = [composer EXCEPT ![d] = selected[d]]
      BY <2>6 DEF ToCreatePost, feedVars
    <3>2. /\ composer' \in [Devices -> Systems \cup {NoComposer}]
          /\ \A e \in Devices : composer'[e] # NoComposer => e \in Authors
      BY <2>3, <3>1
    <3> QED
      BY <2>1, <2>2, <3>1, <3>2, GrowthKeepsFeed
  <2>7. ASSUME Back(d) PROVE FeedInv'
    <3>1. ReadDatabase(d, selected[d]) /\ composer' = [composer EXCEPT ![d] = NoComposer]
      BY <2>7 DEF Back
    <3>2. /\ composer' \in [Devices -> Systems \cup {NoComposer}]
          /\ \A e \in Devices : composer'[e] # NoComposer => e \in Authors
          /\ selected[d] \in Systems
      BY <2>3, <3>1
    <3> QED
      BY <2>1, <3>1, <3>2, ReadKeepsFeed
  <2> QED
    BY <1>2, <2>2, <2>4, <2>5, <2>6, <2>7 DEF FeedStep
<1>3. ASSUME NEW d \in Devices, PostPost(d) PROVE AppInv'
  <2>1. /\ ClientTypes' /\ DOMAIN taps \subseteq DOMAIN taps'
        /\ \A i \in DOMAIN taps : taps'[i] = taps[i]
    BY <1>3, PostKeepsClients DEF FeedInv
  <2>2. OwnWrites'
    BY <1>3, OwnWritesStep DEF FeedInv
  <2>3. /\ UNCHANGED <<selected, shown, asked, composer, db>>
        /\ outbox' = [outbox EXCEPT ![d] = @ \cup {Len(taps) + 1}]
    BY <1>3 DEF PostPost, feedVars
  <2>4. \A e \in Devices : outbox[e] \subseteq outbox'[e]
    BY <2>3 DEF ClientTypes
  <2>5. FeedInv'
    BY <2>1, <2>3, <2>4, GrowthKeepsFeed DEF FeedInv, FeedTypes
  <2>6. OnePostPerTap'
    BY <2>3 DEF OnePostPerTap
  <2> QED
    BY <2>1, <2>2, <2>5, <2>6
<1>4. ASSUME NEW d \in Devices, Send(d) PROVE AppInv'
  <2>1. ClientTypes'
    BY <1>4, SendKeepsClients
  <2>2. UNCHANGED <<selected, shown, asked, composer, taps, outbox, db>>
    BY <1>4 DEF Send, feedVars
  <2>3. OnePostPerTap' /\ OwnWrites'
    BY <2>2 DEF OnePostPerTap, OwnWrites
  <2>4. FeedInv'
    BY <2>1, <2>2, GrowthKeepsFeed DEF FeedInv, FeedTypes
  <2> QED
    BY <2>1, <2>3, <2>4
<1>5. ASSUME NEW d \in Devices, Serve(d) \/ ServeStale(d) PROVE AppInv'
  <2>1. /\ ClientTypes' /\ OnePostPerTap'
        /\ UNCHANGED <<selected, shown, asked, composer, taps, outbox>>
        /\ Range(db) \subseteq Range(db')
    BY <1>5, ServeKeepsClients
  <2>2. OwnWrites'
    BY <2>1 DEF OwnWrites
  <2>3. FeedInv'
    BY <2>1, GrowthKeepsFeed DEF FeedInv, FeedTypes
  <2> QED
    BY <2>1, <2>2, <2>3
<1>6. ASSUME NEW d \in Devices, Hear(d) PROVE AppInv'
  <2>1. /\ ClientTypes' /\ taps' = taps /\ db' = db
        /\ \A e \in Devices : outbox'[e] \subseteq outbox[e]
    BY <1>6, HearKeepsClients
  <2>2. OwnWrites' /\ FeedInv'
    BY <1>6, <2>1, OwnWritesStep, HearKeepsFeed DEF FeedInv
  <2>3. OnePostPerTap'
    BY <2>1 DEF OnePostPerTap
  <2> QED
    BY <2>1, <2>2, <2>3
<1>7. ASSUME NEW d \in Devices, Reconnect(d) PROVE AppInv'
  <2>1. ClientTypes'
    BY <1>7, CutKeepsClients
  <2>2. UNCHANGED <<selected, shown, asked, composer, taps, outbox, db>>
    BY <1>7 DEF Reconnect, feedVars
  <2>3. OnePostPerTap' /\ OwnWrites'
    BY <2>2 DEF OnePostPerTap, OwnWrites
  <2>4. FeedInv'
    BY <2>1, <2>2, GrowthKeepsFeed DEF FeedInv, FeedTypes
  <2> QED
    BY <2>1, <2>3, <2>4
<1>8. ASSUME NEW d \in Devices, Die(d) PROVE AppInv'
  <2>1. ClientTypes' /\ \A e \in Devices : outbox'[e] \subseteq outbox[e]
    BY <1>8, CutKeepsClients
  <2>2. taps' = taps /\ db' = db
    BY <1>8 DEF Die
  <2>3. OwnWrites' /\ FeedInv'
    BY <1>8, <2>1, <2>2, OwnWritesStep, DieKeepsFeed DEF FeedInv
  <2>4. OnePostPerTap'
    BY <2>2 DEF OnePostPerTap
  <2> QED
    BY <2>1, <2>3, <2>4
<1> QED
  BY <1>1, <1>2, <1>3, <1>4, <1>5, <1>6, <1>7, <1>8 DEF Next, FeedStep, Exchange

----------------------------------------------------------------------------
\* Every reachable state satisfies the inductive invariant.
THEOREM AppSafety == Spec => []AppInv
<1> USE DEF Spec
<1> QED
  BY InitApp, AppInvStep, PTL

\* All components keep their types: nothing is sent, on its way, answered or in the
\* database that nobody tapped.
THEOREM AppTyping == Spec => []TypeOK
<1>1. AppInv => TypeOK
  BY DEF AppInv, ClientTypes, FeedInv, FeedTypes, TypeOK
<1> QED
  BY <1>1, AppSafety, PTL

\* One tap makes at most one post, whatever is lost and sent again.
THEOREM TapMakesOnePost == Spec => []OnePostPerTap
<1>1. AppInv => OnePostPerTap
  BY DEF AppInv
<1> QED
  BY <1>1, AppSafety, PTL

\* Nobody sees a post of somebody else that the server may yet refuse.
THEOREM OthersSeeOnlyAccepted == Spec => []OthersSeeAccepted
<1>1. AppInv => OthersSeeAccepted
  BY DEF AppInv, FeedInv
<1> QED
  BY <1>1, AppSafety, PTL

----------------------------------------------------------------------------
\* A write that is lost is on no way back: no step puts into an outbox, on the
\* way or into the database what was in neither of the three.
LEMMA LostStep ==
    ASSUME AppInv, [Next]_vars, NEW i \in Posts, Lost(i)
    PROVE  Lost(i)'
<1> USE DEF AppInv
<1>1. /\ i \in DOMAIN taps /\ i \notin Range(db)
      /\ \A e \in Devices : i \notin outbox[e] /\ i \notin OnTheWay(e)
  BY DEF Lost
<1>2. ASSUME i \in DOMAIN taps', i \notin Range(db'),
             \A e \in Devices : i \notin outbox'[e] /\ i \notin OnTheWay(e)'
      PROVE  Lost(i)'
  BY <1>2 DEF Lost
<1>3. CASE UNCHANGED <<taps, outbox, wire, stale, db>>
  BY <1>1, <1>2, <1>3 DEF OnTheWay
<1>4. ASSUME NEW d \in Devices, PostPost(d) PROVE Lost(i)'
  <2>1. /\ DOMAIN taps \subseteq DOMAIN taps'
        /\ \E j \in Posts \ DOMAIN taps : outbox' = [outbox EXCEPT ![d] = @ \cup {j}]
    BY <1>4, PostKeepsClients DEF FeedInv
  <2>2. UNCHANGED <<wire, stale, db>>
    BY <1>4 DEF PostPost
  <2>3. \A e \in Devices : i \notin outbox'[e]
    BY <1>1, <2>1 DEF ClientTypes
  <2>4. \A e \in Devices : OnTheWay(e)' = OnTheWay(e)
    BY <2>2 DEF OnTheWay
  <2> QED
    BY <1>1, <1>2, <2>1, <2>2, <2>3, <2>4
<1>5. ASSUME NEW d \in Devices, Send(d) PROVE Lost(i)'
  <2>1. UNCHANGED <<taps, outbox, db>>
    BY <1>5 DEF Send
  <2>2. \A e \in Devices : OnTheWay(e)' \subseteq OnTheWay(e) \cup outbox[e]
    BY <1>5, SendKeepsClients
  <2> QED
    BY <1>1, <1>2, <2>1, <2>2
<1>6. ASSUME NEW d \in Devices, Serve(d) \/ ServeStale(d) PROVE Lost(i)'
  <2>1. /\ UNCHANGED <<taps, outbox>>
        /\ \A e \in Devices : OnTheWay(e)' \subseteq OnTheWay(e)
        /\ \E j \in OnTheWay(d) : Range(db') = Range(db) \cup {j} \/ UNCHANGED db
    BY <1>6, ServeKeepsClients
  <2>2. i \notin Range(db')
    BY <1>1, <2>1
  <2> QED
    BY <1>1, <1>2, <2>1, <2>2
<1>7. ASSUME NEW d \in Devices, Hear(d) PROVE Lost(i)'
  <2>1. /\ UNCHANGED <<taps, wire, stale, db>>
        /\ \A e \in Devices : outbox'[e] \subseteq outbox[e]
    BY <1>7, HearKeepsClients
  <2>2. \A e \in Devices : OnTheWay(e)' = OnTheWay(e)
    BY <2>1 DEF OnTheWay
  <2> QED
    BY <1>1, <1>2, <2>1, <2>2
<1>8. ASSUME NEW d \in Devices, Reconnect(d) \/ Die(d) PROVE Lost(i)'
  <2>1. \A e \in Devices : OnTheWay(e)' \subseteq OnTheWay(e) /\ outbox'[e] \subseteq outbox[e]
    BY <1>8, CutKeepsClients
  <2>2. UNCHANGED <<taps, db>>
    BY <1>8 DEF Reconnect, Die
  <2> QED
    BY <1>1, <1>2, <2>1, <2>2
<1>9. ASSUME NEW d \in Devices, FeedStep(d) PROVE Lost(i)'
  BY <1>3, <1>9, FeedStepsLeaveClients
<1>10. CASE UNCHANGED vars
  BY <1>3, <1>10 DEF vars, clientVars
<1> QED
  BY <1>4, <1>5, <1>6, <1>7, <1>8, <1>9, <1>10 DEF Next, FeedStep, Exchange

\* What is lost stays lost.
THEOREM NothingComesBack == Spec => LostStaysLost
<1>1. AppInv /\ [Next]_vars => \A i \in Posts : Lost(i) => Lost(i)'
  BY LostStep
<1> QED
  BY <1>1, AppSafety, PTL DEF Spec, LostStaysLost

=============================================================================
