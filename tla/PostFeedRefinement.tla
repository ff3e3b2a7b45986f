------------------------- MODULE PostFeedRefinement -------------------------
(***************************************************************************)
(* The table of PostFeed is a Feed, for every instance: a step of the      *)
(* controller is a step of the abstract feed under AsFeed, or changes      *)
(* nothing the feed promises anything about.                               *)
(***************************************************************************)
EXTENDS PostFeedAnswers

\* The questions of the abstract feed.
Questions == {Question(r) : r \in reads}

LEMMA QuestionFields ==
    ASSUME NEW r
    PROVE  /\ Question(r).no = r.no /\ Question(r).place = r.place
           /\ Question(r).since = Known(r.since, r.place)
BY DEF Question

\* Where the posts of a place are seen: those with an array, among all there are.
LEMMA SeenIsKnown ==
    ASSUME TypeOK, ReadNumbers, NEW p \in Places
    PROVE  AsFeed!At(p) = Known(Len(db), p)
<1>1. /\ Len(db) \in Nat /\ DOMAIN db = 1..Len(db) /\ Len(db) <= MaxPosts /\ MaxPosts \in Nat
  BY LenProperties, FeedAssumption DEF TypeOK, ReadNumbers
<1>2. 1..Len(db) \subseteq 1..MaxPosts
  BY <1>1
<1>3. p # <<>>
  BY DEF Places
<1>4. \A i \in 1..MaxPosts : SeenAt[i] = p <=> i \in DOMAIN db /\ db[i].rank \in Arrays /\ db[i].place = p
  BY <1>3 DEF SeenAt
<1> QED
  BY <1>1, <1>2, <1>4 DEF AsFeed!At, Known

\* What a question was promised is among what is seen, and grows with the number
\* of posts counted.
LEMMA KnownGrows ==
    ASSUME NEW m \in Nat, NEW n \in Nat, m <= n, NEW p
    PROVE  Known(m, p) \subseteq Known(n, p)
<1>1. 1..m \subseteq 1..n
  OBVIOUS
<1> QED
  BY <1>1 DEF Known

\* Emptied arrays show nothing.
LEMMA NothingShown ==
    ASSUME posts' = NoPosts PROVE TimesShown' = AsFeed!Nothing
<1>1. \A i : Cardinality(Cells(NoPosts, i)) = 0
  BY NoSlots, FS_EmptySet
<1>2. TimesShown' = [i \in 1..MaxPosts |-> Cardinality(Cells(NoPosts, i))]
  BY DEF TimesShown, Cells, Arrays, NoPosts
<1> QED
  BY <1>1, <1>2 DEF AsFeed!Nothing

\* readDatabase is a Choose of the place selected by then.
LEMMA ReadDatabaseIsChoose ==
    ASSUME AnswersInv, Place' \in Places, db' = db, ReadDatabase
    PROVE  AsFeed!Choose(Place')
<1> DEFINE p == Place'
<1>1. PICK since \in Promised(p) :
          reads' = reads \cup {[no |-> readNo + 1, place |-> p, since |-> since]}
  BY DEF ReadDatabase
<1> DEFINE new == [no |-> readNo + 1, place |-> p, since |-> since]
<1>2. new.no = readNo + 1 /\ new.place = p /\ new.since = since
  OBVIOUS
<1>3. TypeOK /\ ReadNumbers
  BY DEF AnswersInv
<1>4. readNo + 1 \in 1..MaxReads \ {q.no : q \in Questions}
  <2>1. readNo \in Nat /\ readNo < MaxReads /\ MaxReads \in Nat
    BY <1>3, FeedAssumption DEF TypeOK, ReadDatabase
  <2>2. \A q \in Questions : q.no \in 1..readNo
    BY <1>3, QuestionFields DEF Questions, TypeOK
  <2> QED
    BY <2>1, <2>2
<1>5. Known(since, p) \in {AsFeed!At(p)} \cup {q.since : q \in {r \in Questions : r.place = p}}
  <2>1. CASE since = Len(db)
    BY <1>3, <2>1, SeenIsKnown
  <2>2. CASE since # Len(db)
    <3>1. PICK r \in reads : r.place = p /\ since = r.since
      BY <2>2 DEF Promised
    <3>2. Question(r) \in Questions
      BY DEF Questions
    <3> QED
      BY <3>1, <3>2, QuestionFields
  <2> QED
    BY <2>1, <2>2
<1>6. Questions' = Questions \cup {[no |-> readNo + 1, place |-> p, since |-> Known(since, p)]}
  <2>1. \A r : Question(r)' = Question(r)
    BY DEF Question, Known, Arrays
  <2>2. Questions' = {Question(r) : r \in reads'}
    BY <2>1 DEF Questions
  <2>3. Question(new) = [no |-> readNo + 1, place |-> p, since |-> Known(since, p)]
    BY DEF Question
  <2> HIDE DEF new
  <2> QED
    BY <1>1, <2>2, <2>3 DEF Questions, new
<1>7. TimesShown' = AsFeed!Nothing
  BY NothingShown DEF ReadDatabase
<1>8. UNCHANGED SeenAt
  BY DEF SeenAt, Arrays
<1> HIDE DEF p
<1> QED
  BY <1>4, <1>5, <1>6, <1>7, <1>8 DEF AsFeed!Choose, Questions, p

\* An answer is an Answered of its question.
LEMMA AnswerIsAnswered ==
    ASSUME AnswersInv, NEW r \in reads, NEW n \in r.since..Len(db), Answer(r, n)
    PROVE  Question(r) \in Questions /\ AsFeed!Answered(Question(r))
<1> DEFINE q == Question(r)
           found == Known(n, r.place)
<1>1. /\ TypeOK /\ ReadNumbers /\ db' = db /\ Place' = Place /\ reads' = reads \ {r}
  BY DEF AnswersInv, Answer, Place
<1>2. /\ Len(db) \in Nat /\ r.since \in Nat /\ n \in Nat /\ r.since <= n /\ n <= Len(db)
      /\ r.place \in Places /\ DOMAIN db = 1..Len(db) /\ Len(db) <= MaxPosts
  <2>1. r.since \in 0..Len(db) /\ Len(db) \in Nat /\ r.place \in Places
        /\ DOMAIN db = 1..Len(db)
    BY <1>1, LenProperties DEF TypeOK
  <2> QED
    BY <1>1, <2>1 DEF ReadNumbers
<1>3. found \in SUBSET AsFeed!At(q.place) /\ q.since \subseteq found
  BY <1>1, <1>2, SeenIsKnown, KnownGrows, QuestionFields
<1>4. TimesShown' = [i \in 1..MaxPosts |-> TimesShown[i] + IF i \in found THEN 1 ELSE 0]
  <2>1. ASSUME NEW i \in 1..MaxPosts
        PROVE  Cardinality(Cells(posts', i)) =
                  Cardinality(Cells(posts, i)) + IF i \in found THEN 1 ELSE 0
    <3>1. IsFiniteSet(Cells(posts, i)) /\ Cardinality(Cells(posts, i)) \in Nat
      BY FS_CardinalityType, <2>1 DEF AnswersInv
    <3>2. i \in found <=> i \in Found(r, n) /\ db[i].rank \in Arrays
      BY DEF Known, Found
    <3>3. /\ (i \in Found(r, n) /\ db[i].rank \in Arrays) =>
                \E c : c \notin Cells(posts, i) /\ Cells(posts', i) = Cells(posts, i) \cup {c}
          /\ ~(i \in Found(r, n) /\ db[i].rank \in Arrays) => Cells(posts', i) = Cells(posts, i)
      BY <1>1, AnswerCounts, Zenon
    <3> HIDE DEF found
    <3>4. CASE i \in found
      <4>1. PICK c : c \notin Cells(posts, i) /\ Cells(posts', i) = Cells(posts, i) \cup {c}
        BY <3>2, <3>3, <3>4
      <4>2. Cardinality(Cells(posts', i)) = Cardinality(Cells(posts, i)) + 1
        BY <3>1, <4>1, FS_AddElement
      <4> QED
        BY <3>4, <4>2
    <3>5. CASE i \notin found
      BY <3>1, <3>2, <3>3, <3>5
    <3> QED
      BY <3>4, <3>5
  <2>2. TimesShown' = [i \in 1..MaxPosts |-> Cardinality(Cells(posts', i))]
    BY DEF TimesShown, Cells, Arrays
  <2>3. \A i \in 1..MaxPosts : TimesShown[i] = Cardinality(Cells(posts, i))
    BY DEF TimesShown
  <2> HIDE DEF found
  <2> QED
    BY <2>1, <2>2, <2>3
<1>5. Questions' = Questions \ {q}
  <2>1. \A x : Question(x)' = Question(x)
    BY <1>1 DEF Question, Known, Arrays
  <2>2. Questions' = {Question(x) : x \in reads'}
    BY <2>1 DEF Questions
  <2>3. \A x \in reads : Question(x) = q => x = r
    BY <1>1, QuestionFields DEF ReadNumbers
  <2> HIDE DEF q
  <2> QED
    BY <1>1, <2>2, <2>3 DEF Questions, q
<1>6. UNCHANGED <<SeenAt, Place>>
  BY <1>1 DEF SeenAt, Arrays
<1>7. q \in Questions
  BY DEF Questions
<1> HIDE DEF q, found
<1> QED
  BY <1>3, <1>4, <1>5, <1>6, <1>7 DEF AsFeed!Answered, Questions, q

\* A read that fails is a Refused of its question.
LEMMA CancelledIsRefused ==
    ASSUME AnswersInv, NEW r \in reads, Cancelled(r)
    PROVE  Question(r) \in Questions /\ AsFeed!Refused(Question(r))
<1> DEFINE q == Question(r)
<1>1. /\ ReadNumbers /\ db' = db /\ Place' = Place /\ reads' = reads \ {r} /\ posts' = posts
  BY DEF AnswersInv, Cancelled, Place
<1>2. \A x : Question(x)' = Question(x)
  BY <1>1 DEF Question, Known, Arrays
<1>3. Questions' = {Question(x) : x \in reads'}
  BY <1>2 DEF Questions
<1>4. \A x \in reads : Question(x) = q => x = r
  BY <1>1, QuestionFields DEF ReadNumbers
<1>5. UNCHANGED <<SeenAt, Place, TimesShown>>
  BY <1>1 DEF SeenAt, TimesShown, Cells, Arrays
<1>6. q \in Questions
  BY DEF Questions
<1> HIDE DEF q
<1>7. Questions' = Questions \ {q}
  BY <1>1, <1>3, <1>4 DEF Questions, q
<1> QED
  BY <1>5, <1>6, <1>7 DEF AsFeed!Refused, Questions, q

\* A post is Written when its rank has an array, and is not noticed otherwise.
LEMMA PostIsWritten ==
    ASSUME AnswersInv, NEW p \in Places, NEW rank \in Ranks, Post(p, rank)
    PROVE  \/ Len(db) + 1 \in 1..MaxPosts /\ AsFeed!Written(Len(db) + 1, p)
           \/ UNCHANGED <<SeenAt, Place, TimesShown, Questions>>
<1> DEFINE i == Len(db) + 1
           new == [place |-> p, rank |-> rank]
<1>1. /\ TypeOK /\ ReadNumbers /\ db' = Append(db, new) /\ Place' = Place
      /\ reads' = reads /\ posts' = posts /\ new.place = p /\ new.rank = rank
  BY DEF AnswersInv, Post, Place
<1>2. /\ Len(db) \in Nat /\ DOMAIN db = 1..Len(db) /\ DOMAIN db' = 1..i
      /\ db'[i] = new /\ \A j \in DOMAIN db : db'[j] = db[j]
  <2>1. db \in Seq([place : Places, rank : Ranks]) /\ new \in [place : Places, rank : Ranks]
    BY <1>1 DEF TypeOK
  <2> HIDE DEF new
  <2> QED
    BY <1>1, <2>1, AppendProperties, LenProperties
<1>3. i \in 1..MaxPosts /\ i \notin DOMAIN db /\ \A j \in DOMAIN db' : j = i \/ j \in DOMAIN db
  BY <1>2, FeedAssumption DEF Post
<1>4. UNCHANGED <<Place, TimesShown>>
  BY <1>1 DEF TimesShown, Cells, Arrays
<1>5. UNCHANGED Questions
  <2>1. ASSUME NEW r \in reads PROVE Question(r)' = Question(r)
    <3>1. r.since \in 0..Len(db)
      BY <1>1 DEF TypeOK
    <3>2. 1..r.since \subseteq DOMAIN db
      BY <1>2, <3>1
    <3>3. Known(r.since, r.place)' = Known(r.since, r.place)
      BY <1>2, <3>2 DEF Known, Arrays
    <3> QED
      BY <3>3 DEF Question
  <2> QED
    BY <1>1, <2>1 DEF Questions
<1> HIDE DEF i, new
<1>6. ASSUME rank \in Arrays PROVE AsFeed!Written(i, p)
  <2>1. SeenAt[i] = <<>>
    BY <1>3 DEF SeenAt
  <2>2. ASSUME NEW j \in 1..MaxPosts
        PROVE  SeenAt'[j] = IF j = i THEN p ELSE SeenAt[j]
    <3>1. CASE j = i
      BY <1>1, <1>2, <1>3, <1>6, <3>1 DEF SeenAt, Arrays
    <3>2. CASE j # i
      <4>1. j \in DOMAIN db' <=> j \in DOMAIN db
        BY <1>2, <1>3, <3>2 DEF i
      <4> QED
        BY <1>2, <3>2, <4>1 DEF SeenAt, Arrays
    <3> QED
      BY <3>1, <3>2
  <2>3. SeenAt' = [SeenAt EXCEPT ![i] = p]
    BY <1>3, <2>2 DEF SeenAt
  <2> QED
    BY <1>4, <1>5, <2>1, <2>3 DEF AsFeed!Written, Questions
<1>7. ASSUME rank \notin Arrays PROVE UNCHANGED SeenAt
  <2>1. ASSUME NEW j \in 1..MaxPosts
        PROVE  SeenAt'[j] = SeenAt[j]
    <3>1. CASE j = i
      BY <1>1, <1>2, <1>3, <1>7, <3>1 DEF SeenAt, Arrays
    <3>2. CASE j # i
      <4>1. j \in DOMAIN db' <=> j \in DOMAIN db
        BY <1>2, <1>3, <3>2 DEF i
      <4> QED
        BY <1>2, <3>2, <4>1 DEF SeenAt, Arrays
    <3> QED
      BY <3>1, <3>2
  <2> QED
    BY <2>1 DEF SeenAt
<1> QED
  BY <1>3, <1>4, <1>5, <1>6, <1>7 DEF i

\* A launch is a Restart.
LEMMA RelaunchIsRestart ==
    ASSUME Relaunch PROVE AsFeed!Restart
<1>1. /\ system' = "PS4" /\ gameType' = "Duel" /\ posts' = NoPosts /\ reads' = {} /\ db' = db
  BY DEF Relaunch
<1>2. Place' = <<"ps4", "duel">>
  BY <1>1 DEF Place, SystemKey, GameTypeKey
<1>3. TimesShown' = AsFeed!Nothing
  BY <1>1, NothingShown
<1>4. SeenAt' = [i \in 1..MaxPosts |-> IF i \in {} THEN <<>> ELSE SeenAt[i]]
  BY <1>1 DEF SeenAt, Arrays
<1>5. {} \in SUBSET (1..MaxPosts)
  OBVIOUS
<1> QED
  BY <1>1, <1>2, <1>3, <1>4, <1>5, Zenon DEF AsFeed!Restart

\* The first launch starts like every launch, with an empty database.
LEMMA InitIsInit == Init => AsFeed!Init
<1> SUFFICES ASSUME Init PROVE AsFeed!Init
  OBVIOUS
<1>1. /\ system = "PS4" /\ gameType = "Duel" /\ posts = NoPosts /\ reads = {} /\ db = <<>>
  BY DEF Init
<1>2. Place = <<"ps4", "duel">>
  BY <1>1 DEF Place, SystemKey, GameTypeKey
<1>3. TimesShown = AsFeed!Nothing
  BY <1>1, NoSlots, FS_EmptySet DEF TimesShown, AsFeed!Nothing
<1>4. SeenAt = [i \in 1..MaxPosts |-> <<>>]
  BY <1>1, EmptySeq DEF SeenAt
<1> QED
  BY <1>1, <1>2, <1>3, <1>4 DEF AsFeed!Init

\* Every step is a step of the feed or a stutter.
LEMMA StepIsStep == AnswersInv /\ [Next]_vars => [AsFeed!Next]_(AsFeed!vars)
<1> SUFFICES ASSUME AnswersInv, [Next]_vars PROVE [AsFeed!Next]_(AsFeed!vars)
  OBVIOUS
<1>0. ASSUME UNCHANGED <<SeenAt, Place, TimesShown, Questions>> PROVE UNCHANGED AsFeed!vars
  BY <1>0 DEF AsFeed!vars, Questions
<1>1. ASSUME UNCHANGED <<system, gameType, posts, db, reads>> PROVE UNCHANGED AsFeed!vars
  <2>1. UNCHANGED <<SeenAt, Place, TimesShown, Questions>>
    BY <1>1 DEF SeenAt, Place, TimesShown, Questions, Question, Known, Cells, Arrays
  <2> QED
    BY <1>0, <2>1
<1>2. ASSUME ReadDatabase, db' = db PROVE AsFeed!Next
  <2>1. TypeOK'
    BY TypeOKStep DEF AnswersInv
  <2>2. Place' \in Places
    BY <2>1 DEF TypeOK, Place, Places
  <2>3. AsFeed!Choose(Place')
    BY <1>2, <2>2, ReadDatabaseIsChoose
  <2> QED
    BY <2>2, <2>3 DEF AsFeed!Next
<1>3. ASSUME NEW r \in reads, NEW n \in r.since..Len(db), Answer(r, n) PROVE AsFeed!Next
  BY <1>3, AnswerIsAnswered DEF AsFeed!Next, Questions
<1>4. ASSUME NEW r \in reads, Cancelled(r) PROVE AsFeed!Next
  BY <1>4, CancelledIsRefused DEF AsFeed!Next, Questions
<1>5. ASSUME NEW p \in Places, NEW rank \in Ranks, Post(p, rank)
      PROVE  [AsFeed!Next]_(AsFeed!vars)
  BY <1>0, <1>5, PostIsWritten DEF AsFeed!Next
<1>6. ASSUME Relaunch PROVE AsFeed!Next
  BY <1>6, RelaunchIsRestart DEF AsFeed!Next
<1>7. ASSUME ViewDidAppear PROVE AsFeed!Next
  BY <1>2, <1>7 DEF ViewDidAppear
<1>8. ASSUME Leave PROVE UNCHANGED AsFeed!vars
  BY <1>1, <1>8 DEF Leave
<1>9. ASSUME NEW title \in Systems, SelectSystem(title) PROVE AsFeed!Next
  BY <1>2, <1>9 DEF SelectSystem
<1>10. ASSUME NEW title \in GameTypes, SelectGameType(title) PROVE AsFeed!Next
  BY <1>2, <1>10 DEF SelectGameType
<1>11. ASSUME NEW s \in Sections, ExpandPosts(s) PROVE UNCHANGED AsFeed!vars
  BY <1>1, <1>11 DEF ExpandPosts
<1>12. ASSUME NEW s \in Sections, NEW row \in 0..rows[s], CellForRow(s, row) PROVE UNCHANGED AsFeed!vars
  BY <1>1, <1>12 DEF CellForRow
<1>13. ASSUME NEW s \in Sections, ViewForHeader(s) PROVE UNCHANGED AsFeed!vars
  BY <1>1, <1>13 DEF ViewForHeader
<1>14. ASSUME UNCHANGED vars PROVE UNCHANGED AsFeed!vars
  BY <1>1, <1>14 DEF vars
<1> QED
  BY <1>3, <1>4, <1>5, <1>6, <1>7, <1>8, <1>9, <1>10, <1>11, <1>12, <1>13, <1>14 DEF Next

\* The controller implements the feed.
THEOREM TableIsAFeed == Spec => IsAFeed
<1> QED
  BY AnswersSafety, InitIsInit, StepIsStep, PTL DEF Spec, IsAFeed, AsFeed!Spec
=============================================================================
