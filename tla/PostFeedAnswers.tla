-------------------------- MODULE PostFeedAnswers --------------------------
(***************************************************************************)
(* What the arrays of PostFeed hold, proved by counting.  An answer puts a *)
(* post it found into one new slot of one array, and touches no other post;*)
(* from this follow ArraysAreAnswers and, with the refinement mapping of   *)
(* PostFeed, that the table is a Feed.                                     *)
(***************************************************************************)
EXTENDS PostFeedProofs

\* The slots of a sequence that hold a post.
Slots(s, i) == {k \in DOMAIN s : s[k] = i}

----------------------------------------------------------------------------
\* An order of a finite set has each of its posts in one slot, no other post
\* in any.
LEMMA OrderHasEachOnce ==
    ASSUME NEW S \in SUBSET Nat, IsFiniteSet(S), NEW o \in SetToSeqs(S), NEW i
    PROVE  /\ i \in S => \E k \in DOMAIN o : Slots(o, i) = {k}
           /\ i \notin S => Slots(o, i) = {}
<1> DEFINE D == 1..Cardinality(S)
<1>1. Cardinality(S) \in Nat
  BY FS_CardinalityType
<1>2. o \in [D -> S] /\ \A j, k \in D : j # k => o[j] # o[k]
  BY DEF SetToSeqs
<1>3. IsFiniteSet(D) /\ Cardinality(D) = Cardinality(S)
  BY <1>1, FS_Interval
<1>4. o \in Injection(D, S)
  BY <1>2 DEF Injection, IsInjective
<1>5. o \in Surjection(D, S)
  <2> HIDE DEF D
  <2> QED BY <1>3, <1>4, FS_Injection
<1>6. \A x \in S : \E k \in D : o[k] = x
  BY <1>5 DEF Surjection
<1>7. ASSUME i \in S PROVE \E k \in DOMAIN o : Slots(o, i) = {k}
  <2>1. PICK k \in D : o[k] = i
    BY <1>6, <1>7
  <2>2. Slots(o, i) = {k}
    BY <1>2, <2>1 DEF Slots
  <2> QED
    BY <1>2, <2>1, <2>2
<1>8. ASSUME i \notin S PROVE Slots(o, i) = {}
  BY <1>2, <1>8 DEF Slots
<1> QED
  BY <1>7, <1>8

\* Appending a sequence adds its slots, shifted.
LEMMA SlotsOfAppended ==
    ASSUME NEW s \in Seq(Nat), NEW o \in Seq(Nat), NEW i
    PROVE  /\ Slots(o, i) = {} => Slots(s \o o, i) = Slots(s, i)
           /\ \A k \in DOMAIN o : Slots(o, i) = {k} =>
                 /\ Slots(s \o o, i) = Slots(s, i) \cup {Len(s) + k}
                 /\ Len(s) + k \notin Slots(s, i)
<1>1. /\ Len(s) \in Nat /\ Len(o) \in Nat
      /\ DOMAIN s = 1..Len(s) /\ DOMAIN o = 1..Len(o)
      /\ Len(s \o o) = Len(s) + Len(o) /\ DOMAIN (s \o o) = 1..(Len(s) + Len(o))
  BY ConcatProperties, LenProperties
<1>2. /\ \A j \in 1..Len(s) : (s \o o)[j] = s[j]
      /\ \A j \in 1..Len(o) : (s \o o)[Len(s) + j] = o[j]
  BY <1>1, ConcatProperties
<1>3. \A j \in DOMAIN (s \o o) : j \in 1..Len(s) \/ (j - Len(s)) \in 1..Len(o)
  BY <1>1
<1>4. \A j \in DOMAIN (s \o o) :
         j \in Slots(s \o o, i) <=> j \in Slots(s, i) \/ (j - Len(s)) \in Slots(o, i)
  <2> TAKE j \in DOMAIN (s \o o)
  <2>1. ASSUME j \in 1..Len(s)
        PROVE  j \in Slots(s \o o, i) <=> j \in Slots(s, i) \/ (j - Len(s)) \in Slots(o, i)
    <3>1. (j - Len(s)) \notin DOMAIN o
      BY <1>1, <2>1
    <3> QED
      BY <1>1, <1>2, <2>1, <3>1 DEF Slots
  <2>2. ASSUME j \notin 1..Len(s)
        PROVE  j \in Slots(s \o o, i) <=> j \in Slots(s, i) \/ (j - Len(s)) \in Slots(o, i)
    <3>1. (j - Len(s)) \in 1..Len(o) /\ j = Len(s) + (j - Len(s))
      BY <1>1, <1>3, <2>2
    <3>2. (s \o o)[j] = o[j - Len(s)]
      BY <1>2, <3>1
    <3> QED
      BY <1>1, <2>2, <3>1, <3>2 DEF Slots
  <2> QED
    BY <2>1, <2>2
<1>5. ASSUME Slots(o, i) = {} PROVE Slots(s \o o, i) = Slots(s, i)
  <2>1. Slots(s, i) \subseteq DOMAIN (s \o o) /\ Slots(s \o o, i) \subseteq DOMAIN (s \o o)
    BY <1>1 DEF Slots
  <2> QED
    BY <1>4, <1>5, <2>1
<1>6. ASSUME NEW k \in DOMAIN o, Slots(o, i) = {k}
      PROVE  /\ Slots(s \o o, i) = Slots(s, i) \cup {Len(s) + k}
             /\ Len(s) + k \notin Slots(s, i)
  <2>1. Slots(s, i) \subseteq DOMAIN (s \o o) /\ Slots(s \o o, i) \subseteq DOMAIN (s \o o)
    BY <1>1 DEF Slots
  <2>2. Len(s) + k \in DOMAIN (s \o o) /\ Len(s) + k \notin DOMAIN s
    BY <1>1, <1>6
  <2>3. \A j \in DOMAIN (s \o o) : (j - Len(s)) \in Slots(o, i) <=> j = Len(s) + k
    BY <1>1, <1>6
  <2> QED
    BY <1>4, <2>1, <2>2, <2>3 DEF Slots
<1> QED
  BY <1>5, <1>6

\* An answer puts a post it found into one new slot of its rank's array, and
\* changes no slot of any other post.
LEMMA AppendedSlots ==
    ASSUME posts \in [Arrays -> Seq(Nat)],
           NEW found \in SUBSET Nat, IsFiniteSet(found),
           NEW new \in Appended(found), NEW a \in Arrays, NEW i
    PROVE  /\ (i \in found /\ db[i].rank = a) =>
                 \E k : k \notin Slots(posts[a], i) /\ Slots(new[a], i) = Slots(posts[a], i) \cup {k}
           /\ ~(i \in found /\ db[i].rank = a) => Slots(new[a], i) = Slots(posts[a], i)
<1> DEFINE Of(x)  == {j \in found : db[j].rank = x}
           Orders == [Arrays -> UNION {SetToSeqs(Of(x)) : x \in Arrays}]
<1>1. PICK order \in {o \in Orders : \A x \in Arrays : o[x] \in SetToSeqs(Of(x))} :
          new = [x \in Arrays |-> posts[x] \o order[x]]
  BY DEF Appended
<1>2. Of(a) \in SUBSET Nat /\ IsFiniteSet(Of(a))
  BY FS_Subset
<1>3. order[a] \in SetToSeqs(Of(a)) /\ new[a] = posts[a] \o order[a]
  BY <1>1
<1>4. i \in Of(a) <=> i \in found /\ db[i].rank = a
  OBVIOUS
<1> HIDE DEF Of
<1>5. order[a] \in Seq(Nat) /\ posts[a] \in Seq(Nat)
  BY <1>2, <1>3, OrdersAreSequences
<1>6. /\ i \in Of(a) => \E k \in DOMAIN order[a] : Slots(order[a], i) = {k}
      /\ i \notin Of(a) => Slots(order[a], i) = {}
  BY <1>2, <1>3, OrderHasEachOnce
<1>7. ASSUME i \in Of(a)
      PROVE  \E k : k \notin Slots(posts[a], i) /\ Slots(new[a], i) = Slots(posts[a], i) \cup {k}
  <2>1. PICK k \in DOMAIN order[a] : Slots(order[a], i) = {k}
    BY <1>6, <1>7
  <2>2. /\ Slots(posts[a] \o order[a], i) = Slots(posts[a], i) \cup {Len(posts[a]) + k}
        /\ Len(posts[a]) + k \notin Slots(posts[a], i)
    BY <1>5, <2>1, SlotsOfAppended
  <2> QED
    BY <1>3, <2>2
<1>8. ASSUME i \notin Of(a) PROVE Slots(new[a], i) = Slots(posts[a], i)
  BY <1>3, <1>5, <1>6, <1>8, SlotsOfAppended
<1> QED
  BY <1>4, <1>7, <1>8
\* The same for the cells of all arrays together: only the array of the post's
\* own rank gets a cell for it.
LEMMA AppendedCells ==
    ASSUME posts \in [Arrays -> Seq(Nat)],
           NEW found \in SUBSET Nat, IsFiniteSet(found),
           NEW new \in Appended(found), NEW i
    PROVE  /\ (i \in found /\ db[i].rank \in Arrays) =>
                 \E c : c \notin Cells(posts, i) /\ Cells(new, i) = Cells(posts, i) \cup {c}
           /\ ~(i \in found /\ db[i].rank \in Arrays) => Cells(new, i) = Cells(posts, i)
<1>1. \A arrays, c : c \in Cells(arrays, i) <=>
          \E a \in Arrays : \E k : c = <<a, k>> /\ k \in Slots(arrays[a], i)
  <2> SUFFICES ASSUME NEW arrays, NEW c
               PROVE  c \in Cells(arrays, i) <=>
                         \E a \in Arrays : \E k : c = <<a, k>> /\ k \in Slots(arrays[a], i)
    OBVIOUS
  <2>1. ASSUME c \in Cells(arrays, i)
        PROVE  \E a \in Arrays : \E k : c = <<a, k>> /\ k \in Slots(arrays[a], i)
    <3>1. PICK a \in Arrays : c \in {a} \X DOMAIN arrays[a]
      BY <2>1 DEF Cells
    <3>2. PICK k \in DOMAIN arrays[a] : c = <<a, k>>
      BY <3>1
    <3>3. arrays[a][k] = i
      BY <2>1, <3>2 DEF Cells
    <3>4. k \in Slots(arrays[a], i)
      BY <3>2, <3>3 DEF Slots
    <3> QED
      BY <3>2, <3>4
  <2>2. ASSUME NEW a \in Arrays, NEW k, c = <<a, k>>, k \in Slots(arrays[a], i)
        PROVE  c \in Cells(arrays, i)
    BY <2>2 DEF Cells, Slots
  <2> QED
    BY <2>1, <2>2
<1>2. \A a \in Arrays : ~(i \in found /\ db[i].rank = a) => Slots(new[a], i) = Slots(posts[a], i)
  BY AppendedSlots
<1>3. ASSUME i \in found, db[i].rank \in Arrays
      PROVE  \E c : c \notin Cells(posts, i) /\ Cells(new, i) = Cells(posts, i) \cup {c}
  <2> DEFINE a == db[i].rank
  <2>0. \A b \in Arrays : i \in found /\ db[i].rank = b =>
           \E k : k \notin Slots(posts[b], i) /\ Slots(new[b], i) = Slots(posts[b], i) \cup {k}
    BY AppendedSlots, SMTT(40)
  <2>1. PICK k : k \notin Slots(posts[a], i) /\ Slots(new[a], i) = Slots(posts[a], i) \cup {k}
    BY <1>3, <2>0
  <2>2. <<a, k>> \notin Cells(posts, i)
    BY <1>1, <2>1
  <2>3. \A c : c \in Cells(new, i) <=> c \in Cells(posts, i) \cup {<<a, k>>}
    <3>1. \A b \in Arrays : \A j : j \in Slots(new[b], i) <=>
              j \in Slots(posts[b], i) \/ (b = a /\ j = k)
      BY <1>2, <2>1
    <3> HIDE DEF a
    <3> QED
      BY <1>1, <1>3, <3>1 DEF a
  <2> QED
    BY <2>2, <2>3
<1>4. ASSUME ~(i \in found /\ db[i].rank \in Arrays) PROVE Cells(new, i) = Cells(posts, i)
  <2>1. \A b \in Arrays : Slots(new[b], i) = Slots(posts[b], i)
    BY <1>2, <1>4
  <2>2. \A c : c \in Cells(new, i) <=> c \in Cells(posts, i)
    BY <1>1, <2>1
  <2> QED
    BY <2>2
<1> QED
  BY <1>3, <1>4

\* Empty arrays have no slots and no cells.
LEMMA NoSlots ==
    ASSUME NEW i
    PROVE  /\ \A a \in Arrays : Slots(NoPosts[a], i) = {}
           /\ Cells(NoPosts, i) = {}
<1>1. DOMAIN <<>> = {}
  BY EmptySeq
<1> QED
  BY <1>1 DEF Slots, Cells, NoPosts
----------------------------------------------------------------------------
\* What the numbers of the reads are good for: a number names one read, open or
\* answered, and the latest names the place that is selected.  The database and
\* the numbers stay within their bounds.
ReadNumbers ==
    /\ readNo <= MaxReads /\ Len(db) <= MaxPosts
    /\ \A q, r \in reads : q.no = r.no => q = r
    /\ \A h \in heard, r \in reads : h.no # r.no
    /\ \A q \in reads \cup heard : q.no = readNo => q.place = Place

\* readDatabase keeps it for any caller that leaves the database alone.
LEMMA ReadDatabaseNumbers ==
    ASSUME TypeOK, ReadNumbers, db' = db, ReadDatabase
    PROVE  ReadNumbers'
<1>1. readNo' = readNo + 1 /\ readNo < MaxReads /\ readNo \in Nat /\ MaxReads \in Nat
  BY FeedAssumption DEF ReadDatabase, TypeOK
<1>2. PICK since :
          reads' = reads \cup {[no |-> readNo + 1, place |-> Place', since |-> since]}
  BY DEF ReadDatabase
<1> DEFINE new == [no |-> readNo + 1, place |-> Place', since |-> since]
<1>3. \A r \in reads : r.no \in 1..readNo
  BY DEF TypeOK
<1>4. \A r \in reads' : r = new \/ (r \in reads /\ r.no \in 1..readNo)
  BY <1>2, <1>3
<1>5. new.no = readNo + 1 /\ new.place = Place'
  OBVIOUS
<1> HIDE DEF new
<1>6. \A q, r \in reads' : q.no = r.no => q = r
  BY <1>1, <1>4, <1>5 DEF ReadNumbers
<1>7. heard' = {}
  BY DEF ReadDatabase
<1>8. \A q \in reads' : q.no = readNo' => q.place = Place'
  BY <1>1, <1>4, <1>5
<1> QED
  BY <1>1, <1>6, <1>7, <1>8 DEF ReadNumbers

\* Every step keeps it.
LEMMA ReadNumbersStep == TypeOK /\ ReadNumbers /\ [Next]_vars => ReadNumbers'
<1> SUFFICES ASSUME TypeOK, ReadNumbers, [Next]_vars PROVE ReadNumbers'
  OBVIOUS
<1>1. ASSUME ReadDatabase, db' = db PROVE ReadNumbers'
  BY <1>1, ReadDatabaseNumbers
<1>2. ASSUME UNCHANGED <<system, gameType, db, readNo, reads, heard>> PROVE ReadNumbers'
  BY <1>2 DEF ReadNumbers, Place
<1>3. ASSUME NEW r \in reads, NEW n \in r.since..Len(db), Answer(r, n) PROVE ReadNumbers'
  <2> DEFINE h == [no |-> r.no, place |-> r.place, upto |-> n]
  <2>1. heard' = heard \cup {h} /\ reads' = reads \ {r} /\ h.no = r.no /\ h.place = r.place
    BY <1>3 DEF Answer
  <2>2. Place' = Place /\ readNo' = readNo /\ db' = db
    BY <1>3 DEF Answer, Place
  <2> HIDE DEF h
  <2> QED
    BY <2>1, <2>2 DEF ReadNumbers
<1>4. ASSUME NEW r \in reads, Cancelled(r) PROVE ReadNumbers'
  <2>1. Place' = Place /\ UNCHANGED <<readNo, db, heard>> /\ reads' = reads \ {r}
    BY <1>4 DEF Cancelled, Place
  <2> QED
    BY <2>1 DEF ReadNumbers
<1>5. ASSUME NEW place \in Places, NEW rank \in Ranks, Post(place, rank) PROVE ReadNumbers'
  <2>1. Len(db) \in Nat /\ MaxPosts \in Nat /\ Len(db) < MaxPosts /\ Len(db') = Len(db) + 1
    BY <1>5, LenProperties, FeedAssumption DEF Post, TypeOK
  <2>2. Place' = Place /\ UNCHANGED <<readNo, reads, heard>>
    BY <1>5 DEF Post, Place
  <2> QED
    BY <2>1, <2>2 DEF ReadNumbers
<1>6. ASSUME Relaunch PROVE ReadNumbers'
  BY <1>6, FeedAssumption DEF Relaunch, ReadNumbers
<1>7. ASSUME ViewDidAppear PROVE ReadNumbers'
  BY <1>1, <1>7 DEF ViewDidAppear
<1>8. ASSUME Leave PROVE ReadNumbers'
  BY <1>2, <1>8 DEF Leave
<1>9. ASSUME NEW title \in Systems, SelectSystem(title) PROVE ReadNumbers'
  BY <1>1, <1>9 DEF SelectSystem
<1>10. ASSUME NEW title \in GameTypes, SelectGameType(title) PROVE ReadNumbers'
  BY <1>1, <1>10 DEF SelectGameType
<1>11. ASSUME NEW s \in Sections, ExpandPosts(s) PROVE ReadNumbers'
  BY <1>2, <1>11 DEF ExpandPosts
<1>12. ASSUME NEW s \in Sections, NEW row \in 0..rows[s], CellForRow(s, row) PROVE ReadNumbers'
  BY <1>2, <1>12 DEF CellForRow
<1>13. ASSUME NEW s \in Sections, ViewForHeader(s) PROVE ReadNumbers'
  BY <1>2, <1>13 DEF ViewForHeader
<1>14. ASSUME UNCHANGED vars PROVE ReadNumbers'
  BY <1>2, <1>14 DEF vars
<1> QED
  BY <1>3, <1>4, <1>5, <1>6, <1>7, <1>8, <1>9, <1>10, <1>11, <1>12, <1>13, <1>14 DEF Next

----------------------------------------------------------------------------
\* What an answer does to the slots and to the cells of a post.
LEMMA AnswerCounts ==
    ASSUME TypeOK, NEW r \in reads, NEW n \in r.since..Len(db), Answer(r, n), NEW i
    PROVE  /\ \A a \in Arrays :
                 /\ (i \in Found(r, n) /\ db[i].rank = a) =>
                       \E k : /\ k \notin Slots(posts[a], i)
                              /\ Slots(posts'[a], i) = Slots(posts[a], i) \cup {k}
                 /\ ~(i \in Found(r, n) /\ db[i].rank = a) =>
                       Slots(posts'[a], i) = Slots(posts[a], i)
           /\ (i \in Found(r, n) /\ db[i].rank \in Arrays) =>
                 \E c : c \notin Cells(posts, i) /\ Cells(posts', i) = Cells(posts, i) \cup {c}
           /\ ~(i \in Found(r, n) /\ db[i].rank \in Arrays) => Cells(posts', i) = Cells(posts, i)
<1>1. n \in Nat
  <2>1. r.since \in 0..Len(db) /\ Len(db) \in Nat
    BY LenProperties DEF TypeOK
  <2> QED
    BY <2>1
<1>2. Found(r, n) \in SUBSET Nat /\ IsFiniteSet(Found(r, n))
  BY <1>1, FoundTyped
<1>3. posts \in [Arrays -> Seq(Nat)]
  BY DEF TypeOK
<1>4. CASE Found(r, n) = {} /\ posts' = posts
  BY <1>4
<1>5. CASE Found(r, n) # {} /\ posts' \in Appended(Found(r, n))
  <2>1. \A a \in Arrays :
           /\ (i \in Found(r, n) /\ db[i].rank = a) =>
                 \E k : /\ k \notin Slots(posts[a], i)
                        /\ Slots(posts'[a], i) = Slots(posts[a], i) \cup {k}
           /\ ~(i \in Found(r, n) /\ db[i].rank = a) =>
                 Slots(posts'[a], i) = Slots(posts[a], i)
    BY <1>2, <1>3, <1>5, AppendedSlots, SMTT(40)
  <2>2. /\ (i \in Found(r, n) /\ db[i].rank \in Arrays) =>
              \E c : c \notin Cells(posts, i) /\ Cells(posts', i) = Cells(posts, i) \cup {c}
        /\ ~(i \in Found(r, n) /\ db[i].rank \in Arrays) => Cells(posts', i) = Cells(posts, i)
    BY <1>2, <1>3, <1>5, AppendedCells
  <2> QED
    BY <2>1, <2>2
<1> QED
  BY <1>4, <1>5 DEF Answer
\* The answers that brought a post.
Brought(i) == {h \in heard : h.place = db[i].place /\ i <= h.upto}

\* The inductive invariant: what the arrays hold is what the answers brought.
AnswersInv ==
    /\ TypeOK /\ ReadNumbers
    /\ IsFiniteSet(heard)
    /\ \A i \in Nat : /\ IsFiniteSet(Cells(posts, i))
                      /\ \A a \in Arrays : IsFiniteSet(Slots(posts[a], i))
    /\ \A a \in Arrays : \A k \in DOMAIN posts[a] : posts[a][k] \in DOMAIN db
    /\ ArraysAreAnswers

\* Emptied arrays that no answer has reached hold what they should.
LEMMA ClearedHoldsNothing ==
    ASSUME TypeOK', ReadNumbers', posts' = NoPosts, heard' = {}
    PROVE  AnswersInv'
<1>1. (\A i \in Nat : /\ IsFiniteSet(Cells(posts, i))
                      /\ \A a \in Arrays : IsFiniteSet(Slots(posts[a], i)))'
  <2>1. \A i \in Nat : /\ IsFiniteSet(Cells(NoPosts, i))
                       /\ \A a \in Arrays : IsFiniteSet(Slots(NoPosts[a], i))
    BY NoSlots, FS_EmptySet
  <2> QED
    BY <2>1, Zenon
<1>2. \A a \in Arrays : \A k \in DOMAIN posts'[a] : posts'[a][k] \in DOMAIN db'
  BY EmptySeq DEF NoPosts
<1>3. ArraysAreAnswers'
  <2>1. \A a \in Arrays, i \in DOMAIN db' :
           /\ {k \in DOMAIN posts'[a] : posts'[a][k] = i} = {}
           /\ {h \in heard' : h.place = db'[i].place /\ i <= h.upto} = {}
    BY EmptySeq DEF NoPosts
  <2> QED
    BY <2>1, FS_EmptySet DEF ArraysAreAnswers
<1> QED
  BY <1>1, <1>2, <1>3, FS_EmptySet DEF AnswersInv

\* An answer brings each post it found one more slot and one more answer.
LEMMA AnswerKeepsCount ==
    ASSUME AnswersInv, TypeOK', ReadNumbers',
           NEW r \in reads, NEW n \in r.since..Len(db), Answer(r, n)
    PROVE  AnswersInv'
<1> DEFINE new == [no |-> r.no, place |-> r.place, upto |-> n]
<1>0. /\ heard' = heard \cup {new} /\ db' = db
      /\ new.no = r.no /\ new.place = r.place /\ new.upto = n
  BY DEF Answer
<1>1. new \notin heard
  BY <1>0 DEF AnswersInv, ReadNumbers
<1>2. /\ r.since \in 0..Len(db) /\ Len(db) \in Nat /\ n \in 0..Len(db)
      /\ DOMAIN db = 1..Len(db)
  <2>1. r.since \in 0..Len(db) /\ Len(db) \in Nat /\ DOMAIN db = 1..Len(db)
    BY LenProperties DEF AnswersInv, TypeOK
  <2> QED
    BY <2>1
<1>3. \A i \in DOMAIN db : i \in Found(r, n) <=> new.place = db[i].place /\ i <= new.upto
  <2> SUFFICES ASSUME NEW i \in DOMAIN db
               PROVE  i \in Found(r, n) <=> r.place = db[i].place /\ i <= n
    BY <1>0
  <2>1. i \in 1..n <=> i <= n
    BY <1>2
  <2> QED
    BY <2>1, Zenon DEF Found
<1> HIDE DEF new
<1>4. IsFiniteSet(heard')
  BY <1>0, FS_AddElement DEF AnswersInv
<1>5. ASSUME NEW i \in Nat
      PROVE  /\ IsFiniteSet(Cells(posts', i))
             /\ \A a \in Arrays : IsFiniteSet(Slots(posts'[a], i))
  <2>1. IsFiniteSet(Cells(posts', i))
    BY AnswerCounts, FS_AddElement DEF AnswersInv
  <2>2. ASSUME NEW a \in Arrays PROVE IsFiniteSet(Slots(posts'[a], i))
    <3>1. \/ Slots(posts'[a], i) = Slots(posts[a], i)
          \/ \E k : Slots(posts'[a], i) = Slots(posts[a], i) \cup {k}
      BY AnswerCounts DEF AnswersInv
    <3> QED
      BY <3>1, FS_AddElement DEF AnswersInv
  <2> QED
    BY <2>1, <2>2
<1>6. ASSUME NEW a \in Arrays, NEW k \in DOMAIN posts'[a]
      PROVE  posts'[a][k] \in DOMAIN db
  <2> DEFINE i == posts'[a][k]
  <2>1. Slots(posts'[a], i) # {}
    BY <1>6 DEF Slots
  <2>2. CASE i \in Found(r, n)
    BY <1>2, <2>2 DEF Found
  <2>3. CASE i \notin Found(r, n)
    <3>1. Slots(posts[a], i) # {}
      <4> HIDE DEF i
      <4> QED BY <2>1, <2>3, AnswerCounts DEF AnswersInv
    <3>2. PICK j \in DOMAIN posts[a] : posts[a][j] = i
      BY <3>1 DEF Slots
    <3> QED
      BY <3>2 DEF AnswersInv
  <2> QED
    BY <2>2, <2>3
<1>7. ASSUME NEW a \in Arrays, NEW i \in DOMAIN db
      PROVE  Cardinality(Slots(posts'[a], i)) =
                IF db[i].rank # a THEN 0 ELSE Cardinality(Brought(i)')
  <2> DEFINE Before == Brought(i)
             After  == {h \in heard' : h.place = db[i].place /\ i <= h.upto}
  <2>0. i \in Nat
    BY <1>2
  <2>1. Cardinality(Slots(posts[a], i)) = IF db[i].rank # a THEN 0 ELSE Cardinality(Before)
    BY DEF AnswersInv, ArraysAreAnswers, Slots, Brought
  <2>7. After = Brought(i)'
    BY <1>0 DEF Brought
  <2>2. IsFiniteSet(Before) /\ Before \subseteq heard
    BY FS_Subset DEF AnswersInv, Brought
  <2>3. IsFiniteSet(Slots(posts[a], i))
    BY <2>0 DEF AnswersInv
  <2>4. ASSUME i \notin Found(r, n)
        PROVE  After = Before /\ Slots(posts'[a], i) = Slots(posts[a], i)
    <3>1. After = Before
      BY <1>0, <1>3, <2>4 DEF Brought
    <3> HIDE DEF After, Before
    <3>2. Slots(posts'[a], i) = Slots(posts[a], i)
      BY <2>4, AnswerCounts DEF AnswersInv
    <3> QED
      BY <3>1, <3>2
  <2>5. ASSUME i \in Found(r, n), db[i].rank # a
        PROVE  Slots(posts'[a], i) = Slots(posts[a], i)
    BY <2>5, AnswerCounts DEF AnswersInv
  <2>6. ASSUME i \in Found(r, n), db[i].rank = a
        PROVE  /\ Cardinality(After) = Cardinality(Before) + 1
               /\ Cardinality(Slots(posts'[a], i)) = Cardinality(Slots(posts[a], i)) + 1
    <3>1. After = Before \cup {new} /\ new \notin Before
      BY <1>0, <1>1, <1>3, <2>6 DEF Brought
    <3> HIDE DEF After, Before
    <3>3. \A b \in Arrays :
             /\ (i \in Found(r, n) /\ db[i].rank = b) =>
                   \E k : /\ k \notin Slots(posts[b], i)
                          /\ Slots(posts'[b], i) = Slots(posts[b], i) \cup {k}
             /\ ~(i \in Found(r, n) /\ db[i].rank = b) =>
                   Slots(posts'[b], i) = Slots(posts[b], i)
      <4>1. TypeOK
        BY DEF AnswersInv
      <4> QED
        BY <4>1, AnswerCounts, Zenon
    <3>2. PICK k : k \notin Slots(posts[a], i) /\ Slots(posts'[a], i) = Slots(posts[a], i) \cup {k}
      BY <2>6, <3>3
    <3> QED
      BY <2>2, <2>3, <3>1, <3>2, FS_AddElement
  <2> HIDE DEF After, Before
  <2> QED
    BY <2>1, <2>4, <2>5, <2>6, <2>7
<1>8. ArraysAreAnswers'
  BY <1>0, <1>7 DEF ArraysAreAnswers, Slots, Brought
<1>9. /\ (\A i \in Nat : /\ IsFiniteSet(Cells(posts, i))
                         /\ \A a \in Arrays : IsFiniteSet(Slots(posts[a], i)))'
      /\ (\A a \in Arrays : \A k \in DOMAIN posts[a] : posts[a][k] \in DOMAIN db)'
  BY <1>0, <1>5, <1>6 DEF Cells, Slots
<1> QED
  BY <1>4, <1>8, <1>9 DEF AnswersInv

\* A post that is written is in no array yet, and no answer can have brought it.
LEMMA PostKeepsCount ==
    ASSUME AnswersInv, TypeOK', ReadNumbers',
           NEW place \in Places, NEW rank \in Ranks, Post(place, rank)
    PROVE  AnswersInv'
<1> DEFINE new == [place |-> place, rank |-> rank]
<1>1. /\ posts' = posts /\ heard' = heard /\ db' = Append(db, new)
  BY DEF Post
<1>2. /\ Len(db) \in Nat /\ DOMAIN db = 1..Len(db) /\ DOMAIN db' = 1..(Len(db) + 1)
      /\ \A i \in DOMAIN db : db'[i] = db[i]
  <2>1. db \in Seq([place : Places, rank : Ranks]) /\ new \in [place : Places, rank : Ranks]
    BY DEF AnswersInv, TypeOK
  <2> HIDE DEF new
  <2> QED
    BY <1>1, <2>1, AppendProperties, LenProperties
<1>3. \A i \in DOMAIN db' : i \notin DOMAIN db => i = Len(db) + 1
  BY <1>2
<1>4. ASSUME NEW a \in Arrays, NEW i \in DOMAIN db'
      PROVE  Cardinality(Slots(posts[a], i)) =
                IF db'[i].rank # a THEN 0
                ELSE Cardinality({h \in heard : h.place = db'[i].place /\ i <= h.upto})
  <2>1. ASSUME i \in DOMAIN db
        PROVE  Cardinality(Slots(posts[a], i)) =
                  IF db'[i].rank # a THEN 0
                  ELSE Cardinality({h \in heard : h.place = db'[i].place /\ i <= h.upto})
    <3>1. db'[i] = db[i]
      BY <1>2, <2>1
    <3>2. Cardinality(Slots(posts[a], i)) =
             IF db[i].rank # a THEN 0
             ELSE Cardinality({h \in heard : h.place = db[i].place /\ i <= h.upto})
      BY <2>1 DEF AnswersInv, ArraysAreAnswers, Slots
    <3> QED
      BY <3>1, <3>2
  <2>2. ASSUME i \notin DOMAIN db
        PROVE  /\ Slots(posts[a], i) = {}
               /\ {h \in heard : h.place = db'[i].place /\ i <= h.upto} = {}
    <3>1. Slots(posts[a], i) = {}
      BY <2>2 DEF AnswersInv, Slots
    <3>2. \A h \in heard : h.upto \in 0..Len(db)
      BY DEF AnswersInv, TypeOK
    <3>3. i = Len(db) + 1
      BY <1>3, <2>2
    <3>4. \A h \in heard : ~(i <= h.upto)
      BY <1>2, <3>2, <3>3
    <3> QED
      BY <3>1, <3>4
  <2> QED
    BY <2>1, <2>2, FS_EmptySet
<1> HIDE DEF new
<1>5. ArraysAreAnswers'
  <2>1. posts' = posts /\ heard' = heard
    BY <1>1
  <2>2. \A a \in Arrays, i \in DOMAIN db' :
           Cardinality({k \in DOMAIN posts[a] : posts[a][k] = i}) =
              IF db'[i].rank # a THEN 0
              ELSE Cardinality({h \in heard : h.place = db'[i].place /\ i <= h.upto})
    BY <1>4 DEF Slots
  <2> QED
    BY <2>1, <2>2 DEF ArraysAreAnswers
<1>6. \A a \in Arrays : \A k \in DOMAIN posts[a] : posts[a][k] \in DOMAIN db'
  BY <1>2 DEF AnswersInv
<1>7. (\A i \in Nat : /\ IsFiniteSet(Cells(posts, i))
                      /\ \A a \in Arrays : IsFiniteSet(Slots(posts[a], i)))'
  <2>1. \A i \in Nat : /\ IsFiniteSet(Cells(posts, i))
                       /\ \A a \in Arrays : IsFiniteSet(Slots(posts[a], i))
    BY DEF AnswersInv
  <2> QED
    BY <1>1, <2>1
<1> QED
  BY <1>1, <1>5, <1>6, <1>7 DEF AnswersInv

\* Every step keeps the count.
LEMMA AnswersInvStep == AnswersInv /\ [Next]_vars => AnswersInv'
<1> SUFFICES ASSUME AnswersInv, [Next]_vars PROVE AnswersInv'
  OBVIOUS
<1>0. TypeOK' /\ ReadNumbers'
  BY TypeOKStep, ReadNumbersStep DEF AnswersInv
<1>1. ASSUME posts' = NoPosts, heard' = {} PROVE AnswersInv'
  BY <1>0, <1>1, ClearedHoldsNothing
<1>2. ASSUME UNCHANGED <<posts, db, heard>> PROVE AnswersInv'
  <2>1. ArraysAreAnswers'
    BY <1>2 DEF AnswersInv, ArraysAreAnswers
  <2>2. (\A i \in Nat : /\ IsFiniteSet(Cells(posts, i))
                        /\ \A a \in Arrays : IsFiniteSet(Slots(posts[a], i)))'
    <3>1. \A i \in Nat : /\ IsFiniteSet(Cells(posts, i))
                         /\ \A a \in Arrays : IsFiniteSet(Slots(posts[a], i))
      BY DEF AnswersInv
    <3> QED
      BY <1>2, <3>1
  <2> QED
    BY <1>0, <1>2, <2>1, <2>2 DEF AnswersInv
<1>3. ASSUME NEW r \in reads, NEW n \in r.since..Len(db), Answer(r, n) PROVE AnswersInv'
  BY <1>0, <1>3, AnswerKeepsCount
<1>4. ASSUME NEW r \in reads, Cancelled(r) PROVE AnswersInv'
  BY <1>2, <1>4 DEF Cancelled
<1>5. ASSUME NEW place \in Places, NEW rank \in Ranks, Post(place, rank) PROVE AnswersInv'
  BY <1>0, <1>5, PostKeepsCount
<1>6. ASSUME Relaunch PROVE AnswersInv'
  BY <1>1, <1>6 DEF Relaunch
<1>7. ASSUME ViewDidAppear PROVE AnswersInv'
  BY <1>1, <1>7 DEF ViewDidAppear, ReadDatabase
<1>8. ASSUME Leave PROVE AnswersInv'
  BY <1>2, <1>8 DEF Leave
<1>9. ASSUME NEW title \in Systems, SelectSystem(title) PROVE AnswersInv'
  BY <1>1, <1>9 DEF SelectSystem, ReadDatabase
<1>10. ASSUME NEW title \in GameTypes, SelectGameType(title) PROVE AnswersInv'
  BY <1>1, <1>10 DEF SelectGameType, ReadDatabase
<1>11. ASSUME NEW s \in Sections, ExpandPosts(s) PROVE AnswersInv'
  BY <1>2, <1>11 DEF ExpandPosts
<1>12. ASSUME NEW s \in Sections, NEW row \in 0..rows[s], CellForRow(s, row) PROVE AnswersInv'
  BY <1>2, <1>12 DEF CellForRow
<1>13. ASSUME NEW s \in Sections, ViewForHeader(s) PROVE AnswersInv'
  BY <1>2, <1>13 DEF ViewForHeader
<1>14. ASSUME UNCHANGED vars PROVE AnswersInv'
  BY <1>2, <1>14 DEF vars
<1> QED
  BY <1>3, <1>4, <1>5, <1>6, <1>7, <1>8, <1>9, <1>10, <1>11, <1>12, <1>13, <1>14 DEF Next

\* A launch starts with empty arrays and no answers.
LEMMA InitAnswers == Init => AnswersInv
<1> SUFFICES ASSUME Init PROVE AnswersInv
  OBVIOUS
<1>1. TypeOK /\ posts = NoPosts /\ heard = {} /\ reads = {} /\ readNo = 0 /\ db = <<>>
  BY InitTyped DEF Init
<1>2. ReadNumbers
  BY <1>1, EmptySeq, FeedAssumption DEF ReadNumbers
<1>3. \A i \in Nat : /\ IsFiniteSet(Cells(posts, i))
                     /\ \A a \in Arrays : IsFiniteSet(Slots(posts[a], i))
  BY <1>1, NoSlots, FS_EmptySet
<1>4. /\ \A a \in Arrays : \A k \in DOMAIN posts[a] : posts[a][k] \in DOMAIN db
      /\ ArraysAreAnswers
  BY <1>1, EmptySeq DEF NoPosts, ArraysAreAnswers
<1> QED
  BY <1>1, <1>2, <1>3, <1>4, FS_EmptySet DEF AnswersInv

\* The counting invariant holds in every behaviour of the feed.
THEOREM AnswersSafety == Spec => []AnswersInv
<1> QED
  BY InitAnswers, AnswersInvStep, PTL DEF Spec

\* A post is in its tier's array once for each answer that found it, and in no
\* other array: answers are appended, whatever they are the answers to.
THEOREM CellsAreAnswers == Spec => []ArraysAreAnswers
<1>1. AnswersInv => ArraysAreAnswers
  BY DEF AnswersInv
<1> QED
  BY <1>1, AnswersSafety, PTL
----------------------------------------------------------------------------
\* One answer, to the latest read, leaves each array a permutation of what was
\* asked for: the count says each of these posts is there once and no other is.
LEMMA CountIsExact ==
    ASSUME AnswersInv, NEW h \in heard, heard = {h}, h.no = readNo, NEW a \in Arrays
    PROVE  posts[a] \in SetToSeqs({i \in 1..h.upto : db[i].place = Place /\ db[i].rank = a})
<1> DEFINE S == {i \in 1..h.upto : db[i].place = Place /\ db[i].rank = a}
           s == posts[a]
<1>1. h.place = Place
  BY DEF AnswersInv, ReadNumbers
<1>2. /\ Len(db) \in Nat /\ DOMAIN db = 1..Len(db) /\ h.upto \in 0..Len(db)
      /\ s \in Seq(Nat)
  BY LenProperties DEF AnswersInv, TypeOK
<1>3. /\ Len(s) \in Nat /\ DOMAIN s = 1..Len(s)
  BY <1>2, LenProperties
<1>4. S \subseteq DOMAIN db /\ IsFiniteSet(S)
  <2>1. h.upto \in Nat /\ 1..h.upto \subseteq DOMAIN db
    BY <1>2
  <2>2. IsFiniteSet(1..h.upto)
    BY <2>1, FS_Interval
  <2> QED
    BY <2>1, <2>2, FS_Subset
<1>5. ASSUME NEW i \in DOMAIN db
      PROVE  /\ IsFiniteSet(Slots(s, i))
             /\ i \in S => Cardinality(Slots(s, i)) = 1
             /\ i \notin S => Slots(s, i) = {}
  <2>1. i \in Nat /\ (i \in 1..h.upto <=> i <= h.upto)
    BY <1>2
  <2>2. IsFiniteSet(Slots(s, i))
    BY <2>1 DEF AnswersInv
  <2>3. Cardinality(Slots(s, i)) = IF db[i].rank # a THEN 0 ELSE Cardinality(Brought(i))
    BY DEF AnswersInv, ArraysAreAnswers, Slots, Brought
  <2>4. ASSUME i \in S PROVE Cardinality(Slots(s, i)) = 1
    <3>1. Brought(i) = {h}
      BY <1>1, <2>1, <2>4 DEF Brought
    <3> QED
      BY <2>3, <2>4, <3>1, FS_Singleton
  <2>5. ASSUME i \notin S PROVE Slots(s, i) = {}
    <3>1. db[i].rank # a \/ Brought(i) = {}
      BY <1>1, <2>1, <2>5 DEF Brought
    <3> HIDE DEF s
    <3>2. Cardinality(Slots(s, i)) = 0
      BY <2>3, <3>1, FS_EmptySet
    <3> QED
      BY <2>2, <3>2, FS_EmptySet
  <2> QED
    BY <2>2, <2>4, <2>5
<1>6. \A k \in DOMAIN s : s[k] \in DOMAIN db
  BY DEF AnswersInv
<1> HIDE DEF S, s
<1>7. \A k \in DOMAIN s : s[k] \in S
  BY <1>5, <1>6 DEF Slots
<1>8. ASSUME NEW j \in DOMAIN s, NEW k \in DOMAIN s, s[j] = s[k] PROVE j = k
  <2>1. j \in Slots(s, s[j]) /\ k \in Slots(s, s[j])
    BY <1>8 DEF Slots
  <2>2. \E x : Slots(s, s[j]) = {x}
    BY <1>5, <1>6, <1>7, FS_Singleton
  <2> QED
    BY <2>1, <2>2
<1>9. ASSUME NEW i \in S PROVE \E k \in DOMAIN s : s[k] = i
  <2>1. \E x : Slots(s, i) = {x}
    BY <1>4, <1>5, FS_Singleton
  <2> QED
    BY <2>1 DEF Slots
<1>10. s \in [DOMAIN s -> S]
  <2>1. s = [k \in 1..Len(s) |-> s[k]]
    BY <1>2, SeqDef, LenProperties
  <2> QED
    BY <1>3, <1>7, <2>1
<1>11. IsFiniteSet(DOMAIN s) /\ Cardinality(DOMAIN s) = Len(s)
  <2>1. \A m \in Nat : IsFiniteSet(1..m) /\ Cardinality(1..m) = m
    <3>1. \A m \in Nat : m \in Int /\ 1 \in Int
      OBVIOUS
    <3>2. \A m \in Nat : IsFiniteSet(1..m) /\ Cardinality(1..m) = IF 1 > m THEN 0 ELSE m - 1 + 1
      BY <3>1, FS_Interval
    <3> QED
      BY <3>2
  <2> QED
    BY <1>3, <2>1
<1>12. s \in Injection(DOMAIN s, S) /\ s \in Surjection(DOMAIN s, S)
  BY <1>8, <1>9, <1>10 DEF Injection, IsInjective, Surjection
<1>13. Cardinality(S) = Len(s)
  BY <1>4, <1>11, <1>12, FS_Injection
<1>14. s \in SetToSeqs(S)
  BY <1>3, <1>8, <1>10, <1>13 DEF SetToSeqs
<1> QED
  BY <1>14 DEF S, s

\* Reads that do not overlap give the selected feed, each post of it once.
THEOREM SerialReadsAreExact == Spec => []ExactWhenSerial
<1>1. AnswersInv => ExactWhenSerial
  <2> SUFFICES ASSUME AnswersInv, NEW h \in heard, heard = {h}, h.no = readNo, NEW a \in Arrays
               PROVE  posts[a] \in SetToSeqs({i \in 1..h.upto :
                                                db[i].place = Place /\ db[i].rank = a})
    BY DEF ExactWhenSerial
  <2> QED
    BY CountIsExact
<1> QED
  BY <1>1, AnswersSafety, PTL

----------------------------------------------------------------------------
\* What keeps a post that is due, or has arrived, from getting lost.
Holds(i) ==
    /\ i \in DOMAIN db /\ db[i].rank \in Arrays
    /\ Slots(posts[db[i].rank], i) # {}

\* In a table in step, a post has arrived when its array holds it.
LEMMA ArrivedIsHeld ==
    ASSUME NEW i
    PROVE  /\ TableInStep => (Arrived(i) <=> Holds(i))
           /\ TableInStep' => (Arrived(i)' <=> Holds(i)')
BY DEF Arrived, Holds, Slots, Range

\* While its array holds a post, the app runs.
LEMMA HeldRuns ==
    ASSUME TableInv', NEW i, Holds(i)', Slots(NoPosts[db'[i].rank], i) = {}
    PROVE  status' = "running"
<1>1. status' \in {"running", "trapped", "raised"} /\ status' # "raised"
  BY DEF TableInv, TypeOK, NeverRaises
<1>2. posts' # NoPosts
  BY DEF Holds
<1> QED
  BY <1>1, <1>2 DEF TableInv, TrapOnlyWhenCleared

\* The database only grows.
LEMMA PostsStand ==
    ASSUME TypeOK, [Next]_vars
    PROVE  \A i \in DOMAIN db : i \in DOMAIN db' /\ db'[i] = db[i]
<1>1. ASSUME NEW place \in Places, NEW rank \in Ranks, Post(place, rank)
      PROVE  \A i \in DOMAIN db : i \in DOMAIN db' /\ db'[i] = db[i]
  <2>1. db \in Seq([place : Places, rank : Ranks])
    BY DEF TypeOK
  <2>2. db' = Append(db, [place |-> place, rank |-> rank])
    BY <1>1 DEF Post
  <2> QED
    BY <2>1, <2>2
<1>2. CASE db' = db
  BY <1>2
<1> QED
  BY <1>1, <1>2
     DEF Next, vars, ViewDidAppear, Leave, SelectSystem, SelectGameType, Answer,
         Cancelled, ExpandPosts, CellForRow, ViewForHeader, Relaunch

\* A post that an answer found is in its array.
LEMMA AnswerBrings ==
    ASSUME TypeOK, NEW r \in reads, NEW n \in r.since..Len(db), Answer(r, n),
           NEW i \in Found(r, n), NEW a \in Arrays, db[i].rank = a
    PROVE  Slots(posts'[a], i) # {}
<1>1. \A b \in Arrays :
         /\ (i \in Found(r, n) /\ db[i].rank = b) =>
               \E k : /\ k \notin Slots(posts[b], i)
                      /\ Slots(posts'[b], i) = Slots(posts[b], i) \cup {k}
         /\ ~(i \in Found(r, n) /\ db[i].rank = b) =>
               Slots(posts'[b], i) = Slots(posts[b], i)
  BY AnswerCounts, Zenon
<1>2. PICK k : Slots(posts'[a], i) = Slots(posts[a], i) \cup {k}
  BY <1>1
<1> QED
  BY <1>2

\* A step starts a read or the app, or empties no array.
LEMMA ArraysGrow ==
    ASSUME TypeOK, [Next]_vars, readNo' = readNo, readNo # 0,
           NEW a \in Arrays, NEW i
    PROVE  Slots(posts[a], i) \subseteq Slots(posts'[a], i)
<1>1. readNo \in Nat /\ readNo' # readNo + 1 /\ readNo' # 0
  BY DEF TypeOK
<1>2. ASSUME NEW r \in reads, NEW n \in r.since..Len(db), Answer(r, n)
      PROVE  Slots(posts[a], i) \subseteq Slots(posts'[a], i)
  <2>1. \/ Slots(posts'[a], i) = Slots(posts[a], i)
        \/ \E k : Slots(posts'[a], i) = Slots(posts[a], i) \cup {k}
    BY <1>2, AnswerCounts
  <2> QED
    BY <2>1
<1>3. CASE posts' = posts
  BY <1>3
<1> QED
  BY <1>1, <1>2, <1>3
     DEF Next, vars, ViewDidAppear, Leave, SelectSystem, SelectGameType, ReadDatabase,
         Cancelled, ExpandPosts, CellForRow, ViewForHeader, Post, Relaunch

\* An array keeps a post until the next read.
LEMMA HeldStays ==
    ASSUME TableInv, TableInv', [Next]_vars, NEW i, Holds(i), readNo' = readNo, readNo # 0
    PROVE  Holds(i)' /\ status' = "running"
<1>1. i \in DOMAIN db' /\ db'[i] = db[i]
  BY PostsStand DEF TableInv, Holds
<1>2. Slots(posts[db[i].rank], i) \subseteq Slots(posts'[db[i].rank], i)
  BY ArraysGrow DEF TableInv, Holds
<1>3. Holds(i)'
  BY <1>1, <1>2 DEF Holds
<1>4. Slots(NoPosts[db'[i].rank], i) = {}
  BY <1>1, NoSlots DEF Holds
<1> QED
  BY <1>3, <1>4, HeldRuns

\* A read keeps waiting for what it was promised until it is answered, which
\* brings it, or refused.
LEMMA DueStays ==
    ASSUME TableInv, ReadNumbers, [Next]_vars, NEW i, NEW no, Due(i, no),
           readNo' = readNo, readNo # 0, status' = "running"
    PROVE  Due(i, no)' \/ Holds(i)' \/ Refused(no)'
<1>1. PICK r \in reads : r.no = no /\ i \in Found(r, r.since)
  BY DEF Due
<1>2. /\ i \in DOMAIN db /\ i \in 1..r.since /\ db[i].place = r.place
      /\ r.since \in 0..Len(db) /\ Len(db) \in Nat
  <2>1. /\ r.since \in 0..Len(db) /\ Len(db) \in Nat /\ DOMAIN db = 1..Len(db)
        /\ i \in 1..r.since /\ db[i].place = r.place
    BY <1>1, LenProperties DEF TableInv, TypeOK, Found
  <2> QED
    BY <2>1
<1>3. i \in DOMAIN db' /\ db'[i] = db[i] /\ db[i].rank \in Arrays
  BY <1>2, PostsStand DEF TableInv, Due
<1>4. ASSUME r \in reads' PROVE Due(i, no)'
  <2>1. (i \in Found(r, r.since))'
    BY <1>2, <1>3 DEF Found
  <2> QED
    BY <1>1, <1>3, <1>4, <2>1 DEF Due
<1>5. ASSUME NEW n \in r.since..Len(db), Answer(r, n) PROVE Holds(i)'
  <2>1. i \in Found(r, n)
    BY <1>2 DEF Found
  <2>2. Slots(posts'[db[i].rank], i) # {}
    BY <1>3, <1>5, <2>1, AnswerBrings DEF TableInv
  <2> QED
    BY <1>3, <2>2 DEF Holds
<1>6. ASSUME Cancelled(r) PROVE Refused(no)'
  <2>1. reads' = reads \ {r} /\ heard' = heard
    BY <1>6 DEF Cancelled
  <2> QED
    BY <1>1, <2>1 DEF ReadNumbers, Refused
<1>7. readNo \in Nat /\ readNo' # readNo + 1 /\ readNo' # 0
  BY DEF TableInv, TypeOK
<1>8. ASSUME NEW q \in reads, q # r, NEW n, Answer(q, n) \/ Cancelled(q) PROVE r \in reads'
  BY <1>8 DEF Answer, Cancelled
<1>9. CASE reads' = reads
  BY <1>4, <1>9
<1>10. CASE \E q \in reads : \E n \in q.since..Len(db) : Answer(q, n)
  BY <1>4, <1>5, <1>8, <1>10
<1>11. CASE \E q \in reads : Cancelled(q)
  BY <1>4, <1>6, <1>8, <1>11
<1> QED
  BY <1>7, <1>9, <1>10, <1>11
     DEF Next, vars, ViewDidAppear, Leave, SelectSystem, SelectGameType, ReadDatabase,
         ExpandPosts, CellForRow, ViewForHeader, Post, Relaunch

\* What the current read was promised is due until it has arrived, and then stays
\* until the next read, whatever else happens to the feed (readDatabase, line 138).
THEOREM FreshPostsAreKept == Spec => FreshPostIsKept
<1> DEFINE Keeps(i, no) ==
      /\ Due(i, no) =>
            (Due(i, no) \/ Arrived(i) \/ readNo # no \/ Refused(no) \/ status # "running")'
      /\ Arrived(i) /\ readNo = no /\ status = "running" =>
            ((Arrived(i) /\ status = "running") \/ readNo # no)'
<1>1. ASSUME TableInv, ReadNumbers, [Next]_vars
      PROVE  \A i \in 1..MaxPosts, no \in 1..MaxReads : Keeps(i, no)
  <2> SUFFICES ASSUME NEW i \in 1..MaxPosts, NEW no \in 1..MaxReads, readNo' = no
               PROVE  Keeps(i, no)
    OBVIOUS
  <2>1. TableInv' /\ TableInStep /\ TableInStep'
    BY <1>1, TableInvStep DEF TableInv
  <2>2. no # 0
    OBVIOUS
  <2>3. ASSUME Due(i, no), status' = "running" PROVE Due(i, no)' \/ Arrived(i)' \/ Refused(no)'
    <3>1. readNo = no
      BY <2>3 DEF Due
    <3> QED
      BY <1>1, <2>1, <2>2, <2>3, <3>1, DueStays, ArrivedIsHeld
  <2>4. ASSUME Arrived(i), readNo = no PROVE Arrived(i)' /\ status' = "running"
    BY <1>1, <2>1, <2>2, <2>4, HeldStays, ArrivedIsHeld
  <2> QED
    BY <2>3, <2>4
<1>2. AnswersInv => ReadNumbers
  BY DEF AnswersInv
<1> QED
  BY <1>1, <1>2, TableSafety, AnswersSafety, PTL DEF Spec, FreshPostIsKept
============================================================================
