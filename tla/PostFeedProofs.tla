--------------------------- MODULE PostFeedProofs ---------------------------
(***************************************************************************)
(* Theorems about PostFeed for every set of systems, game types, sections  *)
(* and ranks and every bound: its type invariant, and why a header tap can *)
(* never make UIKit raise although the arrays are emptied behind its back. *)
(***************************************************************************)
EXTENDS PostFeed, FiniteSetTheorems, SequenceTheorems, TLAPS

\* A place is a place of the instance whatever is selected.
LEMMA PlaceTyped ==
    ASSUME TypeOK PROVE Place \in Places
BY DEF TypeOK, Place, Places

\* SetToSeqs of a finite set of numbers gives sequences of numbers.
LEMMA OrdersAreSequences ==
    ASSUME NEW S \in SUBSET Nat, IsFiniteSet(S), NEW o \in SetToSeqs(S)
    PROVE  o \in Seq(Nat)
<1>1. Cardinality(S) \in Nat
  BY FS_CardinalityType
<1>2. o \in [1..Cardinality(S) -> S]
  BY DEF SetToSeqs
<1>3. o \in [1..Cardinality(S) -> Nat]
  BY <1>2
<1> QED
  BY <1>1, <1>3, SeqDef

\* Appending the posts of a snapshot to the arrays gives arrays of posts.
LEMMA AppendedTyped ==
    ASSUME posts \in [Arrays -> Seq(Nat)],
           NEW found \in SUBSET Nat, IsFiniteSet(found),
           NEW new \in Appended(found)
    PROVE  new \in [Arrays -> Seq(Nat)]
<1> DEFINE Of(a)  == {i \in found : db[i].rank = a}
           Orders == [Arrays -> UNION {SetToSeqs(Of(a)) : a \in Arrays}]
<1>1. PICK order \in {o \in Orders : \A a \in Arrays : o[a] \in SetToSeqs(Of(a))} :
          new = [a \in Arrays |-> posts[a] \o order[a]]
  BY DEF Appended
<1>2. ASSUME NEW a \in Arrays PROVE posts[a] \o order[a] \in Seq(Nat)
  <2>1. Of(a) \in SUBSET Nat /\ IsFiniteSet(Of(a))
    BY FS_Subset
  <2>2. order[a] \in SetToSeqs(Of(a))
    BY <1>1
  <2>3. order[a] \in Seq(Nat)
    <3> HIDE DEF Of
    <3> QED BY <2>1, <2>2, OrdersAreSequences
  <2>4. posts[a] \in Seq(Nat)
    OBVIOUS
  <2> QED
    BY <2>3, <2>4, ConcatProperties
<1> QED
  BY <1>1, <1>2

----------------------------------------------------------------------------
\* Every array starts over as an array of posts.
LEMMA NoPostsTyped == NoPosts \in [Arrays -> Seq(Nat)]
<1> <<>> \in Seq(Nat)
  BY EmptySeq
<1> QED
  BY DEF NoPosts

\* The rows the data source reports are numbers.
LEMMA RowsTyped ==
    ASSUME NEW hidden \in [Sections -> BOOLEAN],
           NEW arrays \in [Arrays -> Seq(Nat)],
           NEW s \in Sections
    PROVE  RowsOf(s, hidden, arrays) \in Nat
<1>1. arrays[ArrayOf(s)] \in Seq(Nat)
  BY DEF Arrays
<1> QED
  BY <1>1, LenProperties DEF RowsOf

\* What readDatabase does to the typed variables, for any caller that leaves
\* a system and a game type of the instance selected.
LEMMA ReadDatabaseTyped ==
    ASSUME TypeOK, system' \in Systems, gameType' \in GameTypes,
           db' = db, ReadDatabase
    PROVE  /\ posts' \in [Arrays -> Seq(Nat)]
           /\ readNo' \in Nat
           /\ reads' \subseteq [no : 1..readNo', place : Places, since : 0..Len(db')]
           /\ heard' \subseteq [no : 1..readNo', place : Places, upto : 0..Len(db')]
<1>1. posts' \in [Arrays -> Seq(Nat)] /\ readNo' = readNo + 1 /\ readNo' \in Nat
  BY NoPostsTyped DEF ReadDatabase, TypeOK
<1>2. Place' \in Places
  BY DEF Place, Places
<1>3. PICK since \in Promised(Place') :
          reads' = reads \cup {[no |-> readNo + 1, place |-> Place', since |-> since]}
  BY DEF ReadDatabase
<1>4. Len(db) \in Nat
  BY LenProperties DEF TypeOK
<1>5. since \in 0..Len(db)
  <2>1. ASSUME NEW r \in reads PROVE r.since \in 0..Len(db)
    BY DEF TypeOK
  <2> QED
    BY <1>4, <2>1 DEF Promised
<1>6. reads \subseteq [no : 1..readNo', place : Places, since : 0..Len(db')]
  BY <1>1, <1>4 DEF TypeOK
<1>7. [no |-> readNo + 1, place |-> Place', since |-> since]
          \in [no : 1..readNo', place : Places, since : 0..Len(db')]
  BY <1>1, <1>2, <1>5 DEF TypeOK
<1>8. reads' \subseteq [no : 1..readNo', place : Places, since : 0..Len(db')]
  BY <1>3, <1>6, <1>7
<1> QED
  BY <1>1, <1>8 DEF ReadDatabase

\* What a snapshot holds for a read is a finite set of positions of db.
LEMMA FoundTyped ==
    ASSUME NEW r, NEW n \in Nat
    PROVE  Found(r, n) \in SUBSET Nat /\ IsFiniteSet(Found(r, n))
<1>1. IsFiniteSet(1..n)
  BY FS_Interval
<1> QED
  BY <1>1, FS_Subset DEF Found

\* Every step keeps the types.
LEMMA TypeOKStep == TypeOK /\ [Next]_vars => TypeOK'
<1> SUFFICES ASSUME TypeOK, [Next]_vars PROVE TypeOK'
  OBVIOUS
<1>1. CASE ViewDidAppear
  <2>1. system' \in Systems /\ gameType' \in GameTypes /\ db' = db /\ ReadDatabase
    BY <1>1 DEF ViewDidAppear, TypeOK
  <2> QED
    BY <1>1, <2>1, ReadDatabaseTyped DEF ViewDidAppear, TypeOK
<1>2. CASE Leave
  BY <1>2 DEF Leave, TypeOK
<1>3. ASSUME NEW title \in Systems, SelectSystem(title) PROVE TypeOK'
  <2>1. system' \in Systems /\ gameType' \in GameTypes /\ db' = db /\ ReadDatabase
    BY <1>3 DEF SelectSystem, TypeOK
  <2> QED
    BY <1>3, <2>1, ReadDatabaseTyped DEF SelectSystem, TypeOK
<1>4. ASSUME NEW title \in GameTypes, SelectGameType(title) PROVE TypeOK'
  <2>1. system' \in Systems /\ gameType' \in GameTypes /\ db' = db /\ ReadDatabase
    BY <1>4 DEF SelectGameType, TypeOK
  <2> QED
    BY <1>4, <2>1, ReadDatabaseTyped DEF SelectGameType, TypeOK
<1>5. ASSUME NEW r \in reads, NEW n \in r.since..Len(db), Answer(r, n)
      PROVE  TypeOK'
  <2>1. Len(db) \in Nat /\ r \in [no : 1..readNo, place : Places, since : 0..Len(db)]
    BY LenProperties DEF TypeOK
  <2>2. n \in 0..Len(db) /\ n \in Nat
    BY <2>1
  <2>3. posts' \in [Arrays -> Seq(Nat)]
    BY <1>5, <2>2, FoundTyped, AppendedTyped DEF Answer, TypeOK
  <2>4. rows' \in [Sections -> Nat]
    <3>1. \A s \in Sections : RowsOf(s, isHidden, posts') \in Nat
      BY <2>3, RowsTyped DEF TypeOK
    <3> QED
      BY <1>5, <3>1 DEF Answer, TypeOK
  <2>5. caret' \in [Sections -> {"up", "down"}]
    BY <1>5 DEF Answer, TypeOK
  <2>6. heard' \subseteq [no : 1..readNo, place : Places, upto : 0..Len(db)]
    <3>1. [no |-> r.no, place |-> r.place, upto |-> n]
              \in [no : 1..readNo, place : Places, upto : 0..Len(db)]
      BY <2>1, <2>2
    <3> QED
      BY <1>5, <3>1 DEF Answer, TypeOK
  <2> QED
    BY <1>5, <2>3, <2>4, <2>5, <2>6 DEF Answer, TypeOK
<1>6. ASSUME NEW r \in reads, Cancelled(r) PROVE TypeOK'
  BY <1>6 DEF Cancelled, TypeOK
<1>7. ASSUME NEW s \in Sections, ExpandPosts(s) PROVE TypeOK'
  <2> DEFINE hidden == [isHidden EXCEPT ![s] = ~@]
  <2>1. isHidden' = hidden /\ hidden \in [Sections -> BOOLEAN]
    BY <1>7 DEF ExpandPosts, TypeOK
  <2>2. \A t \in Sections : RowsOf(t, hidden, posts) \in Nat
    BY <2>1, RowsTyped DEF TypeOK
  <2>3. rows' \in [Sections -> Nat]
    <3>1. rows' = rows \/ rows' = [t \in Sections |-> RowsOf(t, hidden, posts)]
      BY <1>7 DEF ExpandPosts
    <3> HIDE DEF hidden
    <3> QED
      BY <2>2, <3>1 DEF TypeOK
  <2>4. caret' \in [Sections -> {"up", "down"}] /\ status' \in {"running", "trapped", "raised"}
    BY <1>7 DEF ExpandPosts, TypeOK
  <2> QED
    BY <1>7, <2>1, <2>3, <2>4 DEF ExpandPosts, TypeOK
<1>8. ASSUME NEW s \in Sections, NEW row \in 0..rows[s], CellForRow(s, row)
      PROVE  TypeOK'
  BY <1>8 DEF CellForRow, TypeOK
<1>9. ASSUME NEW s \in Sections, ViewForHeader(s) PROVE TypeOK'
  BY <1>9 DEF ViewForHeader, TypeOK
<1>10. ASSUME NEW place \in Places, NEW rank \in Ranks, Post(place, rank)
       PROVE  TypeOK'
  <2>1. db' \in Seq([place : Places, rank : Ranks]) /\ Len(db') = Len(db) + 1
    BY <1>10 DEF Post, TypeOK
  <2>2. Len(db) \in Nat
    BY LenProperties DEF TypeOK
  <2>3. /\ reads' \subseteq [no : 1..readNo', place : Places, since : 0..Len(db')]
        /\ heard' \subseteq [no : 1..readNo', place : Places, upto : 0..Len(db')]
    BY <1>10, <2>1, <2>2 DEF Post, TypeOK
  <2> QED
    BY <1>10, <2>1, <2>3 DEF Post, TypeOK
<1>11. CASE Relaunch
  BY <1>11, FeedAssumption, NoPostsTyped DEF Relaunch, TypeOK
<1>12. CASE UNCHANGED vars
  BY <1>12 DEF vars, TypeOK
<1> QED
  BY <1>1, <1>2, <1>3, <1>4, <1>5, <1>6, <1>7, <1>8, <1>9, <1>10, <1>11, <1>12
     DEF Next

\* The launch state is typed.
LEMMA InitTyped == Init => TypeOK
<1> SUFFICES ASSUME Init PROVE TypeOK
  OBVIOUS
<1>1. system \in Systems /\ gameType \in GameTypes
  BY FeedAssumption DEF Init
<1>2. db \in Seq([place : Places, rank : Ranks])
  BY EmptySeq DEF Init
<1> QED
  BY <1>1, <1>2, NoPostsTyped DEF Init, TypeOK

\* The type invariant of the feed holds in every behaviour.
THEOREM Typing == Spec => []TypeOK
<1> QED
  BY InitTyped, TypeOKStep, PTL DEF Spec

----------------------------------------------------------------------------
\* Emptying the arrays puts the table out of step with nothing but empty arrays.
LEMMA ClearedInStep ==
    ASSUME posts' = NoPosts PROVE TableInStep'
BY DEF TableInStep, NoPosts

\* A table in step is what UIKit compares an insertion or a deletion with.
LEMMA InStepIsValid ==
    ASSUME TypeOK, TableInStep, NEW s \in Sections, posts[ArrayOf(s)] # <<>>
    PROVE  UpdateIsValid(s, [isHidden EXCEPT ![s] = ~@])
<1> DEFINE hidden == [isHidden EXCEPT ![s] = ~@]
<1>1. \A t \in Sections : rows[t] = RowsOf(t, isHidden, posts)
  BY DEF TableInStep, Arrays
<1>2. Len(posts[ArrayOf(s)]) \in Nat
  <2>1. posts[ArrayOf(s)] \in Seq(Nat)
    BY DEF TypeOK, Arrays
  <2> QED
    BY <2>1, LenProperties
<1>3. /\ \A t \in Sections \ {s} : hidden[t] = isHidden[t]
      /\ hidden[s] = ~isHidden[s]
  BY DEF TypeOK
<1>h. SUFFICES UpdateIsValid(s, hidden)
  OBVIOUS
<1> HIDE DEF hidden
<1>4. \A t \in Sections \ {s} : RowsOf(t, hidden, posts) = rows[t]
  BY <1>1, <1>3 DEF RowsOf
<1>5. CASE isHidden[s]
  <2>1. ~hidden[s] /\ rows[s] = 0 /\ RowsOf(s, hidden, posts) = Len(posts[ArrayOf(s)])
    BY <1>1, <1>3, <1>5 DEF RowsOf
  <2>2. RowsOf(s, hidden, posts) = rows[s] + Len(posts[ArrayOf(s)])
    BY <1>2, <2>1
  <2> QED
    BY <1>4, <2>1, <2>2, Zenon DEF UpdateIsValid
<1>6. CASE ~isHidden[s]
  <2>1. hidden[s] /\ rows[s] = Len(posts[ArrayOf(s)]) /\ RowsOf(s, hidden, posts) = 0
    BY <1>1, <1>3, <1>6 DEF RowsOf
  <2>2. RowsOf(s, hidden, posts) + Len(posts[ArrayOf(s)]) = rows[s]
    BY <1>2, <2>1
  <2> QED
    BY <1>4, <2>1, <2>2, Zenon DEF UpdateIsValid
<1> QED
  BY <1>5, <1>6

\* The inductive invariant: the four facts hold together.
TableInv ==
    /\ TypeOK
    /\ TableInStep
    /\ NeverRaises
    /\ TrapOnlyWhenCleared
    /\ CaretUpShowsRows

\* A header tap keeps it, in both arms of the early return.
LEMMA ExpandPostsKeeps ==
    ASSUME TableInv, NEW s \in Sections, ExpandPosts(s)
    PROVE  TableInStep' /\ NeverRaises' /\ TrapOnlyWhenCleared' /\ CaretUpShowsRows'
<1> DEFINE hidden == [isHidden EXCEPT ![s] = ~@]
<1> USE DEF TableInv
<1>1. isHidden' = hidden /\ posts' = posts
  BY DEF ExpandPosts
<1>2. \A t \in Sections : t # s => hidden[t] = isHidden[t]
  BY DEF TypeOK
<1>3. CASE posts[ArrayOf(s)] = <<>>
  <2>1. rows' = rows /\ caret' = caret /\ status' = status
    BY <1>3 DEF ExpandPosts
  <2>2. RowsOf(s, hidden, posts) = 0 /\ RowsOf(s, isHidden, posts) = 0
    BY <1>3, EmptySeq DEF RowsOf
  <2>3. \A t \in Sections : RowsOf(t, hidden, posts) = RowsOf(t, isHidden, posts)
    BY <1>2, <2>2 DEF RowsOf
  <2>4. TableInStep'
    BY <1>1, <2>1, <2>3 DEF TableInStep
  <2> QED
    BY <1>1, <2>1, <2>4 DEF NeverRaises, TrapOnlyWhenCleared, CaretUpShowsRows
<1>4. CASE posts[ArrayOf(s)] # <<>>
  <2>1. status' = status
    BY <1>4, InStepIsValid DEF ExpandPosts
  <2>2. rows' = [t \in Sections |-> RowsOf(t, hidden, posts)]
    BY <1>4 DEF ExpandPosts
  <2>3. TableInStep'
    BY <1>1, <2>2 DEF TableInStep
  <2>4. ASSUME NEW t \in Sections, caret'[t] = "up" PROVE rows'[t] > 0
    <3>1. CASE t = s
      <4>1. ~hidden[s]
        BY <1>4, <2>4, <3>1 DEF ExpandPosts, TypeOK
      <4>2. posts[ArrayOf(s)] \in Seq(Nat)
        BY DEF TypeOK, Arrays
      <4>3. Len(posts[ArrayOf(s)]) > 0
        BY <1>4, <4>2, EmptySeq
      <4> QED
        BY <2>2, <3>1, <4>1, <4>3 DEF RowsOf
    <3>2. CASE t # s
      <4>1. caret[t] = "up"
        BY <1>4, <2>4, <3>2 DEF ExpandPosts, TypeOK
      <4>2. rows[t] > 0
        BY <4>1 DEF CaretUpShowsRows
      <4>3. rows'[t] = rows[t]
        BY <1>2, <1>4, <2>2, <3>2 DEF TableInStep, RowsOf, Arrays
      <4> QED
        BY <4>2, <4>3
    <3> QED
      BY <3>1, <3>2
  <2>5. NeverRaises' /\ TrapOnlyWhenCleared' /\ CaretUpShowsRows'
    BY <1>1, <2>1, <2>4 DEF NeverRaises, TrapOnlyWhenCleared, CaretUpShowsRows
  <2> QED
    BY <2>3, <2>5
<1> QED
  BY <1>3, <1>4

\* Every step keeps it.
LEMMA TableInvStep == TableInv /\ [Next]_vars => TableInv'
<1> SUFFICES ASSUME TableInv, [Next]_vars PROVE TableInv'
  OBVIOUS
<1> DEFINE Rest == TableInStep /\ NeverRaises /\ TrapOnlyWhenCleared /\ CaretUpShowsRows
<1>0. TypeOK'
  BY TypeOKStep DEF TableInv
<1>r. ASSUME ReadDatabase, UNCHANGED <<rows, caret, status>>, status = "running"
      PROVE  Rest'
  BY <1>r, ClearedInStep
     DEF ReadDatabase, TableInv, NeverRaises, TrapOnlyWhenCleared, CaretUpShowsRows
<1>1. ASSUME ViewDidAppear PROVE Rest'
  BY <1>1, <1>r DEF ViewDidAppear
<1>2. ASSUME Leave PROVE Rest'
  BY <1>2 DEF Leave, TableInv, TableInStep, NeverRaises, TrapOnlyWhenCleared, CaretUpShowsRows
<1>3. ASSUME NEW title \in Systems, SelectSystem(title) PROVE Rest'
  BY <1>3, <1>r DEF SelectSystem
<1>4. ASSUME NEW title \in GameTypes, SelectGameType(title) PROVE Rest'
  BY <1>4, <1>r DEF SelectGameType
<1>5. ASSUME NEW r \in reads, NEW n \in r.since..Len(db), Answer(r, n) PROVE Rest'
  <2>1. TableInStep'
    BY <1>5 DEF Answer, TableInv, TableInStep
  <2>2. status = "running" /\ status' = "running"
    BY <1>5 DEF Answer
  <2>3. CaretUpShowsRows'
    BY <1>5 DEF Answer, TableInv, CaretUpShowsRows
  <2> QED
    BY <2>1, <2>2, <2>3 DEF NeverRaises, TrapOnlyWhenCleared
<1>6. ASSUME NEW r \in reads, Cancelled(r) PROVE Rest'
  BY <1>6 DEF Cancelled, TableInv, TableInStep, NeverRaises, TrapOnlyWhenCleared, CaretUpShowsRows
<1>7. ASSUME NEW s \in Sections, ExpandPosts(s) PROVE Rest'
  BY <1>7, ExpandPostsKeeps
<1>8. ASSUME NEW s \in Sections, NEW row \in 0..rows[s], CellForRow(s, row) PROVE Rest'
  <2>1. UNCHANGED <<posts, isHidden, rows, caret>>
    BY <1>8 DEF CellForRow
  <2>2. TableInStep' /\ CaretUpShowsRows'
    BY <2>1 DEF TableInv, TableInStep, CaretUpShowsRows
  <2>3. NeverRaises'
    BY <1>8 DEF CellForRow, NeverRaises
  <2>4. ASSUME status' = "trapped" PROVE posts = NoPosts
    <3>1. row < rows[s] /\ ~(row < Len(posts[ArrayOf(s)]))
      BY <1>8, <2>4 DEF CellForRow
    <3>2. posts[ArrayOf(s)] \in Seq(Nat) /\ rows[s] \in Nat
      BY DEF TableInv, TypeOK, Arrays
    <3>3. Len(posts[ArrayOf(s)]) \in Nat
      BY <3>2, LenProperties
    <3>4. rows[s] # RowsOf(s, isHidden, posts)
      BY <3>1, <3>2, <3>3 DEF RowsOf
    <3>5. \A a \in Arrays : posts[a] = <<>>
      BY <3>4 DEF TableInv, TableInStep
    <3> QED
      BY <3>5 DEF NoPosts, TableInv, TypeOK
  <2> QED
    BY <2>1, <2>2, <2>3, <2>4 DEF TrapOnlyWhenCleared
<1>9. ASSUME NEW s \in Sections, ViewForHeader(s) PROVE Rest'
  <2>1. CaretUpShowsRows'
    BY <1>9 DEF ViewForHeader, TableInv, TypeOK, CaretUpShowsRows
  <2> QED
    BY <1>9, <2>1 DEF ViewForHeader, TableInv, TableInStep, NeverRaises, TrapOnlyWhenCleared
<1>10. ASSUME NEW place \in Places, NEW rank \in Ranks, Post(place, rank) PROVE Rest'
  BY <1>10 DEF Post, TableInv, TableInStep, NeverRaises, TrapOnlyWhenCleared, CaretUpShowsRows
<1>11. ASSUME Relaunch PROVE Rest'
  BY <1>11, ClearedInStep DEF Relaunch, NeverRaises, TrapOnlyWhenCleared, CaretUpShowsRows
<1>12. ASSUME UNCHANGED vars PROVE Rest'
  BY <1>12 DEF vars, TableInv, TableInStep, NeverRaises, TrapOnlyWhenCleared, CaretUpShowsRows
<1>13. Rest'
  BY <1>1, <1>2, <1>3, <1>4, <1>5, <1>6, <1>7, <1>8, <1>9, <1>10, <1>11, <1>12 DEF Next
<1> QED
  BY <1>0, <1>13 DEF TableInv

\* The inductive invariant holds in every behaviour of the feed.
THEOREM TableSafety == Spec => []TableInv
<1>1. ASSUME Init PROVE TableInv
  <2>1. TypeOK
    BY <1>1, InitTyped
  <2>2. TableInStep
    BY <1>1 DEF Init, TableInStep, NoPosts
  <2>3. NeverRaises /\ TrapOnlyWhenCleared /\ CaretUpShowsRows
    BY <1>1 DEF Init, NeverRaises, TrapOnlyWhenCleared, CaretUpShowsRows
  <2> QED
    BY <2>1, <2>2, <2>3 DEF TableInv
<1> QED
  BY <1>1, TableInvStep, PTL DEF Spec

\* expandPosts never hands UIKit an update it raises an exception about.
THEOREM TapsNeverRaise == Spec => []NeverRaises
<1>1. TableInv => NeverRaises
  BY DEF TableInv
<1> QED
  BY <1>1, TableSafety, PTL

\* cellForRowAt's subscript fails only between a clearing and the next reload.
THEOREM TrapsOnlyWhenCleared == Spec => []TrapOnlyWhenCleared
<1>1. TableInv => TrapOnlyWhenCleared
  BY DEF TableInv
<1> QED
  BY <1>1, TableSafety, PTL

\* A caret that points up has rows under it.
THEOREM CaretsUpShowRows == Spec => []CaretUpShowsRows
<1>1. TableInv => CaretUpShowsRows
  BY DEF TableInv
<1> QED
  BY <1>1, TableSafety, PTL

=============================================================================
