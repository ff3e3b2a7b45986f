--------------------------- MODULE NewPostProofs ---------------------------
(***************************************************************************)
(* Theorems about NewPost for texts of any length and any number of posts: *)
(* the faked placeholder is never confused with what the user entered, and *)
(* so nothing empty is ever posted.                                        *)
(***************************************************************************)
EXTENDS NewPost, SequenceTheorems, TLAPS

\* A text is a sequence of chunks no longer than the bound.
LEMMA TextsAreBounded ==
    /\ \A t \in Seq(Chunks) : Len(t) <= MaxText => t \in Texts
    /\ \A t \in Texts : t \in Seq(Chunks) /\ Len(t) <= MaxText
<1>1. ASSUME NEW t \in Seq(Chunks), Len(t) <= MaxText PROVE t \in Texts
  <2>1. Len(t) \in 0..MaxText /\ t \in [1..Len(t) -> Chunks]
    BY <1>1, LenProperties, ComposerAssumption
  <2> QED
    BY <2>1 DEF Texts
<1>2. ASSUME NEW t \in Texts PROVE t \in Seq(Chunks) /\ Len(t) <= MaxText
  <2>1. PICK n \in 0..MaxText : t \in [1..n -> Chunks]
    BY DEF Texts
  <2>2. n \in Nat /\ n <= MaxText
    BY <2>1, ComposerAssumption
  <2>3. t \in Seq(Chunks)
    BY <2>1, <2>2, SeqDef
  <2>4. Len(t) = n
    BY <2>1, <2>2, <2>3, LenProperties
  <2> QED
    BY <2>2, <2>3, <2>4
<1> QED
  BY <1>1, <1>2

\* The two texts the delegate methods assign are texts.
LEMMA PlaceholderTyped == <<>> \in Texts /\ placeholder \in Texts
<1>1. <<>> \in Seq(Chunks) /\ Len(<<>>) = 0
  BY EmptySeq
<1>2. placeholder \in Seq(Chunks) /\ Len(placeholder) = 1
  BY DEF placeholder, Chunks
<1>3. 0 <= MaxText /\ 1 <= MaxText
  BY ComposerAssumption
<1>4. <<>> \in Texts
  BY <1>1, <1>3, TextsAreBounded
<1>5. placeholder \in Texts
  BY <1>2, <1>3, TextsAreBounded
<1> QED
  BY <1>4, <1>5

\* An edit of a sequence of chunks gives a sequence of chunks.
LEMMA SpliceTyped ==
    ASSUME NEW t \in Seq(Chunks), NEW new \in Seq(Chunks),
           NEW i \in Nat, NEW j \in Nat, i <= j, j <= Len(t)
    PROVE  Splice(t, i, j, new) \in Seq(Chunks)
<1>1. Len(t) \in Nat /\ \A k \in 1..Len(t) : t[k] \in Chunks
  BY LenProperties, ElementOfSeq
<1>2. SubSeq(t, 1, i) \in Seq(Chunks)
  BY <1>1, SubSeqProperties
<1>3. SubSeq(t, j + 1, Len(t)) \in Seq(Chunks)
  BY <1>1, SubSeqProperties
<1>4. SubSeq(t, 1, i) \o new \in Seq(Chunks)
  BY <1>2, ConcatProperties
<1> QED
  BY <1>3, <1>4, ConcatProperties DEF Splice

----------------------------------------------------------------------------
\* The text view and what was typed after an edit, both of them texts.
LEMMA EditTyped ==
    ASSUME TypeOK, ShownIsTyped, NEW i \in 0..MaxText, NEW j \in 0..MaxText,
           NEW new \in {<<>>, placeholder, <<"word">>}, Edit(i, j, new)
    PROVE  /\ text' \in Texts /\ typed' \in Texts /\ gray' \in BOOLEAN
           /\ ShownIsTyped'
           /\ j <= Len(typed)
<1> DEFINE base    == IF TakesPlace(new) THEN <<>> ELSE text
           spliced == Splice(base, i, j, new)
           changed == Changed(spliced, gray /\ ~TakesPlace(new))
<1>1. /\ text' = changed.text /\ gray' = changed.gray
      /\ typed' = Splice(typed, i, j, new)
      /\ Len(spliced) <= MaxText
      /\ i <= j /\ j <= Len(text) /\ (i # j \/ new # <<>>)
      /\ (text = placeholder /\ gray) => j = 0
  BY DEF Edit, Selectable
<1>2. i \in Nat /\ j \in Nat
  BY ComposerAssumption
<1>3. typed \in Seq(Chunks) /\ new \in Seq(Chunks)
  <2>1. typed \in Seq(Chunks)
    BY TextsAreBounded DEF TypeOK
  <2>2. new \in Seq(Chunks)
    <3>1. <<>> \in Seq(Chunks) /\ placeholder \in Seq(Chunks)
      BY TextsAreBounded, PlaceholderTyped
    <3>2. <<"word">> \in Seq(Chunks)
      BY DEF Chunks
    <3> QED
      BY <3>1, <3>2
  <2> QED
    BY <2>1, <2>2
\* Whatever the text view showed, the edit is the edit of what was typed.
<1>4. /\ base = typed /\ j <= Len(typed)
      /\ (gray /\ ~TakesPlace(new)) = FALSE
  <2>1. CASE gray
    <3>1. typed = <<>> /\ text = placeholder /\ j = 0 /\ i = 0
      <4>1. typed = <<>> /\ text = placeholder
        BY <2>1 DEF ShownIsTyped
      <4>2. j = 0
        BY <1>1, <2>1, <4>1
      <4> QED
        BY <1>1, <1>2, <4>1, <4>2
    <3>2. TakesPlace(new)
      BY <1>1, <2>1, <3>1 DEF TakesPlace
    <3> QED
      BY <3>1, <3>2, EmptySeq
  <2>2. CASE ~gray
    <3>1. ~TakesPlace(new) /\ text = typed
      BY <2>2 DEF TakesPlace, ShownIsTyped
    <3> QED
      BY <1>1, <2>2, <3>1
  <2> QED
    BY <2>1, <2>2
<1>5. typed' = spliced /\ changed = Changed(spliced, FALSE)
  BY <1>1, <1>4
<1>6. spliced \in Texts
  BY <1>1, <1>2, <1>3, <1>4, SpliceTyped, TextsAreBounded
<1> HIDE DEF base, spliced, changed
<1>7. CASE spliced = <<>>
  <2>1. text' = placeholder /\ gray' = TRUE /\ typed' = <<>>
    BY <1>1, <1>5, <1>7 DEF Changed
  <2> QED
    BY <1>4, <2>1, PlaceholderTyped DEF ShownIsTyped
<1>8. CASE spliced # <<>>
  <2>1. text' = spliced /\ gray' = FALSE /\ typed' = spliced
    BY <1>1, <1>5, <1>8 DEF Changed
  <2> QED
    BY <1>4, <1>6, <1>8, <2>1 DEF ShownIsTyped
<1> QED
  BY <1>7, <1>8

\* What one tap writes is a post of the instance.
LEMMA WrittenTyped ==
    ASSUME TypeOK
    PROVE  [place |-> <<SystemKey(system), ComposerGameTypes[gameSegment + 1]>>,
            rank |-> PostTypes[rankSegment + 1], body |-> text] \in Written
BY DEF TypeOK, Written, Places

\* Nothing is in an empty outbox or database.
LEMMA EmptyHasNone == <<>> \in Seq(Written) /\ \A i \in DOMAIN <<>> : FALSE
<1>1. <<>> \in Seq(Written) /\ Len(<<>>) = 0
  BY EmptySeq
<1>2. DOMAIN <<>> = 1..0
  BY <1>1, LenProperties
<1> QED
  BY <1>1, <1>2

\* The inductive invariant.
ComposerInv == TypeOK /\ ShownIsTyped /\ NoEmptyPost

\* Every step keeps it.
LEMMA ComposerInvStep == ComposerInv /\ [Next]_vars => ComposerInv'
<1> SUFFICES ASSUME ComposerInv, [Next]_vars PROVE ComposerInv'
  OBVIOUS
<1> USE DEF ComposerInv
<1>1. ASSUME NEW title \in Systems, Open(title) PROVE ComposerInv'
  BY <1>1, PlaceholderTyped, ComposerAssumption
     DEF Open, TypeOK, ShownIsTyped, NoEmptyPost
<1>2. ASSUME Close PROVE ComposerInv'
  BY <1>2 DEF Close, TypeOK, ShownIsTyped, NoEmptyPost
<1>3. ASSUME NEW segment \in Ranks, SelectRank(segment) PROVE ComposerInv'
  BY <1>3 DEF SelectRank, TypeOK, ShownIsTyped, NoEmptyPost
<1>4. ASSUME NEW segment \in GameTypes, SelectGameType(segment) PROVE ComposerInv'
  BY <1>4 DEF SelectGameType, TypeOK, ShownIsTyped, NoEmptyPost
<1>5. ASSUME BeginEditing PROVE ComposerInv'
  BY <1>5 DEF BeginEditing, TypeOK, ShownIsTyped, NoEmptyPost
<1>6. ASSUME NEW i \in 0..MaxText, NEW j \in 0..MaxText,
             NEW new \in {<<>>, placeholder, <<"word">>}, Edit(i, j, new)
      PROVE  ComposerInv'
  <2>1. text' \in Texts /\ typed' \in Texts /\ gray' \in BOOLEAN /\ ShownIsTyped'
    BY <1>6, EditTyped
  <2> QED
    BY <1>6, <2>1 DEF Edit, TypeOK, NoEmptyPost
<1>7. ASSUME EndEditing PROVE ComposerInv'
  <2>1. text # <<>>
    BY DEF ShownIsTyped, placeholder
  <2>2. text' = text /\ gray' = gray
    BY <1>7, <2>1 DEF EndEditing, TypeOK
  <2> QED
    BY <1>7, <2>2 DEF EndEditing, TypeOK, ShownIsTyped, NoEmptyPost
<1>8. ASSUME PostPost PROVE ComposerInv'
  <2> DEFINE w == [place |-> <<SystemKey(system), ComposerGameTypes[gameSegment + 1]>>,
                   rank |-> PostTypes[rankSegment + 1], body |-> text]
  <2>1. w \in Written /\ w.body # <<>>
    BY WrittenTyped DEF ShownIsTyped, placeholder
  <2>2. outbox' = Append(outbox, w) /\ taps' \in 0..MaxTaps
    BY <1>8, ComposerAssumption DEF PostPost, TypeOK
  <2> HIDE DEF w
  <2>3. outbox' \in Seq(Written) /\ \A i \in DOMAIN outbox' : outbox'[i].body # <<>>
    <3>1. outbox \in Seq(Written)
      BY DEF TypeOK
    <3> QED
      BY <2>1, <2>2, <3>1, AppendProperties, LenProperties DEF NoEmptyPost
  <2> QED
    BY <1>8, <2>2, <2>3 DEF PostPost, screenVars, TypeOK, ShownIsTyped, NoEmptyPost
\* Both answers of the server take the first write out of the outbox.
<1>t. ASSUME outbox # <<>>, outbox' = Tail(outbox)
      PROVE  /\ outbox' \in Seq(Written)
             /\ \A i \in DOMAIN outbox' : outbox'[i].body # <<>>
             /\ Head(outbox) \in Written /\ Head(outbox).body # <<>>
  <2>1. outbox \in Seq(Written)
    BY DEF TypeOK
  <2>2. /\ Tail(outbox) \in Seq(Written) /\ Len(Tail(outbox)) = Len(outbox) - 1
        /\ \A i \in 1..Len(Tail(outbox)) : Tail(outbox)[i] = outbox[i + 1]
        /\ Head(outbox) = outbox[1] /\ Head(outbox) \in Written
    BY <1>t, <2>1, HeadTailProperties
  <2>3. Len(outbox) \in Nat \ {0} /\ DOMAIN outbox = 1..Len(outbox)
    BY <1>t, <2>1, EmptySeq, LenProperties
  <2>4. DOMAIN Tail(outbox) = 1..Len(Tail(outbox))
    BY <2>2, LenProperties
  <2> QED
    BY <1>t, <2>2, <2>3, <2>4 DEF NoEmptyPost
<1>9. ASSUME Accepted PROVE ComposerInv'
  <2>1. server \in Seq(Written)
    BY DEF TypeOK
  <2>2. server' \in Seq(Written) /\ \A i \in DOMAIN server' : server'[i].body # <<>>
    BY <1>9, <1>t, <2>1, AppendProperties, LenProperties DEF Accepted, NoEmptyPost
  <2> QED
    BY <1>9, <1>t, <2>2 DEF Accepted, screenVars, TypeOK, ShownIsTyped, NoEmptyPost
<1>10. ASSUME Refused PROVE ComposerInv'
  BY <1>10, <1>t DEF Refused, screenVars, TypeOK, ShownIsTyped, NoEmptyPost
<1>11. ASSUME Dies PROVE ComposerInv'
  <2>1. outbox' \in Seq(Written) /\ \A i \in DOMAIN outbox' : outbox'[i].body # <<>>
    BY <1>11, EmptyHasNone DEF Dies
  <2> QED
    BY <1>11, <2>1 DEF Dies, TypeOK, ShownIsTyped, NoEmptyPost
<1>12. ASSUME UNCHANGED vars PROVE ComposerInv'
  BY <1>12 DEF vars, TypeOK, ShownIsTyped, NoEmptyPost
<1> QED
  BY <1>1, <1>2, <1>3, <1>4, <1>5, <1>6, <1>7, <1>8, <1>9, <1>10, <1>11, <1>12 DEF Next

\* The inductive invariant holds in every behaviour of the composer.
THEOREM ComposerSafety == Spec => []ComposerInv
<1>1. ASSUME Init PROVE ComposerInv
  <2>1. TypeOK
    <3>1. rankSegment \in Ranks /\ gameSegment \in GameTypes /\ taps \in 0..MaxTaps
      BY <1>1, ComposerAssumption DEF Init
    <3>2. outbox \in Seq(Written) /\ server \in Seq(Written)
      BY <1>1, EmptySeq DEF Init
    <3> QED
      BY <1>1, <3>1, <3>2, PlaceholderTyped DEF Init, TypeOK
  <2>2. ShownIsTyped /\ NoEmptyPost
    <3>1. ShownIsTyped
      BY <1>1 DEF Init, ShownIsTyped
    <3>2. NoEmptyPost
      BY <1>1, EmptyHasNone DEF Init, NoEmptyPost
    <3> QED
      BY <3>1, <3>2
  <2> QED
    BY <2>1, <2>2 DEF ComposerInv
<1> QED
  BY <1>1, ComposerInvStep, PTL DEF Spec

\* The placeholder and the user's text are never taken for each other.
THEOREM PlaceholderNeverTaken == Spec => []ShownIsTyped
<1>1. ComposerInv => ShownIsTyped
  BY DEF ComposerInv
<1> QED
  BY <1>1, ComposerSafety, PTL

\* Nothing empty is written, waiting or on the server.
THEOREM NothingEmptyPosted == Spec => []NoEmptyPost
<1>1. ComposerInv => NoEmptyPost
  BY DEF ComposerInv
<1> QED
  BY <1>1, ComposerSafety, PTL

\* The text stays a text through every edit, and what waits for the server or is
\* there is always a post the composer can write.
THEOREM ComposerTyping == Spec => []TypeOK
<1>1. ComposerInv => TypeOK
  BY DEF ComposerInv
<1> QED
  BY <1>1, ComposerSafety, PTL

----------------------------------------------------------------------------
\* While the placeholder and the user's text are kept apart, what the form's text
\* view holds is what was typed, and what it shows is the text.
LEMMA EnteredIsTyped ==
    ASSUME ShownIsTyped
    PROVE  /\ (IF gray THEN <<>> ELSE text) = typed
           /\ text = IF typed = <<>> THEN placeholder ELSE typed
BY DEF ShownIsTyped

\* The form as it is filled in now.
Fields == [place |-> <<SystemKey(system), ComposerGameTypes[gameSegment + 1]>>,
           rank  |-> PostTypes[rankSegment + 1]]

Entered == IF gray THEN <<>> ELSE text

\* Every event is one move of the form, or none at all.
LEMMA StepFillsIn ==
    ASSUME ComposerInv, ComposerInv', [Next]_vars
    PROVE  [TheForm!Next]_(TheForm!vars)
<1> SUFFICES TheForm!Next \/ UNCHANGED <<open, Fields, Entered, outbox, server>>
  BY Zenon DEF TheForm!vars, Fields, Entered
<1>e. Entered = typed /\ Entered' = typed'
  BY EnteredIsTyped DEF ComposerInv, Entered, ShownIsTyped
<1>f. system' = system /\ gameSegment' = gameSegment /\ rankSegment' = rankSegment
      => Fields' = Fields
  BY DEF Fields
<1>1. ASSUME NEW title \in Systems, Open(title) PROVE TheForm!Open
  <2>1. ~open /\ open' = TRUE /\ Entered' = <<>> /\ UNCHANGED <<outbox, server>>
    BY <1>1, <1>e DEF Open
  <2> QED
    BY <2>1 DEF TheForm!Open, Entered
<1>2. ASSUME Close PROVE TheForm!Close
  <2>1. open /\ open' = FALSE /\ Fields' = Fields /\ Entered' = Entered
        /\ UNCHANGED <<outbox, server>>
    BY <1>2, <1>e, <1>f DEF Close
  <2> QED
    BY <2>1 DEF TheForm!Close, Fields, Entered
<1>3. ASSUME NEW segment, SelectRank(segment) \/ SelectGameType(segment)
      PROVE  TheForm!Choose
  <2>1. open /\ open' = open /\ Entered' = Entered /\ UNCHANGED <<outbox, server>>
    BY <1>3, <1>e DEF SelectRank, SelectGameType
  <2> QED
    BY <2>1 DEF TheForm!Choose, Entered
<1>4. ASSUME BeginEditing \/ EndEditing
      PROVE  UNCHANGED <<open, Fields, Entered, outbox, server>>
  BY <1>4, <1>e, <1>f DEF BeginEditing, EndEditing
<1>5. ASSUME NEW i \in 0..MaxText, NEW j \in 0..MaxText,
             NEW new \in {<<>>, placeholder, <<"word">>}, Edit(i, j, new)
      PROVE  \E k, l \in 0..Len(Entered) : TheForm!Enter(k, l, new)
  <2>1. j <= Len(typed)
    BY <1>5, EditTyped DEF ComposerInv
  <2>2. open /\ i <= j /\ typed' = Splice(typed, i, j, new)
        /\ open' = open /\ Fields' = Fields /\ UNCHANGED <<outbox, server>>
    BY <1>5, <1>f DEF Edit, Selectable
  <2>3. Len(typed) \in Nat
    BY TextsAreBounded, LenProperties DEF ComposerInv, TypeOK
  <2>4. i \in 0..Len(Entered) /\ j \in 0..Len(Entered)
    BY <1>e, <2>1, <2>2, <2>3, ComposerAssumption
  <2>5. Entered' = SubSeq(Entered, 1, i) \o new \o SubSeq(Entered, j + 1, Len(Entered))
    BY <1>e, <2>2 DEF Splice
  <2>6. TheForm!Enter(i, j, new)
    BY <2>2, <2>5 DEF TheForm!Enter, Fields, Entered
  <2> QED
    BY <2>4, <2>6
<1>6. ASSUME PostPost PROVE TheForm!Submit
  <2>1. text = IF Entered = <<>> THEN placeholder ELSE Entered
    BY <1>e, EnteredIsTyped DEF ComposerInv
  <2>2. outbox' = Append(outbox, [place |-> Fields.place, rank |-> Fields.rank,
                                  body |-> IF Entered = <<>> THEN placeholder ELSE Entered])
    BY <1>6, <2>1 DEF PostPost, Fields
  <2>3. open /\ open' = open /\ Fields' = Fields /\ Entered' = Entered /\ server' = server
    BY <1>6, <1>e, <1>f DEF PostPost, screenVars
  <2> QED
    BY <2>2, <2>3 DEF TheForm!Submit, Fields, Entered
<1>7. ASSUME Accepted PROVE TheForm!Store
  <2>1. Fields' = Fields /\ Entered' = Entered /\ open' = open
    BY <1>7, <1>e, <1>f DEF Accepted, screenVars
  <2> QED
    BY <1>7, <2>1 DEF Accepted, TheForm!Store, Fields, Entered
<1>8. ASSUME Refused PROVE TheForm!Refuse
  <2>1. Fields' = Fields /\ Entered' = Entered /\ open' = open
    BY <1>8, <1>e, <1>f DEF Refused, screenVars
  <2> QED
    BY <1>8, <2>1 DEF Refused, TheForm!Refuse, Fields, Entered
<1>9. ASSUME Dies PROVE TheForm!Lose
  <2>1. Fields' = Fields /\ Entered' = Entered
    BY <1>9, <1>e, <1>f DEF Dies
  <2> QED
    BY <1>9, <2>1 DEF Dies, TheForm!Lose, Fields, Entered
<1>10. ASSUME UNCHANGED vars
       PROVE  UNCHANGED <<open, Fields, Entered, outbox, server>>
  BY <1>10, <1>e, <1>f DEF vars
<1>11. (\E k, l \in 0..Len(Entered), new \in {<<>>, placeholder, <<"word">>} :
             TheForm!Enter(k, l, new)) => TheForm!Next
  BY Zenon DEF TheForm!Next, Entered
<1> QED
  BY <1>1, <1>2, <1>3, <1>4, <1>5, <1>6, <1>7, <1>8, <1>9, <1>10, <1>11, Zenon
     DEF Next, TheForm!Next

\* The screen with its faked placeholder is a form, whatever its choosers offer.
THEOREM ComposerIsAForm == Spec => IsAForm
<1>1. ASSUME Init PROVE TheForm!Init
  BY <1>1 DEF Init, TheForm!Init
<1>2. ComposerInv /\ ComposerInv' /\ [Next]_vars => [TheForm!Next]_(TheForm!vars)
  BY StepFillsIn
<1> QED
  BY <1>1, <1>2, ComposerSafety, PTL DEF Spec, IsAForm, TheForm!Spec


=============================================================================
