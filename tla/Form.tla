-------------------------------- MODULE Form --------------------------------
(***************************************************************************)
(* What a composer promises: an ordinary text view, with a hint that is on *)
(* screen and nothing else, beside fields the user chooses.  Submitting    *)
(* takes both as they are.  What is submitted is stored once, in the order *)
(* it was submitted in, unless it is refused or lost.                      *)
(***************************************************************************)
EXTENDS Naturals, Sequences

CONSTANTS
    Hint,       \* the text an empty text view shows
    Pieces      \* what the user may enter at once; <<>> to delete

VARIABLES
    open,       \* the form can be filled in
    fields,     \* what is chosen
    entered,    \* what the text view holds
    waiting,    \* submitted, and not yet stored, refused or lost
    stored

vars == <<open, fields, entered, waiting, stored>>

Init ==
    /\ open = FALSE
    /\ entered = <<>> /\ waiting = <<>> /\ stored = <<>>

\* A new form is empty.  What there is to choose from, here and in Choose, is not
\* the form's business: the fields become anything.
Open ==
    /\ ~open /\ open' = TRUE
    /\ entered' = <<>>
    /\ UNCHANGED <<waiting, stored>>

Close ==
    /\ open /\ open' = FALSE
    /\ UNCHANGED <<fields, entered, waiting, stored>>

Choose ==
    /\ open
    /\ UNCHANGED <<open, entered, waiting, stored>>

\* The selection, which lies in the text, is replaced.
Enter(i, j, new) ==
    /\ open
    /\ i <= j
    /\ entered' = SubSeq(entered, 1, i) \o new \o SubSeq(entered, j + 1, Len(entered))
    /\ UNCHANGED <<open, fields, waiting, stored>>

\* A hint is submitted as the text it is; an empty text never is.
Submit ==
    /\ open
    /\ waiting' = Append(waiting,
          [place |-> fields.place, rank |-> fields.rank,
           body  |-> IF entered = <<>> THEN Hint ELSE entered])
    /\ UNCHANGED <<open, fields, entered, stored>>

Store ==
    /\ waiting # <<>>
    /\ stored' = Append(stored, Head(waiting)) /\ waiting' = Tail(waiting)
    /\ UNCHANGED <<open, fields, entered>>

Refuse ==
    /\ waiting # <<>>
    /\ waiting' = Tail(waiting)
    /\ UNCHANGED <<open, fields, entered, stored>>

Lose ==
    /\ open' = FALSE /\ waiting' = <<>>
    /\ UNCHANGED <<fields, entered, stored>>

Next ==
    \/ Open \/ Close \/ Choose
    \/ \E i, j \in 0..Len(entered), new \in Pieces : Enter(i, j, new)
    \/ Submit \/ Store \/ Refuse \/ Lose

Spec == Init /\ [][Next]_vars

=============================================================================
