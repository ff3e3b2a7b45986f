-------------------------------- MODULE Feed --------------------------------
(***************************************************************************)
(* What a feed of posts promises, whatever table it is shown in: choosing  *)
(* a place empties it and asks the database once; an answer adds, once     *)
(* each, the posts of the place that was asked for, all those that were    *)
(* there when it was asked and perhaps some that came later.  It promises  *)
(* no order, and no more than one answer per question; it does not promise *)
(* that an answer is to the last question.                                 *)
(*                                                                         *)
(* PostFeed implements it for the table of one device, TeammateFinder for  *)
(* each of several devices over one database.                              *)
(***************************************************************************)
EXTENDS Naturals

CONSTANTS
    Posts,      \* the posts there may ever be
    Places,     \* where posts are written and looked for
    Home,       \* the place a launch begins with
    Nowhere,    \* where a post is that no feed could show
    Asks        \* names for the questions

VARIABLES
    where,      \* the place of each post, as the database client sees it
    place,      \* the place that is chosen
    shown,      \* how often each post is in the feed
    asked       \* the questions without an answer, with what they were promised

vars == <<where, place, shown, asked>>

At(p) == {i \in Posts : where[i] = p}

Nothing == [i \in Posts |-> 0]

Init ==
    /\ where = [i \in Posts |-> Nowhere]
    /\ place = Home
    /\ shown = Nothing
    /\ asked = {}

\* Choosing a place, the chosen one again included.  The question may be told
\* no more than an earlier one of the same place that is still open.
Choose(p) ==
    /\ place' = p
    /\ shown' = Nothing
    /\ \E no \in Asks \ {q.no : q \in asked},
          since \in {At(p)} \cup {q.since : q \in {r \in asked : r.place = p}} :
          asked' = asked \cup {[no |-> no, place |-> p, since |-> since]}
    /\ UNCHANGED where

Answered(q) ==
    /\ asked' = asked \ {q}
    /\ \E found \in SUBSET At(q.place) :
          /\ q.since \subseteq found
          /\ shown' = [i \in Posts |-> shown[i] + IF i \in found THEN 1 ELSE 0]
    /\ UNCHANGED <<where, place>>

Refused(q) ==
    /\ asked' = asked \ {q}
    /\ UNCHANGED <<where, place, shown>>

Written(i, p) ==
    /\ where[i] = Nowhere
    /\ where' = [where EXCEPT ![i] = p]
    /\ UNCHANGED <<place, shown, asked>>

\* A post the client had shown ahead of the server's consent, and took back.
Withdrawn(i) ==
    /\ where' = [where EXCEPT ![i] = Nowhere]
    /\ asked' = {[q EXCEPT !.since = @ \ {i}] : q \in asked}
    /\ UNCHANGED <<place, shown>>

\* The client starts over, without the posts only it knew of.
Restart ==
    /\ place' = Home
    /\ shown' = Nothing
    /\ asked' = {}
    /\ \E lost \in SUBSET Posts :
          where' = [i \in Posts |-> IF i \in lost THEN Nowhere ELSE where[i]]

Next ==
    \/ \E p \in Places : Choose(p)
    \/ \E q \in asked : Answered(q) \/ Refused(q)
    \/ \E i \in Posts, p \in Places : Written(i, p)
    \/ \E i \in Posts : Withdrawn(i)
    \/ Restart

Spec == Init /\ [][Next]_vars
=============================================================================
