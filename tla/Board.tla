-------------------------------- MODULE Board --------------------------------
(***************************************************************************)
(* What the app as a whole promises: a notice board.  Every tap is one     *)
(* notice, that is put up once or lost for good, and nobody but its author *)
(* loses it.  A device sees what is on the board, its own notices as long  *)
(* as they may still get there, and what it has been showing all along.    *)
(***************************************************************************)
EXTENDS Naturals, Sequences, Functions

CONSTANTS
    Devices,
    Authors,    \* the devices that have somebody who posts
    Places      \* where a notice can be put

VARIABLES
    taps,       \* the notices: who wrote them, and for which place
    board,      \* the notices that were put up, in that order
    lost,       \* the notices that never will be
    seen        \* what each device shows

vars == <<taps, board, lost, seen>>

Init ==
    /\ taps = <<>> /\ board = <<>> /\ lost = {}
    /\ seen = [d \in Devices |-> {}]

By(d) == {i \in DOMAIN taps : taps[i].author = d}

Pending == DOMAIN taps \ (Range(board) \cup lost)

Tap(d) ==
    /\ \E place \in Places : taps' = Append(taps, [author |-> d, place |-> place])
    /\ UNCHANGED <<board, lost, seen>>

Publish(i) ==
    /\ board' = Append(board, i)
    /\ UNCHANGED <<taps, lost, seen>>

\* Some of the device's notices will not be put up any more.
LosesSome(d) == \E some \in SUBSET (Pending \cap By(d)) : lost' = lost \cup some

Lose(d) ==
    /\ LosesSome(d)
    /\ UNCHANGED <<taps, board, seen>>

Look(d) ==
    /\ \E new \in SUBSET (seen[d] \cup Range(board) \cup (By(d) \ lost)) :
          seen' = [seen EXCEPT ![d] = new]
    /\ UNCHANGED <<taps, board, lost>>

Restart(d) ==
    /\ LosesSome(d)
    /\ seen' = [seen EXCEPT ![d] = {}]
    /\ UNCHANGED <<taps, board>>

Next ==
    \/ \E d \in Authors : Tap(d)
    \/ \E i \in Pending : Publish(i)
    \/ \E d \in Devices : Lose(d) \/ Look(d) \/ Restart(d)

Spec == Init /\ [][Next]_vars

==============================================================================
